---------------------------- MODULE StreamProofs ----------------------------
(***************************************************************************)
(* What the handlers that send do to one stream (Streaming.tla), for any    *)
(* number of packets and any window: SendBuffer cuts the buffer into        *)
(* packets and keeps them, Close and SendClose end the stream, the timers   *)
(* and the posted tasks leave it waiting for something, and SendQuickAck    *)
(* acknowledges what has been received.  StreamingProofs.tla goes on with   *)
(* the handlers that receive, and puts the streams together.                *)
(***************************************************************************)
EXTENDS Streaming, FiniteSetTheorems, SequenceTheorems, WellFoundedInduction, TLAPS

-----------------------------------------------------------------------------
(* Numbers, and parts of what was written.                                  *)

(* The least of a set of numbers.                                           *)
LEMMA NatMin ==
  ASSUME NEW T, T \subseteq Nat, T # {}
  PROVE  Min(T) \in T /\ \A y \in T : Min(T) <= y
<1> DEFINE R == {ss \in Nat \X Nat : ss[1] < ss[2]}
<1>1. IsWellFoundedOn(R, Nat)
  BY NatLessThanWellFounded DEF OpToRel
<1>2. PICK x \in T : \A y \in T : ~(<<y, x>> \in R)
  <2> HIDE DEF R
  <2> QED
    BY <1>1, WFMin
<1>3. \A y \in T : ~(y < x)
  BY <1>2
<1>4. \A y \in T : x <= y
  BY <1>3
<1> QED
  BY <1>4 DEF Min

(* The lesser of two numbers.                                               *)
LEMMA MinOf ==
  ASSUME NEW a \in Int, NEW b \in Int
  PROVE  /\ Min({a, b}) \in {a, b} /\ Min({a, b}) <= a /\ Min({a, b}) <= b
         /\ Min({a, b}) \in Int
<1>1. \E x \in {a, b} : \A y \in {a, b} : x <= y
  OBVIOUS
<1>2. Min({a, b}) \in {a, b} /\ \A y \in {a, b} : Min({a, b}) <= y
  BY <1>1 DEF Min
<1> QED
  BY <1>2

(* The greater of two numbers.                                              *)
LEMMA MaxOf ==
  ASSUME NEW a \in Int, NEW b \in Int
  PROVE  /\ Max({a, b}) \in {a, b} /\ Max({a, b}) >= a /\ Max({a, b}) >= b
         /\ Max({a, b}) \in Int
<1>1. \E x \in {a, b} : \A y \in {a, b} : x >= y
  OBVIOUS
<1>2. Max({a, b}) \in {a, b} /\ \A y \in {a, b} : Max({a, b}) >= y
  BY <1>1 DEF Max
<1> QED
  BY <1>2

(* A part of a sequence, a part of its tail, and a part that does not       *)
(* change when the sequence grows.                                          *)
LEMMA PartOf ==
  ASSUME NEW S, NEW w \in Seq(S), NEW a \in Nat, NEW b \in Nat, b <= Len(w)
  PROVE  /\ SubSeq(w, a + 1, b) \in Seq(S)
         /\ Len(SubSeq(w, a + 1, b)) = IF a < b THEN b - a ELSE 0
         /\ \A i \in 1 .. b - a : SubSeq(w, a + 1, b)[i] = w[a + i]
<1>1. \A i \in a + 1 .. b : w[i] \in S
  OBVIOUS
<1>2. PICK m \in Int : m = a + 1
  OBVIOUS
<1>3. /\ SubSeq(w, m, b) \in Seq(S)
      /\ Len(SubSeq(w, m, b)) = IF m <= b THEN b - m + 1 ELSE 0
      /\ \A i \in 1 .. b - m + 1 : SubSeq(w, m, b)[i] = w[m + i - 1]
  BY <1>1, <1>2, SubSeqProperties
<1> QED
  BY <1>2, <1>3

(* Sequences with the same members are equal.                               *)
LEMMA SameSeq ==
  ASSUME NEW S, NEW T, NEW x \in Seq(S), NEW y \in Seq(T), Len(x) = Len(y),
         \A i \in 1 .. Len(x) : x[i] = y[i]
  PROVE  x = y
OBVIOUS

(* A part of what is left of a sequence.                                    *)
LEMMA PartOfTail ==
  ASSUME NEW S, NEW w \in Seq(S), NEW c \in Nat, c <= Len(w),
         NEW i \in Nat, NEW j \in Nat, c + j <= Len(w)
  PROVE  SubSeq(SubSeq(w, c + 1, Len(w)), i + 1, j) = SubSeq(w, c + i + 1, c + j)
<1>1. PICK v : v = SubSeq(w, c + 1, Len(w))
  OBVIOUS
<1>2. v \in Seq(S) /\ Len(v) = Len(w) - c /\ \A k \in 1 .. Len(w) - c : v[k] = w[c + k]
  BY <1>1, PartOf
<1>3. PICK x : x = SubSeq(v, i + 1, j)
  OBVIOUS
<1>4. /\ x \in Seq(S) /\ Len(x) = IF i < j THEN j - i ELSE 0
      /\ \A k \in 1 .. j - i : x[k] = v[i + k]
  BY <1>2, <1>3, PartOf
<1>5. PICK y : y = SubSeq(w, c + i + 1, c + j)
  OBVIOUS
<1>6. /\ y \in Seq(S) /\ Len(y) = IF c + i < c + j THEN c + j - (c + i) ELSE 0
      /\ \A k \in 1 .. c + j - (c + i) : y[k] = w[c + i + k]
  <2>1. c + i \in Nat /\ c + j \in Nat
    OBVIOUS
  <2> QED
    BY <1>5, <2>1, PartOf
<1>7. Len(x) = Len(y)
  BY <1>4, <1>6
<1>8. \A k \in 1 .. Len(x) : x[k] = y[k]
  <2> TAKE k \in 1 .. Len(x)
  <2>1. k \in 1 .. j - i /\ k \in 1 .. c + j - (c + i) /\ i + k \in 1 .. Len(w) - c
    BY <1>4
  <2>2. x[k] = v[i + k]
    BY <1>4, <2>1
  <2>3. v[i + k] = w[c + (i + k)]
    BY <1>2, <2>1
  <2>4. y[k] = w[c + i + k]
    BY <1>6, <2>1
  <2>5. c + (i + k) = c + i + k
    BY <2>1
  <2> QED
    BY <2>2, <2>3, <2>4, <2>5
<1> QED
  BY <1>1, <1>3, <1>4, <1>5, <1>6, <1>7, <1>8, SameSeq

(* What is added behind leaves the parts before it alone.                   *)
LEMMA PartKept ==
  ASSUME NEW S, NEW w \in Seq(S), NEW u \in Seq(S), NEW a \in Nat, NEW b \in Nat, b <= Len(w)
  PROVE  SubSeq(w \o u, a + 1, b) = SubSeq(w, a + 1, b)
<1>1. w \o u \in Seq(S) /\ Len(w \o u) = Len(w) + Len(u)
      /\ \A i \in 1 .. Len(w) : (w \o u)[i] = w[i]
  OBVIOUS
<1>2. PICK x, y : x = SubSeq(w, a + 1, b) /\ y = SubSeq(w \o u, a + 1, b)
  OBVIOUS
<1>3. /\ x \in Seq(S) /\ Len(x) = IF a < b THEN b - a ELSE 0
      /\ \A k \in 1 .. b - a : x[k] = w[a + k]
  BY <1>2, PartOf
<1>4. /\ y \in Seq(S) /\ Len(y) = IF a < b THEN b - a ELSE 0
      /\ \A k \in 1 .. b - a : y[k] = (w \o u)[a + k]
  <2>1. b <= Len(w \o u)
    BY <1>1
  <2> QED
    BY <1>1, <1>2, <2>1, PartOf
<1> QED
  BY <1>1, <1>2, <1>3, <1>4, SameSeq

-----------------------------------------------------------------------------
Units == StreamIDs \X Nat
PacketType ==
  [to : Nat, from : StreamIDs, seqn : Nat, ack : Int, noAck : BOOLEAN,
   nacks : SUBSET Int, syn : BOOLEAN, fin : BOOLEAN, data : Seq(Units)]
TaskType ==
  [task : {"SendBuffer"}] \cup [task : {"SendPacket"}, packet : PacketType]
StreamType ==
  [status : {"New", "Open", "Reset", "Closing", "Closed"},
   peer : Nat, seqn : Nat, last : Int, sent : SUBSET PacketType,
   saved : SUBSET PacketType, buf : Seq(Units), eof : BOOLEAN, window : Nat,
   attempts : Int, acks : Int, resendSet : BOOLEAN, handler : BOOLEAN,
   posted : Seq(TaskType), inTable : BOOLEAN, closing : BOOLEAN,
   written : Seq(Units), delivered : Seq(Units), out : SUBSET PacketType]

(* A packet of stream s, which has used n sequence numbers and written w:   *)
(* the units of its number.                                                 *)
OwnPacket(s, n, w, pos, p) ==
  /\ p.from = s
  /\ s # Outgoing => p.to = Outgoing
  /\ p.syn => p.seqn = 0 /\ ~p.fin /\ (s = Outgoing => p.to = NoID)
  /\ p.seqn # 0 \/ p.syn =>
       p.seqn < n /\ p.data = SubSeq(w, pos[p.seqn] + 1, pos[p.seqn + 1])

PostedFin(st, p) == [task |-> "SendPacket", packet |-> p] \in Range(st.posted)

(* The packets a stream keeps, is sending or has posted.                    *)
Own(st) == {p \in PacketType : p \in st.sent \cup st.out \/ PostedFin(st, p)}

Has(st) == 0 .. st.last \cup {q.seqn : q \in st.saved}

(* What the packet acknowledges has been received.                          *)
AckTrue(st, p) == ~p.noAck /\ st.last >= 0 => (0 .. p.ack) \ p.nacks \subseteq Has(st)

Fresh(st, p) == (p.seqn # 0 => p.to = st.peer) /\ AckTrue(st, p)

Tracked(st, n) == \E p \in st.sent : p.seqn = n

(* The units before packet i are the first pos[i] of what was written; what *)
(* has no packet yet is in the buffer.                                      *)
Cut(n, w, pos) ==
  /\ pos \in [Nat -> Nat] /\ pos[0] = 0
  /\ \A i, j \in Nat : i <= j /\ j <= n => pos[i] <= pos[j]
  /\ pos[n] <= Len(w)

Bytes(st, pos) ==
  /\ Cut(st.seqn, st.written, pos)
  /\ st.buf = SubSeq(st.written, pos[st.seqn] + 1, Len(st.written))
  /\ st.eof => st.buf = <<>>

Owns(s, st, pos) == \A p \in Own(st) : OwnPacket(s, st.seqn, st.written, pos, p)

Window(st) ==
  /\ st.window >= 1 /\ st.window <= MAX_WINDOW_SIZE
  /\ IsFiniteSet(st.sent) /\ Cardinality(st.sent) <= MAX_WINDOW_SIZE
  /\ \A p \in st.sent : p.seqn # 0 \/ p.syn
  /\ IsFiniteSet(st.saved)

Stages(s, st) ==
  /\ st.status = "New" => /\ st.seqn = 0 /\ st.sent = {} /\ st.saved = {} /\ st.acks = 0
                          /\ ~st.resendSet
                          /\ s = Outgoing => st.peer = NoID
  /\ st.status # "New" => st.seqn >= 1
  /\ s # Outgoing => st.peer = Outgoing
  /\ (\E p \in PacketType : PostedFin(st, p)) => st.status \in {"Reset", "Closing", "Closed"}
  /\ st.status = "Closing" => st.closing
  /\ st.status = "Closed" => st.closing /\ st.eof /\ st.sent = {}

Sends(s, st, pos) ==
  /\ st \in StreamType
  /\ Bytes(st, pos)
  /\ Owns(s, st, pos)
  /\ Window(st)
  /\ Stages(s, st)

(* What an established stream waits for.                                    *)
Waits(st) ==
  st.status \in {"Open", "Closing"} =>
    /\ st.peer = NoID => st.sent # {}
    /\ ~st.eof => st.sent # {} \/ [task |-> "SendBuffer"] \in Range(st.posted)

(* r is a later record of the stream st, reached without receiving.         *)
Later(s, st, pos, r, pos2) ==
  /\ Sends(s, r, pos2)
  /\ \A i \in Nat : i <= st.seqn => pos2[i] = pos[i]
  /\ st.seqn <= r.seqn
  /\ r.written = st.written /\ r.peer = st.peer /\ r.closing = st.closing
  /\ r.last = st.last /\ r.delivered = st.delivered /\ r.saved = st.saved
  /\ r.inTable => st.inTable
  /\ st.sent \subseteq r.sent
  /\ \A p \in Own(r) : p \in Own(st) \/ Fresh(st, p)
  /\ \A n \in Nat : st.seqn <= n /\ n < r.seqn => pos2[n + 1] = pos2[n] \/ Tracked(r, n)

(* The numbers r has used since st are of packets it keeps, except that of  *)
(* the posted FIN.                                                          *)
Numbers(st, r) ==
  r.inTable =>
    /\ \A n \in Nat : st.seqn <= n /\ n < r.seqn =>
         Tracked(r, n) \/ (r.status = "Closing" /\ r.eof /\ n + 1 = r.seqn)
    /\ st.status = "Closing" /\ st.eof =>
         r.status = "Closing" /\ r.eof /\ r.seqn = st.seqn

(* The places of the pieces.                                                *)
LEMMA CutFacts ==
  ASSUME NEW n \in Nat, NEW w, NEW pos, Cut(n, w, pos)
  PROVE  /\ pos \in [Nat -> Nat] /\ pos[0] = 0
         /\ \A i \in Nat : pos[i] \in Nat
         /\ \A i, j \in Nat : i <= j /\ j <= n => pos[i] <= pos[j]
         /\ \A i \in Nat : i <= n => pos[i] <= pos[n]
         /\ pos[n] \in Nat /\ pos[n] <= Len(w)
<1>1. /\ pos \in [Nat -> Nat] /\ pos[0] = 0
      /\ \A i, j \in Nat : i <= j /\ j <= n => pos[i] <= pos[j]
      /\ pos[n] <= Len(w)
  BY DEF Cut
<1>2. \A i \in Nat : i <= n => pos[i] <= pos[n]
  BY <1>1
<1>3. \A i \in Nat : pos[i] \in Nat
  BY <1>1
<1> QED
  BY <1>1, <1>2, <1>3

(* What an appended task adds to those posted.                              *)
LEMMA AppendRange ==
  ASSUME NEW S, NEW q \in Seq(S), NEW t \in S
  PROVE  /\ Append(q, t) \in Seq(S)
         /\ \A x : x \in Range(Append(q, t)) <=> x \in Range(q) \/ x = t
<1>1. PICK v : v = Append(q, t)
  OBVIOUS
<1>2. v \in Seq(S) /\ Len(v) = Len(q) + 1 /\ v[Len(q) + 1] = t
      /\ \A i \in 1 .. Len(q) : v[i] = q[i]
  BY <1>1
<1>3. PICK l \in Nat : l = Len(q)
  OBVIOUS
<1>4. DOMAIN v = 1 .. (l + 1) /\ DOMAIN q = 1 .. l
  BY <1>2, <1>3
<1>5. Range(v) = {v[i] : i \in 1 .. (l + 1)} /\ Range(q) = {q[i] : i \in 1 .. l}
  BY <1>4 DEF Range
<1>6. ASSUME NEW x \in Range(q)
      PROVE  x \in Range(v)
  <2>1. PICK i \in 1 .. l : x = q[i]
    BY <1>5
  <2>2. i \in 1 .. (l + 1) /\ v[i] = q[i]
    BY <1>2, <1>3, <2>1
  <2> QED
    BY <1>5, <2>1, <2>2
<1>7. t \in Range(v)
  <2>1. l + 1 \in 1 .. (l + 1) /\ v[l + 1] = t
    BY <1>2, <1>3
  <2> QED
    BY <1>5, <2>1
<1>8. ASSUME NEW x \in Range(v)
      PROVE  x \in Range(q) \/ x = t
  <2>1. PICK i \in 1 .. (l + 1) : x = v[i]
    BY <1>5
  <2>2. CASE i = l + 1
    BY <1>2, <1>3, <2>1, <2>2
  <2>3. CASE i # l + 1
    <3>1. i \in 1 .. l
      BY <1>3, <2>1, <2>3
    <3>2. v[i] = q[i]
      BY <1>2, <1>3, <3>1
    <3> QED
      BY <1>5, <2>1, <3>1, <3>2
  <2> QED
    BY <2>2, <2>3
<1> QED
  BY <1>1, <1>2, <1>6, <1>7, <1>8

(* What the task that is run takes from those posted.                       *)
LEMMA TailRange ==
  ASSUME NEW S, NEW q \in Seq(S), q # <<>>
  PROVE  /\ Tail(q) \in Seq(S) /\ Head(q) \in S /\ Head(q) \in Range(q)
         /\ \A x : x \in Range(q) <=> x \in Range(Tail(q)) \/ x = Head(q)
<1>1. PICK v : v = Tail(q)
  OBVIOUS
<1>2. v \in Seq(S) /\ Len(v) + 1 = Len(q) /\ Len(v) \in Nat
      /\ \A i \in 1 .. Len(v) : v[i] = q[i + 1]
  BY <1>1, HeadTailProperties
<1>3. PICK l \in Nat : l = Len(v)
  BY <1>2
<1>4. DOMAIN v = 1 .. l /\ DOMAIN q = 1 .. (l + 1)
  BY <1>2, <1>3
<1>5. Range(v) = {v[i] : i \in 1 .. l} /\ Range(q) = {q[i] : i \in 1 .. (l + 1)}
  BY <1>4 DEF Range
<1>6. Head(q) \in S /\ Head(q) = q[1]
  BY HeadTailProperties
<1>7. ASSUME NEW x \in Range(v)
      PROVE  x \in Range(q)
  <2>1. PICK i \in 1 .. l : x = v[i]
    BY <1>5
  <2>2. PICK j \in Nat : j = i + 1
    BY <2>1
  <2>3. j \in 1 .. (l + 1) /\ v[i] = q[j]
    BY <1>2, <1>3, <2>1, <2>2
  <2> QED
    BY <1>5, <2>1, <2>3
<1>8. Head(q) \in Range(q)
  <2>1. 1 \in 1 .. (l + 1)
    BY <1>3
  <2> QED
    BY <1>5, <1>6, <2>1
<1>9. ASSUME NEW x \in Range(q)
      PROVE  x \in Range(v) \/ x = Head(q)
  <2>1. PICK i \in 1 .. (l + 1) : x = q[i]
    BY <1>5
  <2>2. CASE i = 1
    BY <1>6, <2>1, <2>2
  <2>3. CASE i # 1
    <3>1. PICK j \in Nat : i = j + 1
      BY <2>1, <2>3
    <3>2. j \in 1 .. l
      BY <1>3, <2>1, <2>3, <3>1
    <3>3. v[j] = q[i]
      BY <1>2, <1>3, <3>1, <3>2
    <3> QED
      BY <1>5, <2>1, <3>2, <3>3
  <2> QED
    BY <2>2, <2>3
<1> QED
  BY <1>1, <1>2, <1>6, <1>7, <1>8, <1>9

-----------------------------------------------------------------------------
(* The pieces a stream cuts what was written into.                          *)

(* A packet keeps its piece when later pieces are cut.                      *)
LEMMA OwnLater ==
  ASSUME NEW s, NEW n \in Nat, NEW n2 \in Nat, NEW w, NEW pos, NEW pos2, NEW p \in PacketType,
         OwnPacket(s, n, w, pos, p), n <= n2,
         \A i \in Nat : i <= n => pos2[i] = pos[i]
  PROVE  OwnPacket(s, n2, w, pos2, p)
<1>1. p.seqn \in Nat /\ p.seqn + 1 \in Nat
  BY DEF PacketType
<1>2. CASE p.seqn # 0 \/ p.syn
  <2>1. p.seqn < n
    BY <1>2 DEF OwnPacket
  <2>2. pos2[p.seqn] = pos[p.seqn] /\ pos2[p.seqn + 1] = pos[p.seqn + 1]
    BY <1>1, <2>1
  <2>3. p.seqn < n2
    BY <1>1, <2>1
  <2> QED
    BY <1>2, <2>2, <2>3 DEF OwnPacket
<1>3. CASE ~(p.seqn # 0 \/ p.syn)
  BY <1>3 DEF OwnPacket
<1> QED
  BY <1>2, <1>3

(* It keeps it when more is written.                                        *)
LEMMA OwnLonger ==
  ASSUME NEW s, NEW n \in Nat, NEW S, NEW w \in Seq(S), NEW u \in Seq(S), NEW pos,
         NEW p \in PacketType, OwnPacket(s, n, w, pos, p), Cut(n, w, pos)
  PROVE  OwnPacket(s, n, w \o u, pos, p)
<1>1. p.seqn \in Nat /\ p.seqn + 1 \in Nat
  BY DEF PacketType
<1>2. CASE p.seqn # 0 \/ p.syn
  <2>1. p.seqn < n
    BY <1>2 DEF OwnPacket
  <2>2. pos[p.seqn] \in Nat /\ pos[p.seqn + 1] \in Nat /\ pos[n] \in Nat
    BY <1>1, CutFacts
  <2>3. p.seqn + 1 <= n
    BY <1>1, <2>1
  <2>4. pos[p.seqn + 1] <= pos[n]
    BY <1>1, <2>3, CutFacts
  <2>5. pos[p.seqn + 1] <= Len(w)
    <3>1. pos[n] <= Len(w)
      BY CutFacts
    <3> QED
      BY <2>2, <2>4, <3>1
  <2>6. SubSeq(w \o u, pos[p.seqn] + 1, pos[p.seqn + 1]) = SubSeq(w, pos[p.seqn] + 1, pos[p.seqn + 1])
    BY <2>2, <2>5, PartKept
  <2> QED
    BY <1>2, <2>1, <2>6 DEF OwnPacket
<1>3. CASE ~(p.seqn # 0 \/ p.syn)
  BY <1>3 DEF OwnPacket
<1> QED
  BY <1>2, <1>3

(* One more packet, with the units up to k.                                 *)
LEMMA CutMore ==
  ASSUME NEW n \in Nat, NEW S, NEW w \in Seq(S), NEW pos, Cut(n, w, pos),
         NEW k \in Nat, pos[n] <= k, k <= Len(w)
  PROVE  \E pos2 : /\ Cut(n + 1, w, pos2) /\ pos2[n + 1] = k
                   /\ \A i \in Nat : i <= n => pos2[i] = pos[i]
<1>1. PICK pos2 : pos2 = [i \in Nat |-> IF i = n + 1 THEN k ELSE pos[i]]
  OBVIOUS
<1>2. pos \in [Nat -> Nat] /\ pos[0] = 0
  BY DEF Cut
<1>3. \A i \in Nat : pos2[i] = IF i = n + 1 THEN k ELSE pos[i]
  BY <1>1
<1>4. \A i \in Nat : i <= n => pos2[i] = pos[i]
  BY <1>3
<1>5. pos2[n + 1] = k
  BY <1>3
<1>6. pos2 \in [Nat -> Nat] /\ pos2[0] = 0
  BY <1>1, <1>2, <1>3
<1>7. ASSUME NEW j \in Nat, NEW i \in Nat, i <= j, j <= n + 1
      PROVE  pos2[i] <= pos2[j]
  <2>1. CASE j <= n
    <3>1. pos[i] <= pos[j]
      BY <1>7, <2>1, CutFacts
    <3>2. pos2[i] = pos[i] /\ pos2[j] = pos[j]
      BY <1>4, <1>7, <2>1
    <3> QED
      BY <3>1, <3>2
  <2>2. CASE j = n + 1 /\ i = j
    BY <1>5, <2>2
  <2>3. CASE j = n + 1 /\ i <= n
    <3>1. pos2[i] = pos[i] /\ pos[i] <= pos[n] /\ pos[i] \in Nat /\ pos[n] \in Nat
      BY <1>2, <1>4, <2>3, CutFacts
    <3> QED
      BY <1>5, <2>3, <3>1
  <2> QED
    BY <1>7, <2>1, <2>2, <2>3
<1>8. Cut(n + 1, w, pos2)
  BY <1>5, <1>6, <1>7 DEF Cut
<1> QED
  BY <1>4, <1>5, <1>8

(* A packet the stream makes has its type.                                  *)
LEMMA PacketOK ==
  ASSUME NEW s \in StreamIDs, NEW st, st.peer \in Nat, NEW n \in Nat, NEW ack \in Int
  PROVE  /\ Packet(s, st, n, ack) \in PacketType
         /\ \A b \in BOOLEAN : [Packet(s, st, n, ack) EXCEPT !.fin = b] \in PacketType
         /\ \A N \in SUBSET Int : [Packet(s, st, n, ack) EXCEPT !.nacks = N] \in PacketType
         /\ \A d \in Seq(Units) : [Packet(s, st, n, ack) EXCEPT !.data = d] \in PacketType
         /\ \A d \in Seq(Units), b \in BOOLEAN :
              [Packet(s, st, n, ack) EXCEPT !.syn = TRUE, !.noAck = b, !.data = d] \in PacketType
<1>1. <<>> \in Seq(Units)
  OBVIOUS
<1> QED
  BY <1>1 DEF Packet, PacketType

(* SendClose.                                                               *)
LEMMA SendCloseLater ==
  ASSUME NEW s \in StreamIDs, NEW st, NEW pos, Sends(s, st, pos), st.status # "New",
         st.status # "Open"
  PROVE  LET r == SendClose(s, st) IN
         /\ \E pos2 : Later(s, st, pos, r, pos2)
         /\ \A t \in Range(st.posted) : t \in Range(r.posted)
         /\ r.status = st.status /\ r.sent = st.sent /\ r.eof = st.eof /\ r.inTable = st.inTable
         /\ r.seqn = st.seqn + 1
<1> DEFINE fin == [Packet(s, st, st.seqn, AckField(st.last)) EXCEPT !.fin = TRUE]
           task == [task |-> "SendPacket", packet |-> fin]
<1>1. PICK r : r = SendClose(s, st)
  OBVIOUS
<1>2. st \in StreamType
  BY DEF Sends
<1>3. st.seqn \in Nat /\ st.last \in Int /\ st.peer \in Nat /\ st.posted \in Seq(TaskType)
      /\ st.written \in Seq(Units) /\ st.buf \in Seq(Units)
  BY <1>2 DEF StreamType
<1>4. AckField(st.last) \in Int
  BY <1>3 DEF AckField, AllOnes
<1>5. fin \in PacketType
  BY <1>3, <1>4, PacketOK
<1>6. fin.from = s /\ fin.to = st.peer /\ fin.seqn = st.seqn /\ ~fin.syn /\ fin.data = <<>>
  BY DEF Packet
<1>7. PICK t : t = task
  OBVIOUS
<1>8. t \in TaskType
  BY <1>5, <1>7 DEF TaskType
<1>9. r = [st EXCEPT !.seqn = st.seqn + 1, !.posted = Append(st.posted, t)]
  BY <1>1, <1>7 DEF SendClose
<1> HIDE DEF task
<1>10. /\ Append(st.posted, t) \in Seq(TaskType)
       /\ \A x : x \in Range(Append(st.posted, t)) <=> x \in Range(st.posted) \/ x = t
  BY <1>3, <1>8, AppendRange
<1>11. /\ r \in StreamType /\ r.seqn = st.seqn + 1 /\ r.posted = Append(st.posted, t)
       /\ r.status = st.status /\ r.sent = st.sent /\ r.eof = st.eof /\ r.inTable = st.inTable
       /\ r.written = st.written /\ r.peer = st.peer /\ r.closing = st.closing /\ r.buf = st.buf
       /\ r.last = st.last /\ r.delivered = st.delivered /\ r.saved = st.saved /\ r.out = st.out
       /\ r.window = st.window /\ r.acks = st.acks
  <2>1. PICK m \in Nat : m = st.seqn + 1
    BY <1>3
  <2>2. PICK q \in Seq(TaskType) : q = Append(st.posted, t)
    BY <1>10
  <2>3. r = [st EXCEPT !.seqn = m, !.posted = q]
    BY <1>9, <2>1, <2>2
  <2>4. /\ r \in StreamType /\ r.seqn = m /\ r.posted = q
       /\ r.status = st.status /\ r.sent = st.sent /\ r.eof = st.eof /\ r.inTable = st.inTable
       /\ r.written = st.written /\ r.peer = st.peer /\ r.closing = st.closing /\ r.buf = st.buf
       /\ r.last = st.last /\ r.delivered = st.delivered /\ r.saved = st.saved /\ r.out = st.out
       /\ r.window = st.window /\ r.acks = st.acks
    BY <1>2, <2>1, <2>2, <2>3 DEF StreamType
  <2> QED
    BY <2>1, <2>2, <2>4
<1>12. Cut(st.seqn, st.written, pos)
  BY DEF Sends, Bytes
<1>13. PICK pos2 : /\ Cut(st.seqn + 1, st.written, pos2) /\ pos2[st.seqn + 1] = pos[st.seqn]
                   /\ \A i \in Nat : i <= st.seqn => pos2[i] = pos[i]
  <2>1. pos[st.seqn] \in Nat /\ pos[st.seqn] <= Len(st.written)
    <3>1. st.seqn \in Nat
      BY <1>3
    <3> QED
      BY <3>1, <1>12, CutFacts
  <2>2. PICK n \in Nat, k \in Nat : n = st.seqn /\ k = pos[st.seqn]
    BY <1>3, <2>1
  <2>3. PICK w \in Seq(Units) : w = st.written
    BY <1>3
  <2>4. Cut(n, w, pos) /\ pos[n] <= k /\ k <= Len(w)
    BY <1>12, <2>1, <2>2, <2>3
  <2>5. \E pos2 : /\ Cut(n + 1, w, pos2) /\ pos2[n + 1] = k
                  /\ \A i \in Nat : i <= n => pos2[i] = pos[i]
    BY <2>4, CutMore
  <2> QED
    BY <2>2, <2>3, <2>5
<1>14. Bytes(r, pos2)
  BY <1>11, <1>13 DEF Sends, Bytes
<1>15. OwnPacket(s, r.seqn, r.written, pos2, fin)
  <2>1. pos2[st.seqn] = pos[st.seqn] /\ pos[st.seqn] \in Nat
    <3>1. st.seqn \in Nat /\ st.seqn <= st.seqn
      BY <1>3
    <3> QED
      BY <3>1, <1>12, <1>13, CutFacts
  <2>2. SubSeq(r.written, pos2[fin.seqn] + 1, pos2[fin.seqn + 1]) = <<>>
    BY <1>6, <1>13, <2>1, SubSeqEmpty
  <2>3. s # Outgoing => fin.to = Outgoing
    BY <1>6 DEF Sends, Stages
  <2>4. fin.seqn < r.seqn
    BY <1>3, <1>6, <1>11
  <2> QED
    BY <1>6, <2>2, <2>3, <2>4 DEF OwnPacket
<1>16. \A p \in PacketType : OwnPacket(s, st.seqn, st.written, pos, p) => OwnPacket(s, r.seqn, r.written, pos2, p)
  BY <1>3, <1>11, <1>13, OwnLater
<1>22. \A p \in Own(r) : p \in PacketType /\ (p \in Own(st) \/ p = fin)
  <2>1. ASSUME NEW p \in PacketType, PostedFin(r, p)
        PROVE  PostedFin(st, p) \/ p = fin
    <3>1. PostedFin(st, p) \/ [task |-> "SendPacket", packet |-> p] = t
      BY <1>10, <1>11, <2>1 DEF PostedFin
    <3>2. CASE [task |-> "SendPacket", packet |-> p] = t
      BY <1>7, <3>2 DEF task
    <3> QED
      BY <3>1, <3>2
  <2> HIDE DEF fin
  <2> QED
    BY <1>11, <2>1 DEF Own
<1>17. Owns(s, r, pos2)
  <2> HIDE DEF fin
  <2> QED
    BY <1>15, <1>16, <1>22 DEF Sends, Owns
<1>23. Fresh(st, fin)
  <2>1. fin.nacks = {} /\ fin.ack = AckField(st.last)
    BY DEF Packet
  <2>2. PICK l \in Int : l = st.last
    BY <1>3
  <2>3. l >= 0 => AckField(st.last) = l
    BY <2>2 DEF AckField
  <2>4. AckTrue(st, fin)
    BY <2>1, <2>2, <2>3 DEF AckTrue, Has
  <2> QED
    BY <1>6, <2>4 DEF Fresh
<1>24. \A p \in Own(r) : p \in Own(st) \/ Fresh(st, p)
  <2> HIDE DEF fin
  <2> QED
    BY <1>22, <1>23
<1>25. \A n \in Nat : st.seqn <= n /\ n < r.seqn => pos2[n + 1] = pos2[n] \/ Tracked(r, n)
  <2>1. PICK k \in Nat : k = st.seqn
    BY <1>3
  <2>2. pos2[k + 1] = pos2[k]
    BY <1>13, <2>1
  <2>3. \A n \in Nat : k <= n /\ n < k + 1 => n = k
    OBVIOUS
  <2> QED
    BY <1>11, <2>1, <2>2, <2>3
<1>18. Window(r)
  BY <1>11 DEF Sends, Window
<1>19. Stages(s, r)
  <2>1. st.status \in {"Reset", "Closing", "Closed"}
    BY <1>2 DEF StreamType
  <2>2. r.seqn >= 1
    BY <1>3, <1>11
  <2> QED
    BY <1>11, <2>1, <2>2 DEF Sends, Stages
<1>20. Later(s, st, pos, r, pos2)
  <2>1. st.seqn <= r.seqn
    BY <1>3, <1>11
  <2> QED
    BY <1>11, <1>13, <1>14, <1>17, <1>18, <1>19, <1>24, <1>25, <2>1 DEF Later, Sends
<1>21. \A x \in Range(st.posted) : x \in Range(r.posted)
  BY <1>10, <1>11
<1> QED
  BY <1>1, <1>11, <1>20, <1>21

-----------------------------------------------------------------------------
(* Records that follow each other, and closing a stream.                    *)

(* A record that changes nothing but what it keeps and sends.               *)
LEMMA SendsKept ==
  ASSUME NEW s \in StreamIDs, NEW st, NEW pos, Sends(s, st, pos), NEW r \in StreamType,
         r.seqn = st.seqn, r.written = st.written, r.buf = st.buf, r.eof = st.eof,
         \A p \in Own(r) : p \in Own(st) \/ OwnPacket(s, st.seqn, st.written, pos, p),
         \A p \in r.sent : p.seqn # 0 \/ p.syn,
         IsFiniteSet(r.sent), Cardinality(r.sent) <= MAX_WINDOW_SIZE, IsFiniteSet(r.saved),
         r.window >= 1, r.window <= MAX_WINDOW_SIZE, Stages(s, r)
  PROVE  Sends(s, r, pos)
<1>1. Bytes(r, pos)
  BY DEF Sends, Bytes
<1>2. Owns(s, r, pos)
  BY DEF Sends, Owns
<1>3. Window(r)
  BY DEF Window
<1> QED
  BY <1>1, <1>2, <1>3 DEF Sends

(* Facts every sender's record has.                                         *)
LEMMA SendsFacts ==
  ASSUME NEW s, NEW st, NEW pos, Sends(s, st, pos)
  PROVE  /\ st \in StreamType
         /\ st.status \in {"New", "Open", "Reset", "Closing", "Closed"}
         /\ st.seqn \in Nat /\ st.last \in Int /\ st.peer \in Nat /\ st.window \in Nat
         /\ st.acks \in Int /\ st.attempts \in Int
         /\ st.eof \in BOOLEAN /\ st.closing \in BOOLEAN /\ st.inTable \in BOOLEAN
         /\ st.handler \in BOOLEAN /\ st.resendSet \in BOOLEAN
         /\ st.posted \in Seq(TaskType) /\ st.written \in Seq(Units) /\ st.buf \in Seq(Units)
         /\ st.delivered \in Seq(Units)
         /\ st.sent \subseteq PacketType /\ st.out \subseteq PacketType
         /\ st.saved \subseteq PacketType
         /\ \A p \in Own(st) : p \in PacketType /\ OwnPacket(s, st.seqn, st.written, pos, p)
         /\ \A p \in st.sent : p \in Own(st) /\ (p.seqn # 0 \/ p.syn)
         /\ IsFiniteSet(st.sent) /\ Cardinality(st.sent) <= MAX_WINDOW_SIZE
         /\ IsFiniteSet(st.saved) /\ st.window >= 1 /\ st.window <= MAX_WINDOW_SIZE
         /\ Cut(st.seqn, st.written, pos)
<1>1. st \in StreamType
  BY DEF Sends
<1>2. /\ st.status \in {"New", "Open", "Reset", "Closing", "Closed"}
         /\ st.seqn \in Nat /\ st.last \in Int /\ st.peer \in Nat /\ st.window \in Nat
         /\ st.acks \in Int /\ st.attempts \in Int
         /\ st.eof \in BOOLEAN /\ st.closing \in BOOLEAN /\ st.inTable \in BOOLEAN
         /\ st.handler \in BOOLEAN /\ st.resendSet \in BOOLEAN
         /\ st.posted \in Seq(TaskType) /\ st.written \in Seq(Units) /\ st.buf \in Seq(Units)
         /\ st.delivered \in Seq(Units)
         /\ st.sent \subseteq PacketType /\ st.out \subseteq PacketType
         /\ st.saved \subseteq PacketType
  BY <1>1 DEF StreamType
<1>3. /\ \A p \in Own(st) : p \in PacketType /\ OwnPacket(s, st.seqn, st.written, pos, p)
      /\ \A p \in st.sent : p.seqn # 0 \/ p.syn
      /\ IsFiniteSet(st.sent) /\ Cardinality(st.sent) <= MAX_WINDOW_SIZE
      /\ IsFiniteSet(st.saved) /\ st.window >= 1 /\ st.window <= MAX_WINDOW_SIZE
      /\ Cut(st.seqn, st.written, pos)
  BY DEF Sends, Owns, Window, Bytes, Own
<1>4. \A p \in st.sent : p \in Own(st)
  BY <1>2 DEF Own
<1> QED
  BY <1>1, <1>2, <1>3, <1>4

(* Later is a preorder.                                                     *)
LEMMA LaterRefl ==
  ASSUME NEW s, NEW st, NEW pos, Sends(s, st, pos)
  PROVE  Later(s, st, pos, st, pos)
<1>1. st.seqn <= st.seqn /\ \A n \in Nat : ~(st.seqn <= n /\ n < st.seqn)
  BY SendsFacts
<1> QED
  BY <1>1 DEF Later

(* Later is transitive.                                                     *)
LEMMA LaterTrans ==
  ASSUME NEW s, NEW st, NEW pos, NEW r, NEW pos2, NEW q, NEW pos3, Sends(s, st, pos),
         Later(s, st, pos, r, pos2), Later(s, r, pos2, q, pos3)
  PROVE  Later(s, st, pos, q, pos3)
<1>1. PICK a \in Nat, b \in Nat, c \in Nat : a = st.seqn /\ b = r.seqn /\ c = q.seqn
  BY SendsFacts DEF Later
<1>2. a <= b /\ b <= c /\ (\A i \in Nat : i <= a => pos2[i] = pos[i])
      /\ \A i \in Nat : i <= b => pos3[i] = pos2[i]
  BY <1>1 DEF Later
<1>3. a <= c /\ \A i \in Nat : i <= a => pos3[i] = pos[i]
  BY <1>1, <1>2
<1>4. \A p \in Own(q) : p \in Own(st) \/ Fresh(st, p)
  BY DEF Later, Fresh, AckTrue, Has
<1>5. ASSUME NEW n \in Nat, a <= n, n < c
      PROVE  pos3[n + 1] = pos3[n] \/ Tracked(q, n)
  <2>1. CASE b <= n
    BY <1>1, <1>5, <2>1 DEF Later
  <2>2. CASE ~(b <= n)
    <3>1. PICK m \in Nat : m = n + 1
      OBVIOUS
    <3>2. n < b /\ m <= b /\ n <= b
      BY <2>2, <3>1, <1>1
    <3>3. pos3[m] = pos2[m] /\ pos3[n] = pos2[n]
      BY <1>2, <3>2
    <3>4. pos2[m] = pos2[n] \/ Tracked(r, n)
      BY <1>1, <1>5, <3>1, <3>2 DEF Later
    <3>5. Tracked(r, n) => Tracked(q, n)
      BY DEF Later, Tracked
    <3> QED
      BY <3>1, <3>3, <3>4, <3>5
  <2> QED
    BY <2>1, <2>2
<1> QED
  BY <1>1, <1>3, <1>4, <1>5 DEF Later

(* TerminateAndDelete stops the timers and the handler.                     *)
LEMMA TerminateLater ==
  ASSUME NEW s \in StreamIDs, NEW st, NEW pos, Sends(s, st, pos)
  PROVE  LET r == TerminateAndDelete(st) IN
         /\ Later(s, st, pos, r, pos)
         /\ r.status = st.status /\ r.sent = st.sent /\ r.eof = st.eof /\ r.posted = st.posted
         /\ r.inTable = FALSE
<1>1. PICK r : r = TerminateAndDelete(st)
  OBVIOUS
<1>2. st \in StreamType
  BY SendsFacts
<1>3. /\ r \in StreamType /\ r.seqn = st.seqn /\ r.posted = st.posted
       /\ r.status = st.status /\ r.sent = st.sent /\ r.eof = st.eof /\ r.inTable = FALSE
       /\ r.written = st.written /\ r.peer = st.peer /\ r.closing = st.closing /\ r.buf = st.buf
       /\ r.last = st.last /\ r.delivered = st.delivered /\ r.saved = st.saved /\ r.out = st.out
       /\ r.window = st.window /\ r.acks = st.acks /\ ~r.resendSet
  BY <1>1, <1>2 DEF TerminateAndDelete, StreamType
<1>4. Stages(s, r)
  BY <1>3 DEF Sends, Stages, PostedFin
<1>5. Own(r) = Own(st)
  BY <1>3 DEF PostedFin, Own
<1>6. Sends(s, r, pos)
  <2>1. /\ \A p \in Own(st) : OwnPacket(s, st.seqn, st.written, pos, p)
        /\ \A p \in r.sent : p.seqn # 0 \/ p.syn
        /\ IsFiniteSet(r.sent) /\ Cardinality(r.sent) <= MAX_WINDOW_SIZE
        /\ IsFiniteSet(r.saved) /\ r.window >= 1 /\ r.window <= MAX_WINDOW_SIZE
    BY <1>3, SendsFacts
  <2> QED
    BY <1>3, <1>4, <1>5, <2>1, SendsKept
<1>7. st.seqn <= r.seqn /\ \A n \in Nat : ~(st.seqn <= n /\ n < r.seqn)
  BY <1>3, SendsFacts
<1>8. Later(s, st, pos, r, pos)
  BY <1>3, <1>5, <1>6, <1>7 DEF Later
<1> QED
  BY <1>1, <1>3, <1>8

(* Close, by the status it finds.                                           *)
LEMMA CloseCases ==
  ASSUME NEW s, NEW st \in StreamType
  PROVE  /\ st.status = "Reset" => Close(s, st) = TerminateAndDelete(SendClose(s, st))
         /\ st.status \in {"Open", "Closing"} /\ NothingToSend(st) =>
              Close(s, st) = TerminateAndDelete(SendClose(s, [st EXCEPT !.status = "Closed"]))
         /\ st.status \in {"Open", "Closing"} /\ ~NothingToSend(st) =>
              Close(s, st) = [st EXCEPT !.status = "Closing"]
         /\ st.status = "Closed" => Close(s, st) = TerminateAndDelete(st)
         /\ st.status = "New" => Close(s, st) = st
<1> DEFINE closing == IF st.status = "Open" THEN [st EXCEPT !.status = "Closing"] ELSE st
<1>1. Close(s, st) =
        CASE st.status = "Reset" -> TerminateAndDelete(SendClose(s, st))
          [] closing.status = "Closing" /\ NothingToSend(st) ->
               TerminateAndDelete(SendClose(s, [closing EXCEPT !.status = "Closed"]))
          [] st.status = "Closed" -> TerminateAndDelete(st)
          [] OTHER -> closing
  BY DEF Close
<1>2. /\ st.status \in {"Open", "Closing"} => closing.status = "Closing"
      /\ st.status \in {"Open", "Closing"} => closing = [st EXCEPT !.status = "Closing"]
      /\ st.status \in {"Open", "Closing"} =>
           [closing EXCEPT !.status = "Closed"] = [st EXCEPT !.status = "Closed"]
      /\ st.status \notin {"Open", "Closing"} => closing = st
  BY DEF StreamType
<1> HIDE DEF closing
<1>3. CASE st.status = "Reset"
  <2>1. closing.status # "Closing" /\ st.status # "Closed" /\ st.status # "New" /\ st.status \notin {"Open", "Closing"}
    BY <1>2, <1>3
  <2> QED
    BY <1>1, <1>3, <2>1, Zenon
<1>4. CASE st.status \in {"Open", "Closing"}
  <2>1. closing.status = "Closing" /\ st.status # "Closed" /\ st.status # "New" /\ st.status # "Reset"
    BY <1>2, <1>4
  <2>2. [closing EXCEPT !.status = "Closed"] = [st EXCEPT !.status = "Closed"] /\ closing = [st EXCEPT !.status = "Closing"]
    BY <1>2, <1>4
  <2>3. CASE NothingToSend(st)
    BY <1>1, <1>4, <2>1, <2>2, <2>3, Zenon
  <2>4. CASE ~NothingToSend(st)
    BY <1>1, <1>4, <2>1, <2>2, <2>4, Zenon
  <2> QED
    BY <2>3, <2>4
<1>5. CASE st.status = "Closed"
  <2>1. closing.status # "Closing" /\ st.status # "Reset" /\ st.status # "New" /\ st.status \notin {"Open", "Closing"}
    BY <1>2, <1>5
  <2> QED
    BY <1>1, <1>5, <2>1, Zenon
<1>6. CASE st.status = "New"
  <2>1. closing.status # "Closing" /\ st.status # "Reset" /\ st.status # "Closed" /\ st.status \notin {"Open", "Closing"}
        /\ closing = st
    BY <1>2, <1>6
  <2> QED
    BY <1>1, <1>6, <2>1, Zenon
<1> QED
  BY <1>3, <1>4, <1>5, <1>6 DEF StreamType

(* The record with another status, which has sent nothing more.             *)
LEMMA StatusLater ==
  ASSUME NEW s \in StreamIDs, NEW st, NEW pos, Sends(s, st, pos), st.status # "New",
         NEW x \in {"Closing", "Closed", "Reset"},
         x # "Reset" => st.closing, x = "Closed" => st.sent = {} /\ st.eof,
         NEW r, r = [st EXCEPT !.status = x]
  PROVE
         /\ Later(s, st, pos, r, pos)
         /\ r.status = x /\ r.sent = st.sent /\ r.eof = st.eof /\ r.posted = st.posted
         /\ r.inTable = st.inTable
<1>2. st \in StreamType
  BY SendsFacts
<1>3. /\ r \in StreamType /\ r.seqn = st.seqn /\ r.posted = st.posted
       /\ r.status = x /\ r.sent = st.sent /\ r.eof = st.eof /\ r.inTable = st.inTable
       /\ r.written = st.written /\ r.peer = st.peer /\ r.closing = st.closing /\ r.buf = st.buf
       /\ r.last = st.last /\ r.delivered = st.delivered /\ r.saved = st.saved /\ r.out = st.out
       /\ r.window = st.window /\ r.acks = st.acks
  BY <1>2 DEF StreamType
<1>4. Stages(s, r)
  BY <1>3 DEF Sends, Stages, PostedFin
<1>5. Own(r) = Own(st)
  BY <1>3 DEF PostedFin, Own
<1>6. Sends(s, r, pos)
  <2>1. /\ \A p \in Own(st) : OwnPacket(s, st.seqn, st.written, pos, p)
        /\ \A p \in r.sent : p.seqn # 0 \/ p.syn
        /\ IsFiniteSet(r.sent) /\ Cardinality(r.sent) <= MAX_WINDOW_SIZE
        /\ IsFiniteSet(r.saved) /\ r.window >= 1 /\ r.window <= MAX_WINDOW_SIZE
    BY <1>3, SendsFacts
  <2> QED
    BY <1>3, <1>4, <1>5, <2>1, SendsKept
<1>7. st.seqn <= r.seqn /\ \A n \in Nat : ~(st.seqn <= n /\ n < r.seqn)
  BY <1>3, SendsFacts
<1>8. Later(s, st, pos, r, pos)
  BY <1>3, <1>5, <1>6, <1>7 DEF Later
<1> QED
  BY <1>3, <1>8

(* SendClose and then TerminateAndDelete.                                   *)
LEMMA DeleteLater ==
  ASSUME NEW s \in StreamIDs, NEW st, NEW pos, Sends(s, st, pos),
         st.status \in {"Reset", "Closed"}
  PROVE  LET r == TerminateAndDelete(SendClose(s, st)) IN
         /\ \E pos2 : Later(s, st, pos, r, pos2)
         /\ r.status = st.status /\ ~r.inTable
<1>1. PICK q : q = SendClose(s, st)
  OBVIOUS
<1>2. PICK pos2 : Later(s, st, pos, q, pos2)
  BY <1>1, SendCloseLater
<1>3. q.status = st.status
  BY <1>1, SendCloseLater
<1>4. Sends(s, q, pos2)
  BY <1>2 DEF Later
<1>5. PICK r : r = TerminateAndDelete(q)
  OBVIOUS
<1>6. Later(s, q, pos2, r, pos2) /\ r.status = q.status /\ ~r.inTable
  BY <1>4, <1>5, TerminateLater
<1>7. Later(s, st, pos, r, pos2)
  BY <1>2, <1>6, LaterTrans
<1> QED
  BY <1>1, <1>3, <1>5, <1>6, <1>7

(* No number was used.                                                      *)
LEMMA NoNumbers ==
  ASSUME NEW s, NEW st, NEW pos, Sends(s, st, pos), NEW r, r.seqn = st.seqn,
         st.status = "Closing" /\ st.eof => r.status = "Closing" /\ r.eof
  PROVE  Numbers(st, r) /\ st.seqn <= r.seqn
<1>1. st.seqn <= r.seqn /\ \A n \in Nat : ~(st.seqn <= n /\ n < r.seqn)
  BY SendsFacts
<1> QED
  BY <1>1 DEF Numbers

(* Close, whatever the status.                                              *)
LEMMA CloseLater ==
  ASSUME NEW s \in StreamIDs, NEW st, NEW pos, Sends(s, st, pos),
         st.status = "Open" => st.closing
  PROVE  LET r == Close(s, st) IN
         /\ \E pos2 : Later(s, st, pos, r, pos2)
         /\ Waits(st) => Waits(r)
         /\ r.status = "New" <=> st.status = "New"
         /\ r.status # "Open"
         /\ st.seqn <= r.seqn /\ Numbers(st, r)
<1>1. PICK r : r = Close(s, st)
  OBVIOUS
<1>2. st \in StreamType /\ st.status \in {"New", "Open", "Reset", "Closing", "Closed"}
  BY SendsFacts
<1> HIDE DEF Waits, Later
<1>3. CASE st.status = "Reset"
  <2>1. r = TerminateAndDelete(SendClose(s, st))
    BY <1>1, <1>2, <1>3, CloseCases
  <2>2. (\E pos2 : Later(s, st, pos, r, pos2)) /\ r.status = "Reset"
    BY <1>3, <2>1, DeleteLater
  <2>3. Waits(r)
    BY <2>2 DEF Waits
  <2>4. Numbers(st, r) /\ st.seqn <= r.seqn
    BY <1>3, <2>1, <2>2, DeleteLater DEF Numbers, Later
  <2> QED
    BY <1>1, <1>3, <2>2, <2>3, <2>4
<1>4. CASE st.status \in {"Open", "Closing"} /\ NothingToSend(st)
  <2>1. PICK q : q = [st EXCEPT !.status = "Closed"]
    OBVIOUS
  <2>2. st.closing /\ st.status # "New"
    BY <1>4 DEF Sends, Stages
  <2>3. Later(s, st, pos, q, pos) /\ q.status = "Closed"
    <3>1. st.sent = {} /\ st.eof
      BY <1>4 DEF NothingToSend
    <3> QED
      BY <3>1, <2>1, <2>2, StatusLater
  <2>4. Sends(s, q, pos)
    BY <2>3 DEF Later
  <2>5. r = TerminateAndDelete(SendClose(s, q))
    BY <1>1, <1>2, <1>4, <2>1, CloseCases
  <2>6. r.status = "Closed" /\ \E pos2 : Later(s, q, pos, r, pos2)
    BY <2>3, <2>4, <2>5, DeleteLater
  <2>7. \E pos2 : Later(s, st, pos, r, pos2)
    BY <2>3, <2>6, LaterTrans
  <2>8. Waits(r)
    BY <2>6 DEF Waits
  <2>9. ~r.inTable
    BY <2>3, <2>4, <2>5, DeleteLater
  <2>10. Numbers(st, r) /\ st.seqn <= r.seqn
    BY <2>7, <2>9 DEF Numbers, Later
  <2> QED
    BY <1>1, <2>2, <2>6, <2>7, <2>8, <2>10
<1>5. CASE st.status \in {"Open", "Closing"} /\ ~NothingToSend(st)
  <2>1. r = [st EXCEPT !.status = "Closing"]
    BY <1>1, <1>2, <1>5, CloseCases
  <2>2. st.closing /\ st.status # "New"
    BY <1>5 DEF Sends, Stages
  <2>3. /\ Later(s, st, pos, r, pos) /\ r.status = "Closing"
        /\ r.sent = st.sent /\ r.eof = st.eof /\ r.posted = st.posted
    <3>1. PICK x \in {"Closing", "Closed", "Reset"} : x = "Closing" /\ x # "Closed"
      OBVIOUS
    <3>2. r = [st EXCEPT !.status = x]
      BY <2>1, <3>1
    <3>3. /\ Later(s, st, pos, r, pos) /\ r.status = x
          /\ r.sent = st.sent /\ r.eof = st.eof /\ r.posted = st.posted
      BY <2>2, <3>1, <3>2, StatusLater
    <3> QED
      BY <3>1, <3>3
  <2>4. r.peer = st.peer
    BY <2>3 DEF Later
  <2>5. Waits(st) => Waits(r)
    BY <1>5, <2>3, <2>4 DEF Waits
  <2>6. r.seqn = st.seqn
    BY <1>2, <2>1 DEF StreamType
  <2>7. Numbers(st, r) /\ st.seqn <= r.seqn
    BY <2>3, <2>6, NoNumbers
  <2> QED
    BY <1>1, <2>2, <2>3, <2>5, <2>7
<1>6. CASE st.status = "Closed"
  <2>1. r = TerminateAndDelete(st)
    BY <1>1, <1>2, <1>6, CloseCases
  <2>2. Later(s, st, pos, r, pos) /\ r.status = "Closed"
    BY <1>6, <2>1, TerminateLater
  <2>3. Waits(r)
    BY <2>2 DEF Waits
  <2>4. ~r.inTable
    BY <1>6, <2>1, TerminateLater
  <2>5. Numbers(st, r) /\ st.seqn <= r.seqn
    BY <2>2, <2>4 DEF Numbers, Later
  <2> QED
    BY <1>1, <1>6, <2>2, <2>3, <2>5
<1>7. CASE st.status = "New"
  <2>1. r = st
    BY <1>1, <1>2, <1>7, CloseCases
  <2>2. Later(s, st, pos, r, pos)
    BY <2>1, LaterRefl
  <2>3. Numbers(st, r) /\ st.seqn <= r.seqn
    BY <1>7, <2>1, SendsFacts, NoNumbers
  <2> QED
    BY <1>1, <1>7, <2>1, <2>2, <2>3
<1> QED
  BY <1>2, <1>3, <1>4, <1>5, <1>6, <1>7

-----------------------------------------------------------------------------
(* What is read off the send buffer: the SYN, and the packets after it.     *)

(* What is assumed of the constants.                                        *)
LEMMA StreamConsts ==
  /\ MTU \in Nat /\ MTU >= 1 /\ SynMTU \in Nat /\ SynMTU >= 1
  /\ WINDOW_SIZE \in Nat /\ WINDOW_SIZE >= 1 /\ MAX_WINDOW_SIZE \in Nat
  /\ MAX_WINDOW_SIZE >= WINDOW_SIZE /\ MaxNacks \in Nat /\ MaxNacks >= 1
  /\ MAX_NUM_RESEND_ATTEMPTS \in Nat /\ MAX_NUM_RESEND_ATTEMPTS >= 1
  /\ Outgoing \in StreamIDs /\ StreamIDs \subseteq Nat /\ Incoming \subseteq StreamIDs
  /\ \A t \in Incoming : t # Outgoing /\ t # NoID
  /\ NoID = 0 /\ Outgoing = 1
BY ConstantsAssumption DEF StreamIDs, Outgoing, NoID

(* Whole packets in the buffer.                                             *)
LEMMA DivFacts ==
  ASSUME NEW a \in Nat, NEW b \in Nat, b >= 1
  PROVE  a \div b \in Nat /\ (a \div b) * b <= a /\ a < (a \div b + 1) * b
<1>1. a \div b \in Nat /\ (a \div b) * b <= a
  OBVIOUS
<1>2. a < (a \div b) * b + b
  OBVIOUS
<1>3. \A q \in Nat : (q + 1) * b = q * b + b
  OBVIOUS
<1> QED
  BY <1>1, <1>2, <1>3

(* How far i full packets reach into l units.                               *)
LEMMA Reach ==
  ASSUME NEW l \in Nat, NEW b \in Nat, b >= 1
  PROVE  \E off \in [Nat -> Nat] :
           /\ \A i \in Nat : i * b \in Nat /\ off[i] = Min({i * b, l}) /\ off[i] <= l
           /\ off[0] = 0
           /\ \A i, j \in Nat : i <= j => off[i] <= off[j]
           /\ \A i \in Nat : i <= l \div b => off[i] = i * b
           /\ off[l \div b + 1] = l /\ l < (l \div b + 1) * b
<1>1. \A i \in Nat : i * b \in Nat
  OBVIOUS
<1>2. \A i \in Nat : Min({i * b, l}) \in {i * b, l} /\ Min({i * b, l}) <= i * b /\ Min({i * b, l}) <= l
  <2> TAKE i \in Nat
  <2>1. PICK x \in Nat : x = i * b
    BY <1>1
  <2>2. Min({x, l}) \in {x, l} /\ Min({x, l}) <= x /\ Min({x, l}) <= l
    BY <2>1, MinOf
  <2> QED
    BY <2>1, <2>2
<1>3. PICK off : off = [i \in Nat |-> Min({i * b, l})]
  OBVIOUS
<1>4. off \in [Nat -> Nat]
  BY <1>1, <1>2, <1>3
<1>5. \A i \in Nat : off[i] \in Nat /\ off[i] \in {i * b, l} /\ off[i] <= i * b /\ off[i] <= l
  BY <1>2, <1>3, <1>4
<1>6. \A i, j \in Nat : i <= j => i * b <= j * b
  <2> TAKE i, j \in Nat
  <2> HAVE i <= j
  <2>1. PICK d \in Nat : j = i + d
    <3>1. j - i \in Nat /\ j = i + (j - i)
      OBVIOUS
    <3> QED
      BY <3>1
  <2>2. j * b = i * b + d * b /\ d * b \in Nat /\ i * b \in Nat
    BY <2>1
  <2> QED
    BY <2>2
<1>7. \A i, j \in Nat : i <= j => off[i] <= off[j]
  <2> TAKE i, j \in Nat
  <2> HAVE i <= j
  <2>1. PICK x \in Nat, y \in Nat : x = i * b /\ y = j * b
    BY <1>1
  <2>2. x <= y
    BY <1>6, <2>1
  <2>3. off[i] \in {x, l} /\ off[i] <= x /\ off[i] <= l /\ off[j] \in {y, l}
    BY <1>5, <2>1
  <2> QED
    BY <2>2, <2>3
<1>8. PICK q \in Nat : q = l \div b
  BY DivFacts
<1>9. q * b <= l /\ l < (q + 1) * b
  BY <1>8, DivFacts
<1>10. \A i \in Nat : i <= q => off[i] = i * b
  <2> TAKE i \in Nat
  <2> HAVE i <= q
  <2>1. PICK x \in Nat, y \in Nat : x = i * b /\ y = q * b
    BY <1>1
  <2>2. x <= y
    BY <1>6, <2>1
  <2>3. off[i] \in {x, l} /\ off[i] <= x /\ y <= l
    BY <1>5, <1>9, <2>1
  <2> QED
    BY <2>1, <2>2, <2>3
<1>11. off[q + 1] = l
  <2>1. PICK x \in Nat : x = (q + 1) * b
    BY <1>1
  <2>2. off[q + 1] \in {x, l} /\ off[q + 1] <= l /\ l < x
    BY <1>5, <1>9, <2>1
  <2> QED
    BY <2>2
<1>12. off[0] = 0
  <2>1. 0 <= q /\ 0 * b = 0
    OBVIOUS
  <2> QED
    BY <1>10, <2>1
<1>13. \A i \in Nat : i * b \in Nat /\ off[i] = Min({i * b, l}) /\ off[i] <= l
  BY <1>1, <1>3, <1>5
<1> QED
  BY <1>4, <1>7, <1>8, <1>9, <1>10, <1>11, <1>12, <1>13

(* The units of the buffer, m of them read.                                 *)
LEMMA BufferFacts ==
  ASSUME NEW st, NEW pos, Bytes(st, pos), st.seqn \in Nat, st.written \in Seq(Units)
  PROVE  \E c \in Nat :
         /\ c = pos[st.seqn]
         /\ st.buf \in Seq(Units) /\ Len(st.buf) \in Nat
         /\ c + Len(st.buf) = Len(st.written)
         /\ \A i, j \in Nat : j <= Len(st.buf) =>
              SubSeq(st.buf, i + 1, j) = SubSeq(st.written, c + i + 1, c + j)
         /\ st.eof => Len(st.buf) = 0
<1>1. PICK w \in Seq(Units) : w = st.written
  OBVIOUS
<1>2. PICK n \in Nat : n = st.seqn
  OBVIOUS
<1>3. Cut(n, w, pos)
  BY <1>1, <1>2 DEF Bytes
<1>4. pos[n] \in Nat /\ pos[n] <= Len(w)
  BY <1>3, CutFacts
<1>5. PICK c \in Nat : c = pos[n]
  BY <1>4
<1>6. PICK v : v = st.buf
  OBVIOUS
<1>7. v = SubSeq(w, c + 1, Len(w)) /\ c <= Len(w) /\ Len(w) \in Nat
  BY <1>1, <1>2, <1>4, <1>5, <1>6 DEF Bytes
<1>8. v \in Seq(Units) /\ Len(v) = IF c < Len(w) THEN Len(w) - c ELSE 0
  BY <1>7, PartOf
<1>9. Len(v) \in Nat /\ c + Len(v) = Len(w)
  BY <1>7, <1>8
<1>10. \A i, j \in Nat : j <= Len(v) => SubSeq(v, i + 1, j) = SubSeq(w, c + i + 1, c + j)
  <2> TAKE i, j \in Nat
  <2> HAVE j <= Len(v)
  <2>1. c + j <= Len(w)
    BY <1>7, <1>9
  <2> QED
    BY <1>7, <2>1, PartOfTail
<1>11. st.eof => Len(v) = 0
  BY <1>6 DEF Bytes
<1>12. c = pos[st.seqn]
  BY <1>2, <1>5
<1>13. /\ v \in Seq(Units) /\ Len(v) \in Nat
       /\ c + Len(v) = Len(st.written)
       /\ \A i, j \in Nat : j <= Len(v) =>
              SubSeq(v, i + 1, j) = SubSeq(st.written, c + i + 1, c + j)
       /\ st.eof => Len(v) = 0
  BY <1>1, <1>8, <1>9, <1>10, <1>11
<1>14. c \in Nat
  BY <1>5
<1>15. /\ c = pos[st.seqn]
       /\ st.buf \in Seq(Units) /\ Len(st.buf) \in Nat
       /\ c + Len(st.buf) = Len(st.written)
       /\ \A i, j \in Nat : j <= Len(st.buf) =>
              SubSeq(st.buf, i + 1, j) = SubSeq(st.written, c + i + 1, c + j)
       /\ st.eof => Len(st.buf) = 0
  BY <1>6, <1>12, <1>13, Zenon
<1> QED
  BY <1>14, <1>15, Zenon

(* The packets of f cut off the buffer of st, from f.st on.                 *)
Cuts(s, st, pos, f, pos2) ==
  /\ Sends(s, f.st, pos2)
  /\ \A i \in Nat : i <= st.seqn => pos2[i] = pos[i]
  /\ st.seqn <= f.st.seqn
  /\ f.st.written = st.written /\ f.st.peer = st.peer /\ f.st.closing = st.closing
  /\ f.st.last = st.last /\ f.st.delivered = st.delivered /\ f.st.saved = st.saved
  /\ f.st.inTable = st.inTable /\ f.st.sent = st.sent /\ f.st.posted = st.posted
  /\ f.st.out = st.out /\ f.st.window = st.window
  /\ f.st.status = (IF st.status = "New" THEN "Open" ELSE st.status)
  /\ st.eof => f.st.eof
  /\ \A p \in f.packets : /\ p \in PacketType /\ Fresh(st, p) /\ (p.seqn # 0 \/ p.syn)
                          /\ OwnPacket(s, f.st.seqn, st.written, pos2, p)
  /\ IsFiniteSet(f.packets)
  /\ \A n \in Nat : st.seqn <= n /\ n < f.st.seqn => \E p \in f.packets : p.seqn = n

(* ReadSyn cuts off the first piece.                                        *)
LEMMA ReadSynCuts ==
  ASSUME NEW s \in StreamIDs, NEW st, NEW pos, Sends(s, st, pos), st.status = "New"
  PROVE  /\ \E pos2 : Cuts(s, st, pos, ReadSyn(s, st), pos2)
         /\ Cardinality(ReadSyn(s, st).packets) = 1
<1>1. PICK n : n = Min({SynMTU, Len(st.buf)})
  OBVIOUS
<1>2. PICK p : p = [Packet(s, st, st.seqn, IF st.last < 0 THEN AllOnes ELSE 0)
              EXCEPT !.syn = TRUE, !.noAck = st.last < 0,
                     !.data = SubSeq(st.buf, 1, n)]
  OBVIOUS
<1>3. PICK r : r = [st EXCEPT !.status = "Open", !.seqn = @ + 1,
                        !.buf = SubSeq(@, n + 1, Len(@)),
                        !.eof = @ \/ n < SynMTU]
  OBVIOUS
<1>4. ReadSyn(s, st).packets = {p} /\ ReadSyn(s, st).st = r
  BY <1>1, <1>2, <1>3 DEF ReadSyn
<1>5. /\ st \in StreamType /\ st.seqn = 0 /\ st.sent = {} /\ st.saved = {}
      /\ s = Outgoing => st.peer = NoID
      /\ s # Outgoing => st.peer = Outgoing
      /\ Bytes(st, pos)
  BY <1>1 DEF Sends, Stages
<1>6. /\ st.written \in Seq(Units) /\ st.buf \in Seq(Units) /\ st.last \in Int /\ st.peer \in Nat
      /\ st.eof \in BOOLEAN
  BY SendsFacts
<1>7. /\ Len(st.buf) \in Nat /\ pos[0] = 0
      /\ Len(st.buf) = Len(st.written)
      /\ \A i, j \in Nat : j <= Len(st.buf) =>
              SubSeq(st.buf, i + 1, j) = SubSeq(st.written, i + 1, j)
      /\ st.eof => Len(st.buf) = 0
  <2>1. pos[0] = 0
    BY <1>5 DEF Bytes, Cut
  <2>2. st.seqn \in Nat
    BY <1>5
  <2>3. Bytes(st, pos) /\ st.written \in Seq(Units)
    BY <1>5, <1>6
  <2>4. PICK c \in Nat :
        /\ c = pos[st.seqn]
        /\ st.buf \in Seq(Units) /\ Len(st.buf) \in Nat
        /\ c + Len(st.buf) = Len(st.written)
        /\ \A i, j \in Nat : j <= Len(st.buf) =>
              SubSeq(st.buf, i + 1, j) = SubSeq(st.written, c + i + 1, c + j)
        /\ st.eof => Len(st.buf) = 0
    BY <2>2, <2>3, BufferFacts, Zenon
  <2>5. c = 0
    BY <1>5, <2>1, <2>4
  <2>6. \A i, j \in Nat : c + i + 1 = i + 1 /\ c + j = j
    BY <2>5
  <2>7. Len(st.buf) = Len(st.written)
    BY <2>4, <2>5
  <2>8. ASSUME NEW i \in Nat, NEW j \in Nat, j <= Len(st.buf)
        PROVE  SubSeq(st.buf, i + 1, j) = SubSeq(st.written, i + 1, j)
    <3>1. SubSeq(st.buf, i + 1, j) = SubSeq(st.written, c + i + 1, c + j)
      BY <2>4, <2>8
    <3>2. c + i + 1 = i + 1 /\ c + j = j
      BY <2>6
    <3> QED
      BY <3>1, <3>2, Zenon
  <2> QED
    BY <2>1, <2>4, <2>7, <2>8
<1>8. n \in Nat /\ n <= Len(st.buf) /\ (n < SynMTU => n = Len(st.buf))
  <2>1. PICK a \in Nat, b \in Nat : a = SynMTU /\ b = Len(st.buf)
    BY <1>7, StreamConsts
  <2>2. n = Min({a, b})
    BY <1>1, <2>1
  <2>3. n \in {a, b} /\ n <= a /\ n <= b
    BY <2>2, MinOf
  <2> QED
    BY <2>1, <2>3
<1>9. PICK d \in Seq(Units) : d = SubSeq(st.buf, 1, n)
  <2>1. SubSeq(st.buf, 0 + 1, n) \in Seq(Units)
    BY <1>6, <1>8, PartOf
  <2>2. 0 + 1 = 1
    OBVIOUS
  <2>3. SubSeq(st.buf, 1, n) \in Seq(Units)
    BY <2>1, <2>2, Zenon
  <2> QED
    BY <2>3
<1>10. PICK v \in Seq(Units) : v = SubSeq(st.buf, n + 1, Len(st.buf))
  <2>1. Len(st.buf) <= Len(st.buf)
    BY <1>7
  <2>2. SubSeq(st.buf, n + 1, Len(st.buf)) \in Seq(Units)
    BY <1>6, <1>7, <1>8, <2>1, PartOf
  <2> QED
    BY <2>2
<1>11. d = SubSeq(st.written, 1, n) /\ v = SubSeq(st.written, n + 1, Len(st.written))
  <2>1. SubSeq(st.buf, 0 + 1, n) = SubSeq(st.written, 0 + 1, n)
    BY <1>7, <1>8
  <2>2. v = SubSeq(st.written, n + 1, Len(st.buf))
    <3>1. Len(st.buf) <= Len(st.buf)
      BY <1>7
    <3> QED
      BY <1>7, <1>8, <1>10, <3>1
  <2> QED
    BY <1>7, <1>9, <2>1, <2>2
<1>12. PICK e \in BOOLEAN : e = (st.eof \/ n < SynMTU)
  OBVIOUS
<1>13. /\ r \in StreamType /\ r.seqn = 1 /\ r.posted = st.posted
       /\ r.status = "Open" /\ r.sent = st.sent /\ r.eof = e /\ r.inTable = st.inTable
       /\ r.written = st.written /\ r.peer = st.peer /\ r.closing = st.closing /\ r.buf = v
       /\ r.last = st.last /\ r.delivered = st.delivered /\ r.saved = st.saved /\ r.out = st.out
       /\ r.window = st.window /\ r.acks = st.acks
  <2>1. r = [st EXCEPT !.status = "Open", !.seqn = 1, !.buf = v, !.eof = e]
    BY <1>3, <1>5, <1>10, <1>12
  <2> QED
    BY <1>5, <2>1 DEF StreamType
<1>14. PICK pos2 : /\ Cut(1, st.written, pos2) /\ pos2[1] = n
                   /\ \A i \in Nat : i <= 0 => pos2[i] = pos[i]
  <2>1. Cut(0, st.written, pos)
    BY <1>5 DEF Bytes
  <2>2. \E pos2 : /\ Cut(0 + 1, st.written, pos2) /\ pos2[0 + 1] = n
                  /\ \A i \in Nat : i <= 0 => pos2[i] = pos[i]
    BY <1>6, <1>7, <1>8, <2>1, CutMore
  <2> QED
    BY <2>2
<1>15. e => v = <<>>
  <2>1. e => n = Len(st.buf)
    <3>1. e => st.eof \/ n < SynMTU
      BY <1>12, Zenon
    <3>2. st.eof => n = Len(st.buf)
      BY <1>7, <1>8
    <3> QED
      BY <1>8, <3>1, <3>2
  <2> QED
    BY <1>7, <1>8, <1>10, <2>1, SubSeqEmpty
<1>16. Bytes(r, pos2)
  BY <1>11, <1>13, <1>14, <1>15 DEF Bytes
<1>17. /\ p \in PacketType /\ p.from = s /\ p.to = st.peer /\ p.seqn = 0 /\ p.syn /\ ~p.fin /\ p.data = d
       /\ p.noAck = (st.last < 0) /\ p.nacks = {} /\ (st.last >= 0 => p.ack = 0)
  <2>1. PICK a \in Int : a = IF st.last < 0 THEN AllOnes ELSE 0
    BY DEF AllOnes
  <2>2. p = [Packet(s, st, 0, a) EXCEPT !.syn = TRUE, !.noAck = (st.last < 0), !.data = d]
    BY <1>2, <1>5, <1>9, <2>1
  <2>3. PICK b \in BOOLEAN : b = (st.last < 0)
    <3>1. (st.last < 0) \in BOOLEAN
      OBVIOUS
    <3> QED
      BY <3>1, Zenon
  <2>4. p \in PacketType
    BY <1>6, <2>2, <2>3, PacketOK
  <2>5. st.last >= 0 => a = 0
    BY <1>6, <2>1
  <2> QED
    BY <2>2, <2>4, <2>5 DEF Packet
<1>18. OwnPacket(s, 1, st.written, pos2, p)
  <2>1. pos2[0] = 0
    BY <1>7, <1>14
  <2>2. p.data = SubSeq(st.written, pos2[0] + 1, pos2[0 + 1])
    BY <1>11, <1>14, <1>17, <2>1
  <2> QED
    BY <1>5, <1>17, <2>2 DEF OwnPacket
<1>19. Fresh(st, p)
  <2>1. PICK l \in Int : l = st.last
    BY <1>6
  <2>2. l >= 0 => 0 .. p.ack \subseteq 0 .. l
    BY <1>17, <2>1
  <2> QED
    BY <1>17, <2>1, <2>2 DEF Fresh, AckTrue, Has
<1>20. Own(r) = Own(st)
  BY <1>13 DEF Own, PostedFin
<1>21. Sends(s, r, pos2)
  <2>1. \A x \in Own(r) : OwnPacket(s, r.seqn, r.written, pos2, x)
    <3>1. \A x \in Own(st) : x \in PacketType /\ OwnPacket(s, 0, st.written, pos, x)
      BY <1>5, SendsFacts
    <3> QED
      BY <1>13, <1>14, <1>20, <3>1, OwnLater
  <2>2. Window(r)
    BY <1>13 DEF Sends, Window
  <2>3. Stages(s, r)
    BY <1>5, <1>13 DEF Sends, Stages, PostedFin
  <2> QED
    BY <1>13, <1>16, <2>1, <2>2, <2>3 DEF Sends, Owns
<1>22. Cuts(s, st, pos, ReadSyn(s, st), pos2)
  <2>1. \A n1 \in Nat : 0 <= n1 /\ n1 < 1 => n1 = 0
    OBVIOUS
  <2>2. IsFiniteSet({p})
    BY FS_Singleton
  <2>3. \A n1 \in Nat : st.seqn <= n1 /\ n1 < r.seqn => \E x \in {p} : x.seqn = n1
    BY <1>5, <1>13, <1>17, <2>1
  <2>4. \A i \in Nat : i <= st.seqn => pos2[i] = pos[i]
    BY <1>5, <1>14
  <2>5. st.eof => r.eof
    BY <1>12, <1>13
  <2> QED
    BY <1>4, <1>5, <1>13, <1>17, <1>18, <1>19, <1>21, <2>2, <2>3, <2>4, <2>5 DEF Cuts
<1>23. Cardinality({p}) = 1
  BY FS_Singleton
<1> QED
  BY <1>4, <1>22, <1>23

(* The image of 1..k has at most k members.                                 *)
Images(f, k) == {f[i] : i \in 1 .. k}

(* The image of 1..k is finite.                                             *)
LEMMA FewImages ==
  ASSUME NEW k \in Nat, NEW f
  PROVE  /\ IsFiniteSet(Images(f, k)) /\ Cardinality(Images(f, k)) <= k
         /\ k >= 1 => Images(f, k) # {}
<1>1. PICK T : T = Images(f, k) /\ T = {f[i] : i \in 1 .. k}
  BY DEF Images
<1>2. PICK g : g = [i \in 1 .. k |-> f[i]]
  OBVIOUS
<1>3. g \in Surjection(1 .. k, T)
  BY <1>1, <1>2 DEF Surjection
<1>4. IsFiniteSet(1 .. k) /\ Cardinality(1 .. k) = k
  <2>1. IsFiniteSet(1 .. k) /\ Cardinality(1 .. k) = IF 1 > k THEN 0 ELSE k - 1 + 1
    BY FS_Interval
  <2>2. (IF 1 > k THEN 0 ELSE k - 1 + 1) = k
    OBVIOUS
  <2> QED
    BY <2>1, <2>2
<1>5. IsFiniteSet(T) /\ Cardinality(T) <= Cardinality(1 .. k)
  BY <1>3, <1>4, FS_Surjection
<1>6. k >= 1 => T # {}
  <2>1. k >= 1 => 1 \in 1 .. k
    OBVIOUS
  <2> QED
    BY <1>1, <2>1
<1> QED
  BY <1>1, <1>4, <1>5, <1>6

(* The places of more packets, off[i] units after the first i of them.      *)
Rising(off) ==
  off \in [Nat -> Nat] /\ off[0] = 0 /\ \A i, j \in Nat : i <= j => off[i] <= off[j]

RisingTo(pos, n) ==
  pos \in [Nat -> Nat] /\ \A i, j \in Nat : i <= j /\ j <= n => pos[i] <= pos[j]

Places(n, pos, off, pos2) ==
  /\ \A i \in Nat : i <= n => pos2[i] = pos[i]
  /\ \A i \in Nat : pos2[n + i] = pos[n] + off[i]

(* Places put behind others.                                                *)
LEMMA PlacesMore ==
  ASSUME NEW n \in Nat, NEW pos, NEW off, Rising(off), RisingTo(pos, n)
  PROVE  \E pos2 : /\ pos2 \in [Nat -> Nat] /\ Places(n, pos, off, pos2)
                   /\ \A i, j \in Nat : i <= j => (n <= j => pos2[i] <= pos2[j])
<1>9. /\ off \in [Nat -> Nat] /\ off[0] = 0
      /\ \A i, j \in Nat : i <= j => off[i] <= off[j]
      /\ pos \in [Nat -> Nat]
      /\ \A i, j \in Nat : i <= j /\ j <= n => pos[i] <= pos[j]
  BY DEF Rising, RisingTo
<1>1. PICK pos2 : pos2 = [i \in Nat |-> IF i <= n THEN pos[i] ELSE pos[n] + off[i - n]]
  OBVIOUS
<1>2. pos[n] \in Nat /\ \A i \in Nat : i <= n => pos[i] <= pos[n]
  BY <1>9
<1>3. \A i \in Nat : i <= n => pos2[i] = pos[i]
  BY <1>1
<1>4. \A i \in Nat : pos2[n + i] = pos[n] + off[i]
  <2> TAKE i \in Nat
  <2>1. PICK m \in Nat : m = n + i
    OBVIOUS
  <2>2. CASE i = 0
    BY <1>3, <1>9, <2>1, <2>2
  <2>3. CASE i # 0
    <3>1. m - n = i /\ ~(m <= n)
      BY <2>1, <2>3
    <3>2. pos2[m] = pos[n] + off[m - n]
      BY <1>1, <3>1
    <3> QED
      BY <2>1, <3>1, <3>2
  <2> QED
    BY <2>2, <2>3
<1>5. \A i \in Nat : i >= n => \E d \in Nat : i = n + d /\ pos2[i] = pos[n] + off[d]
  <2> TAKE i \in Nat
  <2> HAVE i >= n
  <2>1. PICK d \in Nat : i = n + d
    <3>1. i - n \in Nat /\ i = n + (i - n)
      OBVIOUS
    <3> QED
      BY <3>1
  <2> QED
    BY <1>4, <2>1
<1>6. \A i \in Nat : pos2[i] \in Nat
  <2> TAKE i \in Nat
  <2>1. CASE i <= n
    BY <1>3, <1>9, <2>1
  <2>2. CASE i > n
    <3>1. PICK d \in Nat : pos2[i] = pos[n] + off[d]
      BY <1>5, <2>2
    <3> QED
      BY <1>9, <3>1
  <2> QED
    BY <2>1, <2>2
<1>7. pos2 \in [Nat -> Nat]
  BY <1>1, <1>6
<1>8. \A i, j \in Nat : i <= j => (n <= j => pos2[i] <= pos2[j])
  <2> TAKE i, j \in Nat
  <2> HAVE i <= j
  <2> HAVE n <= j
  <2>1. PICK d \in Nat : j = n + d /\ pos2[j] = pos[n] + off[d]
    BY <1>5
  <2>2. CASE i <= n
    <3>1. pos2[i] = pos[i] /\ pos[i] <= pos[n]
      BY <1>2, <1>3, <2>2
    <3> QED
      BY <1>9, <2>1, <3>1
  <2>3. CASE i > n
    <3>1. PICK e \in Nat : i = n + e /\ pos2[i] = pos[n] + off[e]
      BY <1>5, <2>3
    <3>2. e <= d
      BY <2>1, <3>1
    <3>3. off[e] <= off[d]
      BY <1>9, <3>2
    <3> QED
      BY <1>9, <2>1, <3>1, <3>3
  <2> QED
    BY <2>2, <2>3
<1> QED
  BY <1>3, <1>4, <1>7, <1>8 DEF Places

(* The places of count more pieces.                                         *)
LEMMA CutMany ==
  ASSUME NEW n \in Nat, NEW w, NEW pos, Cut(n, w, pos), NEW count \in Nat, NEW off, Rising(off),
         NEW l \in Nat
  PROVE  Len(w) = pos[n] + l /\ off[count] <= l =>
           \E pos2 : Cut(n + count, w, pos2) /\ Places(n, pos, off, pos2)
<1>1. /\ pos \in [Nat -> Nat] /\ pos[0] = 0
      /\ \A i, j \in Nat : i <= j /\ j <= n => pos[i] <= pos[j]
      /\ RisingTo(pos, n)
  BY CutFacts DEF RisingTo
<1>7. PICK pos2 : /\ pos2 \in [Nat -> Nat] /\ Places(n, pos, off, pos2)
                  /\ \A i, j \in Nat : i <= j => (n <= j => pos2[i] <= pos2[j])
  BY <1>1, PlacesMore
<1>2. /\ \A i \in Nat : i <= n => pos2[i] = pos[i]
      /\ \A i \in Nat : pos2[n + i] = pos[n] + off[i]
      /\ \A i, j \in Nat : i <= j => (n <= j => pos2[i] <= pos2[j])
      /\ off \in [Nat -> Nat]
  BY <1>7 DEF Places, Rising
<1>3. pos2[0] = 0
  BY <1>1, <1>2
<1>4. \A i, j \in Nat : i <= j => pos2[i] <= pos2[j]
  <2> TAKE i, j \in Nat
  <2> HAVE i <= j
  <2>1. CASE n <= j
    BY <1>2, <2>1
  <2>2. CASE j <= n
    <3>1. pos[i] <= pos[j]
      BY <1>1, <2>2
    <3>2. pos2[i] = pos[i] /\ pos2[j] = pos[j]
      BY <1>2, <2>2
    <3> QED
      BY <3>1, <3>2
  <2> QED
    BY <2>1, <2>2
<1>5. Len(w) = pos[n] + l /\ off[count] <= l => pos2[n + count] <= Len(w)
  <2>1. pos2[n + count] = pos[n] + off[count]
    BY <1>2
  <2>2. off[count] <= l => pos[n] + off[count] <= pos[n] + l
    BY <1>1, <1>2
  <2> QED
    BY <2>1, <2>2
<1>6. Len(w) = pos[n] + l /\ off[count] <= l => Cut(n + count, w, pos2)
  BY <1>3, <1>4, <1>5, <1>7 DEF Cut
<1> QED
  BY <1>6, <1>7

(* Numbers are integers.                                                    *)
LEMMA IntNat == \A i \in Nat : i \in Int
OBVIOUS

(* ReadFollowOn cuts off as many pieces as the window has room for.         *)
LEMMA ReadFollowOnCuts ==
  ASSUME NEW s \in StreamIDs, NEW st, NEW pos, Sends(s, st, pos), st.status # "New",
         NEW numMsgs \in Int
  PROVE  \E f : /\ f = ReadFollowOn(s, st, numMsgs, st.last < 0)
                /\ \E pos2 : Cuts(s, st, pos, f, pos2)
                /\ numMsgs >= 0 => Cardinality(f.packets) <= numMsgs
                /\ numMsgs > 0 /\ st.peer # NoID /\ ~st.eof => f.packets # {}
<1>31. PICK f : f = ReadFollowOn(s, st, numMsgs, st.last < 0)
  OBVIOUS
<1>1. /\ st \in StreamType /\ st.seqn \in Nat /\ st.seqn >= 1 /\ st.written \in Seq(Units) /\ st.peer \in Nat
      /\ st.last \in Int /\ st.eof \in BOOLEAN
      /\ Bytes(st, pos) /\ (s # Outgoing => st.peer = Outgoing)
  BY SendsFacts DEF Sends, Stages
<1>2. PICK c \in Nat :
         /\ c = pos[st.seqn]
         /\ st.buf \in Seq(Units) /\ Len(st.buf) \in Nat
         /\ c + Len(st.buf) = Len(st.written)
         /\ \A i, j \in Nat : j <= Len(st.buf) =>
              SubSeq(st.buf, i + 1, j) = SubSeq(st.written, c + i + 1, c + j)
         /\ st.eof => Len(st.buf) = 0
  <2>1. st.seqn \in Nat /\ st.written \in Seq(Units) /\ Bytes(st, pos)
    BY <1>1
  <2> QED
    BY <2>1, BufferFacts, Zenon
<1>3. PICK l \in Nat : l = Len(st.buf)
  BY <1>2
<1>4. PICK n \in Nat : n = st.seqn
  BY <1>1
<1>5. PICK need \in Nat : need = l \div MTU + 1
  <2>1. l \div MTU \in Nat
    BY DivFacts, StreamConsts
  <2> QED
    BY <2>1
<1>6. PICK count \in Nat : count = IF IsEstablished(st) /\ ~st.eof /\ numMsgs > 0
                                  THEN Min({numMsgs, need}) ELSE 0
  <2>1. Min({numMsgs, need}) \in {numMsgs, need}
    BY MinOf
  <2>2. numMsgs > 0 => Min({numMsgs, need}) \in Nat
    BY <2>1
  <2> QED
    BY <2>2
<1>7. /\ count <= need /\ (numMsgs >= 0 => count <= numMsgs)
      /\ (numMsgs > 0 /\ st.peer # NoID /\ ~st.eof => count >= 1)
      /\ count >= 1 => ~st.eof
  <2>1. PICK m \in Int : m = Min({numMsgs, need}) /\ m \in {numMsgs, need} /\ m <= numMsgs /\ m <= need
    <3>1. Min({numMsgs, need}) \in Int
      <4>1. Min({numMsgs, need}) \in {numMsgs, need}
        BY <1>5, IntNat, MinOf, Zenon
      <4> QED
        BY <4>1
    <3>2. PICK m \in Int : m = Min({numMsgs, need})
      BY <3>1
    <3>3. m \in {numMsgs, need} /\ m <= numMsgs /\ m <= need
      <4>1. /\ Min({numMsgs, need}) \in {numMsgs, need}
            /\ Min({numMsgs, need}) <= numMsgs /\ Min({numMsgs, need}) <= need
        BY <1>5, IntNat, MinOf, Zenon
      <4> QED
        BY <3>2, <4>1
    <3> QED
      BY <3>2, <3>3
  <2>2. need >= 1
    <3>1. l \div MTU \in Nat
      BY DivFacts, StreamConsts
    <3> QED
      BY <1>5, <3>1
  <2>3. IsEstablished(st) <=> st.peer # NoID
    BY DEF IsEstablished
  <2>4. CASE IsEstablished(st) /\ ~st.eof /\ numMsgs > 0
    <3>1. count = m
      BY <1>6, <2>1, <2>4
    <3> QED
      BY <2>1, <2>2, <2>4, <3>1
  <2>5. CASE ~(IsEstablished(st) /\ ~st.eof /\ numMsgs > 0)
    <3>1. count = 0
      BY <1>6, <2>5, Zenon
    <3> QED
      BY <2>3, <2>5, <3>1
  <2> QED
    BY <2>4, <2>5
<1>8. PICK off \in [Nat -> Nat] :
           /\ \A i \in Nat : i * MTU \in Nat /\ off[i] = Min({i * MTU, l}) /\ off[i] <= l
           /\ off[0] = 0
           /\ \A i, j \in Nat : i <= j => off[i] <= off[j]
           /\ \A i \in Nat : i <= l \div MTU => off[i] = i * MTU
           /\ off[l \div MTU + 1] = l /\ l < (l \div MTU + 1) * MTU
  BY Reach, StreamConsts
<1>9. /\ \A i \in Nat : i < need => off[i] = i * MTU
      /\ off[need] = l /\ l < need * MTU
  <2>1. PICK q \in Nat : q = l \div MTU
    BY DivFacts, StreamConsts
  <2>2. \A i \in Nat : i < need => i <= q
    BY <1>5, <2>1
  <2> QED
    BY <1>5, <1>8, <2>1, <2>2
<1>10. off \in [Nat -> Nat] /\ \A i \in Nat : off[i] \in Nat /\ off[i] <= l
  BY <1>8
<1>11. PICK pos2 : /\ Cut(n + count, st.written, pos2)
                   /\ \A i \in Nat : i <= n => pos2[i] = pos[i]
                   /\ \A i \in Nat : pos2[n + i] = c + off[i]
  <2>1. Cut(n, st.written, pos) /\ c = pos[n]
    BY <1>1, <1>2, <1>4 DEF Bytes
  <2>2. Len(st.written) = pos[n] + l /\ off[count] <= l
    BY <1>2, <1>3, <1>10, <2>1
  <2>3. Rising(off)
    BY <1>8 DEF Rising
  <2>4. \E pos2 : Cut(n + count, st.written, pos2) /\ Places(n, pos, off, pos2)
    BY <1>3, <1>4, <1>6, <2>1, <2>2, <2>3, CutMany
  <2> QED
    BY <2>1, <2>4 DEF Places
<1> DEFINE Chunk(i) == SubSeq(st.buf, (i - 1) * MTU + 1, Min({i * MTU, Len(st.buf)}))
           ack == IF st.last < 0 THEN AllOnes ELSE 0
           P(i) == [Packet(s, st, st.seqn + i - 1, ack) EXCEPT !.data = Chunk(i)]
<1>12. PICK r : r = [st EXCEPT !.seqn = @ + count,
                        !.buf = SubSeq(@, count * MTU + 1, Len(@)),
                        !.eof = @ \/ count = need]
  OBVIOUS
<1>13. f.packets = {P(i) : i \in 1 .. count} /\ f.st = r
  <2>1. need = Len(st.buf) \div MTU + 1
    BY <1>3, <1>5
  <2> QED
    BY <1>6, <1>12, <1>31, <2>1, Zenon DEF ReadFollowOn
<1>14. ASSUME NEW i \in 1 .. count
       PROVE  Chunk(i) \in Seq(Units) /\ Chunk(i) = SubSeq(st.written, pos2[n + i - 1] + 1, pos2[n + i])
  <2>1. PICK k \in Nat : i = k + 1
    <3>1. i - 1 \in Nat /\ i = (i - 1) + 1
      OBVIOUS
    <3> QED
      BY <3>1
  <2>2. k < need /\ i \in Nat
    BY <1>7, <2>1
  <2>3. off[k] = k * MTU /\ off[i] = Min({i * MTU, Len(st.buf)})
    BY <1>3, <1>8, <1>9, <2>2
  <2>4. PICK a \in Nat, b \in Nat : a = off[k] /\ b = off[i]
    BY <1>10, <2>2
  <2>5. i - 1 = k
    BY <2>1
  <2>6. Chunk(i) = SubSeq(st.buf, a + 1, b)
    BY <2>3, <2>4, <2>5, Zenon
  <2>7. b <= Len(st.buf)
    BY <1>3, <1>10, <2>2, <2>4
  <2>8. SubSeq(st.buf, a + 1, b) = SubSeq(st.written, c + a + 1, c + b)
    BY <1>2, <2>7
  <2>9. SubSeq(st.buf, a + 1, b) \in Seq(Units)
    BY <1>2, <2>7, PartOf
  <2>10. n + i - 1 = n + k
    BY <2>1
  <2>11. pos2[n + k] = c + a /\ pos2[n + i] = c + b
    BY <1>11, <2>2, <2>4
  <2> QED
    BY <2>6, <2>8, <2>9, <2>10, <2>11, Zenon
<1> HIDE DEF Chunk
<1>15. ack \in Int /\ (st.last >= 0 => ack = 0)
  BY <1>1 DEF AllOnes
<1>16. ASSUME NEW i \in 1 .. count
       PROVE  /\ P(i) \in PacketType /\ P(i).from = s /\ P(i).to = st.peer /\ P(i).seqn = n + i - 1
              /\ P(i).syn = FALSE /\ P(i).data = Chunk(i)
              /\ P(i).noAck = FALSE /\ P(i).nacks = {} /\ P(i).ack = ack
  <2>1. PICK d \in Seq(Units) : d = Chunk(i)
    BY <1>14
  <2>2. PICK m \in Nat : m = st.seqn + i - 1
    <3>1. n + i - 1 \in Nat
      OBVIOUS
    <3> QED
      BY <1>4, <3>1
  <2>3. P(i) = [Packet(s, st, m, ack) EXCEPT !.data = d]
    BY <2>1, <2>2
  <2>4. [Packet(s, st, m, ack) EXCEPT !.data = d] \in PacketType
    BY <1>1, <1>15, PacketOK
  <2>5. PICK p : p = [Packet(s, st, m, ack) EXCEPT !.data = d]
    OBVIOUS
  <2>6. /\ p.from = s /\ p.to = st.peer /\ p.seqn = m /\ p.syn = FALSE /\ p.data = d
        /\ p.noAck = FALSE /\ p.nacks = {} /\ p.ack = ack
    BY <2>5 DEF Packet
  <2>7. P(i) = p
    BY <2>3, <2>5
  <2>8. n + i - 1 = m
    BY <1>4, <2>2
  <2> HIDE DEF P, ack
  <2> QED
    BY <2>1, <2>4, <2>5, <2>6, <2>7, <2>8
<1> HIDE DEF P, ack
<1>17. PICK v \in Seq(Units) : v = SubSeq(st.buf, count * MTU + 1, Len(st.buf))
  <2>1. count * MTU \in Nat
    BY <1>8
  <2>2. Len(st.buf) <= Len(st.buf)
    BY <1>2
  <2>3. SubSeq(st.buf, count * MTU + 1, Len(st.buf)) \in Seq(Units)
    BY <1>2, <2>1, <2>2, PartOf
  <2> QED
    BY <2>3
<1>18. v = SubSeq(st.written, pos2[n + count] + 1, Len(st.written)) /\ (count = need => v = <<>>)
  <2>1. pos2[n + count] = c + off[count]
    BY <1>11
  <2>2. CASE count = need
    <3>1. PICK m \in Nat : m = count * MTU
      BY <1>8
    <3>2. l < m
      BY <1>9, <2>2, <3>1
    <3>3. v = <<>>
      <4>1. v = SubSeq(st.buf, m + 1, l)
        BY <1>3, <1>17, <3>1
      <4>2. l < m + 1
        BY <3>2
      <4> QED
        BY <4>1, <4>2, SubSeqEmpty
    <3>4. pos2[n + count] = Len(st.written) /\ Len(st.written) \in Nat
      <4>1. c + l = Len(st.written) /\ Len(st.written) \in Nat
        <5>1. Len(st.written) \in Nat
          BY <1>1
        <5> QED
          BY <1>2, <1>3, <5>1
      <4> QED
        BY <1>9, <2>1, <2>2, <4>1
    <3>5. SubSeq(st.written, pos2[n + count] + 1, Len(st.written)) = <<>>
      BY <3>4, SubSeqEmpty
    <3> QED
      BY <3>3, <3>5
  <2>3. CASE count # need
    <3>1. count < need
      BY <1>7, <2>3
    <3>2. PICK m \in Nat : m = count * MTU /\ off[count] = m
      BY <1>8, <1>9, <3>1
    <3>3. SubSeq(st.buf, m + 1, l) = SubSeq(st.written, c + m + 1, c + l)
      <4>1. l <= Len(st.buf)
        BY <1>3
      <4> QED
        BY <1>2, <4>1
    <3>4. c + l = Len(st.written)
      BY <1>2, <1>3
    <3> QED
      BY <1>3, <1>17, <2>1, <2>3, <3>2, <3>3, <3>4
  <2> QED
    BY <2>2, <2>3
<1>19. PICK e \in BOOLEAN : e = (st.eof \/ count = need)
  OBVIOUS
<1>20. PICK m \in Nat : m = n + count
  OBVIOUS
<1>21. /\ r \in StreamType /\ r.seqn = m /\ r.posted = st.posted
       /\ r.status = st.status /\ r.sent = st.sent /\ r.eof = e /\ r.inTable = st.inTable
       /\ r.written = st.written /\ r.peer = st.peer /\ r.closing = st.closing /\ r.buf = v
       /\ r.last = st.last /\ r.delivered = st.delivered /\ r.saved = st.saved /\ r.out = st.out
       /\ r.window = st.window /\ r.acks = st.acks
  <2>1. r = [st EXCEPT !.seqn = m, !.buf = v, !.eof = e]
    BY <1>4, <1>12, <1>17, <1>19, <1>20
  <2> QED
    BY <1>1, <2>1 DEF StreamType
<1>22. e => v = <<>>
  <2>1. e => st.eof \/ count = need
    BY <1>19, Zenon
  <2>2. st.eof => count = 0 /\ l = 0
    BY <1>2, <1>3, <1>7
  <2>3. st.eof => v = <<>>
    <3> HAVE st.eof
    <3>1. PICK k \in Nat : k = count * MTU
      BY <1>8
    <3>2. l = 0
      BY <2>2
    <3>3. SubSeq(st.buf, k + 1, l) = <<>>
      BY <3>2, SubSeqEmpty
    <3> QED
      BY <1>3, <1>17, <3>1, <3>3
  <2> QED
    BY <1>18, <2>1, <2>3
<1>23. Bytes(r, pos2)
  BY <1>11, <1>18, <1>20, <1>21, <1>22 DEF Bytes
<1>24. n <= m /\ \A i \in Nat : i <= n => pos2[i] = pos[i]
  BY <1>11, <1>20
<1>25. Sends(s, r, pos2)
  <2>1. Own(r) = Own(st)
    BY <1>21 DEF Own, PostedFin
  <2>2. \A x \in Own(r) : OwnPacket(s, r.seqn, r.written, pos2, x)
    <3>1. \A x \in Own(st) : x \in PacketType /\ OwnPacket(s, n, st.written, pos, x)
      BY <1>4, SendsFacts
    <3> QED
      BY <1>21, <1>24, <2>1, <3>1, OwnLater
  <2>3. Window(r)
    BY <1>21 DEF Sends, Window
  <2>4. m >= 1
    <3>1. n >= 1
      BY <1>1, <1>4
    <3> QED
      BY <1>20, <3>1
  <2>5. st.status = "Closed" => e
    <3>1. st.status = "Closed" => st.eof
      BY DEF Sends, Stages
    <3> QED
      BY <1>19, <3>1
  <2>6. Stages(s, r)
    BY <1>21, <2>4, <2>5 DEF Sends, Stages, PostedFin
  <2> QED
    BY <1>21, <1>23, <2>2, <2>3, <2>6 DEF Sends, Owns
<1>26. ASSUME NEW p \in f.packets
       PROVE  /\ p \in PacketType /\ Fresh(st, p) /\ p.seqn # 0
              /\ OwnPacket(s, m, st.written, pos2, p)
  <2>1. PICK i \in 1 .. count : p = P(i)
    BY <1>13
  <2>2. /\ p \in PacketType /\ p.from = s /\ p.to = st.peer /\ p.seqn = n + i - 1
        /\ p.syn = FALSE /\ p.data = Chunk(i)
        /\ p.noAck = FALSE /\ p.nacks = {} /\ p.ack = ack
    BY <1>16, <2>1
  <2>3. Chunk(i) = SubSeq(st.written, pos2[n + i - 1] + 1, pos2[n + i])
    BY <1>14
  <2>4. PICK k \in Nat : k = n + i - 1 /\ k + 1 = n + i /\ k < m /\ k # 0
    <3>1. n + i - 1 \in Nat /\ (n + i - 1) + 1 = n + i /\ n + i - 1 < m /\ n + i - 1 # 0
      <4>1. n >= 1
        BY <1>1, <1>4
      <4>2. i \in Nat /\ i >= 1 /\ i <= count
        BY <2>1
      <4> QED
        BY <1>20, <4>1, <4>2
    <3> QED
      BY <3>1
  <2>5. p.data = SubSeq(st.written, pos2[k] + 1, pos2[k + 1]) /\ p.seqn = k
    BY <2>2, <2>3, <2>4
  <2>6. OwnPacket(s, m, st.written, pos2, p)
    BY <1>1, <2>2, <2>4, <2>5 DEF OwnPacket
  <2>7. AckTrue(st, p)
    <3>1. PICK la \in Int : la = st.last
      BY <1>1
    <3>2. la >= 0 => 0 .. p.ack \subseteq 0 .. la
      BY <1>15, <2>2, <3>1
    <3> QED
      BY <2>2, <3>1, <3>2 DEF AckTrue, Has
  <2> QED
    BY <2>2, <2>4, <2>6, <2>7 DEF Fresh
<1>27. /\ IsFiniteSet(f.packets) /\ Cardinality(f.packets) <= count
       /\ count >= 1 => f.packets # {}
  <2>1. PICK g : g = [i \in 1 .. count |-> P(i)]
    OBVIOUS
  <2>2. f.packets = Images(g, count)
    BY <1>13, <2>1 DEF Images
  <2> QED
    <3>1. /\ IsFiniteSet(Images(g, count)) /\ Cardinality(Images(g, count)) <= count
          /\ count >= 1 => Images(g, count) # {}
      BY <1>6, FewImages
    <3> QED
      BY <2>2, <3>1
<1>28. ASSUME NEW x \in Nat, n <= x, x < m
       PROVE  \E p \in f.packets : p.seqn = x
  <2>1. PICK i \in 1 .. count : n + i - 1 = x
    <3>1. x - n + 1 \in 1 .. count /\ n + (x - n + 1) - 1 = x
      BY <1>20, <1>28
    <3> QED
      BY <3>1
  <2>2. P(i) \in f.packets /\ P(i).seqn = x
    BY <1>13, <1>16, <2>1
  <2> QED
    BY <2>2
<1>29. Cuts(s, st, pos, f, pos2)
  <2>1. st.eof => e
    BY <1>19
  <2>2. st.seqn <= r.seqn /\ \A i \in Nat : i <= st.seqn => pos2[i] = pos[i]
    BY <1>4, <1>21, <1>24
  <2>3. \A x \in Nat : st.seqn <= x /\ x < r.seqn => \E p \in f.packets : p.seqn = x
    BY <1>4, <1>21, <1>28
  <2>4. \A p \in f.packets : /\ p \in PacketType /\ Fresh(st, p) /\ (p.seqn # 0 \/ p.syn)
                          /\ OwnPacket(s, r.seqn, st.written, pos2, p)
    BY <1>21, <1>26
  <2> QED
    BY <1>13, <1>21, <1>25, <1>27, <2>1, <2>2, <2>3, <2>4 DEF Cuts
<1>30. numMsgs >= 0 => Cardinality(f.packets) <= numMsgs
  <2>1. Cardinality(f.packets) \in Nat
    BY <1>27, FS_CardinalityType
  <2> QED
    BY <1>7, <1>27, <2>1
<1>32. numMsgs > 0 /\ st.peer # NoID /\ ~st.eof => f.packets # {}
  BY <1>7, <1>27
<1> QED
  BY <1>29, <1>30, <1>31, <1>32, Zenon

(* Two reads, one after the other.                                          *)
LEMMA CutsTrans ==
  ASSUME NEW s \in StreamIDs, NEW st, NEW pos, NEW f, NEW pos2, NEW g, NEW pos3, NEW h,
         st \in StreamType, Cuts(s, st, pos, f, pos2), Cuts(s, f.st, pos2, g, pos3),
         h = [packets |-> f.packets \cup g.packets, st |-> g.st]
  PROVE  Cuts(s, st, pos, h, pos3)
<1>1. Sends(s, f.st, pos2) /\ Sends(s, g.st, pos3)
  BY DEF Cuts
<1>2. PICK a \in Nat, b \in Nat, c \in Nat : a = st.seqn /\ b = f.st.seqn /\ c = g.st.seqn
  <2>1. st.seqn \in Nat
    BY DEF StreamType
  <2> QED
    BY <1>1, <2>1, SendsFacts
<1>3. a <= b /\ b <= c /\ (\A i \in Nat : i <= a => pos2[i] = pos[i])
      /\ \A i \in Nat : i <= b => pos3[i] = pos2[i]
  BY <1>2 DEF Cuts
<1>4. a <= c /\ \A i \in Nat : i <= a => pos3[i] = pos[i]
  BY <1>2, <1>3
<1>5. h.st = g.st /\ h.packets = f.packets \cup g.packets
  OBVIOUS
<1>6. /\ g.st.written = st.written /\ g.st.peer = st.peer /\ g.st.closing = st.closing
      /\ g.st.last = st.last /\ g.st.delivered = st.delivered /\ g.st.saved = st.saved
      /\ g.st.inTable = st.inTable /\ g.st.sent = st.sent /\ g.st.posted = st.posted
      /\ g.st.out = st.out /\ g.st.window = st.window
      /\ g.st.status = (IF st.status = "New" THEN "Open" ELSE st.status)
      /\ st.eof => g.st.eof
      /\ f.st.written = st.written /\ f.st.peer = st.peer /\ f.st.last = st.last /\ f.st.saved = st.saved
  BY DEF Cuts
<1>7. \A p \in f.packets : OwnPacket(s, c, st.written, pos3, p)
  <2>1. \A p \in f.packets : p \in PacketType /\ OwnPacket(s, b, st.written, pos2, p)
    BY <1>2 DEF Cuts
  <2> QED
    BY <1>2, <1>3, <2>1, OwnLater
<1>8. \A p \in g.packets : OwnPacket(s, c, st.written, pos3, p) /\ Fresh(st, p)
  BY <1>2, <1>6 DEF Cuts, Fresh, AckTrue, Has
<1>9. \A p \in h.packets : /\ p \in PacketType /\ Fresh(st, p) /\ (p.seqn # 0 \/ p.syn)
                          /\ OwnPacket(s, c, st.written, pos3, p)
  BY <1>5, <1>7, <1>8 DEF Cuts
<1>10. IsFiniteSet(h.packets)
  BY <1>5, FS_Union DEF Cuts
<1>11. ASSUME NEW n \in Nat, a <= n, n < c
       PROVE  \E p \in h.packets : p.seqn = n
  <2>1. CASE n < b
    BY <1>2, <1>5, <1>11, <2>1 DEF Cuts
  <2>2. CASE b <= n
    BY <1>2, <1>5, <1>11, <2>2 DEF Cuts
  <2> QED
    BY <1>2, <2>1, <2>2
<1> QED
  BY <1>1, <1>2, <1>4, <1>5, <1>6, <1>9, <1>10, <1>11 DEF Cuts

(* Everything SendBuffer reads, if the window has room for n packets.       *)
ReadAll(s, st, n) ==
  LET first == IF st.status = "New" THEN ReadSyn(s, st)
               ELSE [packets |-> {}, st |-> st]
      rest == ReadFollowOn(s, first.st, n - Cardinality(first.packets), st.last < 0)
  IN [packets |-> first.packets \cup rest.packets, st |-> rest.st]

(* A read of nothing.                                                       *)
LEMMA CutsRefl ==
  ASSUME NEW s, NEW st, NEW pos, Sends(s, st, pos), st.status # "New"
  PROVE  Cuts(s, st, pos, [packets |-> {}, st |-> st], pos)
<1>1. st.seqn <= st.seqn /\ \A n \in Nat : ~(st.seqn <= n /\ n < st.seqn)
  BY SendsFacts
<1>2. IsFiniteSet({})
  BY FS_EmptySet
<1> QED
  BY <1>1, <1>2 DEF Cuts

(* What SendBuffer reads.                                                   *)
LEMMA ReadAllCuts ==
  ASSUME NEW s \in StreamIDs, NEW st, NEW pos, Sends(s, st, pos), NEW n \in Nat, n >= 1
  PROVE  \E h : /\ h = ReadAll(s, st, n)
                /\ \E pos2 : Cuts(s, st, pos, h, pos2)
                /\ Cardinality(h.packets) <= n
                /\ st.status = "New" \/ (st.peer # NoID /\ ~st.eof) => h.packets # {}
<1>1. PICK first : first = IF st.status = "New" THEN ReadSyn(s, st) ELSE [packets |-> {}, st |-> st]
  OBVIOUS
<1>2. PICK c : c = Cardinality(first.packets)
  OBVIOUS
<1>3. /\ c \in Nat /\ c <= n /\ (st.status = "New" => c = 1) /\ (st.status # "New" => c = 0)
      /\ \E pos2 : Cuts(s, st, pos, first, pos2)
  <2>1. CASE st.status = "New"
    <3>1. first = ReadSyn(s, st)
      BY <1>1, <2>1
    <3>2. Cardinality(ReadSyn(s, st).packets) = 1 /\ \E pos2 : Cuts(s, st, pos, ReadSyn(s, st), pos2)
      BY <2>1, ReadSynCuts
    <3>3. c = 1
      BY <1>2, <3>1, <3>2
    <3> QED
      BY <2>1, <3>1, <3>2, <3>3
  <2>2. CASE st.status # "New"
    <3>1. first = [packets |-> {}, st |-> st]
      BY <1>1, <2>2
    <3>2. c = 0
      BY <1>2, <3>1, FS_EmptySet
    <3>3. Cuts(s, st, pos, first, pos)
      BY <2>2, <3>1, CutsRefl
    <3> QED
      BY <2>2, <3>2, <3>3
  <2> QED
    BY <2>1, <2>2
<1>4. PICK pos2 : Cuts(s, st, pos, first, pos2)
  BY <1>3
<1>5. PICK q : q = first.st
  OBVIOUS
<1>6. Sends(s, q, pos2) /\ q.status # "New" /\ q.last = st.last /\ q.peer = st.peer
  <2>1. st.status # "New" => q.status = st.status
    BY <1>4, <1>5 DEF Cuts
  <2>2. st.status = "New" => q.status = "Open"
    BY <1>4, <1>5 DEF Cuts
  <2> QED
    BY <1>4, <1>5, <2>1, <2>2 DEF Cuts
<1>7. PICK m \in Int : m = n - c /\ m >= 0 /\ (c = 0 => m > 0)
  <2>1. n - c \in Int /\ n - c >= 0 /\ (c = 0 => n - c > 0)
    BY <1>3
  <2> QED
    BY <2>1
<1>8. PICK g : /\ g = ReadFollowOn(s, q, m, q.last < 0)
               /\ \E pos3 : Cuts(s, q, pos2, g, pos3)
               /\ m >= 0 => Cardinality(g.packets) <= m
               /\ m > 0 /\ q.peer # NoID /\ ~q.eof => g.packets # {}
  BY <1>6, <1>7, ReadFollowOnCuts
<1>9. PICK pos3 : Cuts(s, q, pos2, g, pos3)
  BY <1>8
<1>10. PICK h : h = [packets |-> first.packets \cup g.packets, st |-> g.st]
  OBVIOUS
<1>11. h = ReadAll(s, st, n)
  BY <1>1, <1>2, <1>5, <1>6, <1>7, <1>8, <1>10, Zenon DEF ReadAll
<1>12. Cuts(s, st, pos, h, pos3)
  <2>1. st \in StreamType
    BY SendsFacts
  <2>2. Cuts(s, first.st, pos2, g, pos3)
    BY <1>5, <1>9
  <2> QED
    BY <1>4, <1>10, <2>1, <2>2, CutsTrans
<1>13. Cardinality(h.packets) <= n
  <2>1. IsFiniteSet(first.packets) /\ IsFiniteSet(g.packets)
    BY <1>4, <1>9 DEF Cuts
  <2>2. Cardinality(first.packets \cup g.packets) =
          Cardinality(first.packets) + Cardinality(g.packets) - Cardinality(first.packets \cap g.packets)
    BY <2>1, FS_Union
  <2>3. PICK x \in Nat, y \in Nat : x = Cardinality(g.packets) /\ y = Cardinality(first.packets \cap g.packets)
    <3>1. IsFiniteSet(first.packets \cap g.packets)
      BY <2>1, FS_Intersection
    <3> QED
      BY <2>1, <3>1, FS_CardinalityType
  <2>4. x <= m
    BY <1>7, <1>8, <2>3
  <2>5. Cardinality(h.packets) = c + x - y
    BY <1>2, <1>10, <2>2, <2>3
  <2> QED
    BY <1>3, <1>7, <2>4, <2>5
<1>14. st.status = "New" \/ (st.peer # NoID /\ ~st.eof) => h.packets # {}
  <2>1. CASE st.status = "New"
    <3>1. Cardinality(first.packets) # 0
      BY <1>2, <1>3, <2>1
    <3>2. first.packets # {}
      BY <3>1, FS_EmptySet
    <3> QED
      BY <1>10, <3>2
  <2>2. CASE st.status # "New"
    <3>1. first = [packets |-> {}, st |-> st] /\ q = st /\ m > 0
      BY <1>1, <1>3, <1>5, <1>7, <2>2
    <3> QED
      BY <1>8, <1>10, <2>2, <3>1
  <2> QED
    BY <2>1, <2>2
<1> QED
  BY <1>11, <1>12, <1>13, <1>14, Zenon

-----------------------------------------------------------------------------
(* SendBuffer.                                                              *)

(* What is read and what is kept for resending.                             *)
ReadOf(f) == [f EXCEPT !.handler = @ /\ ~f.eof]

TrackedOf(st, read, packets) ==
  [read EXCEPT !.acks = 0, !.sent = @ \cup packets, !.out = @ \cup packets,
               !.resendSet = @ \/ st.sent = {}]

RoomLeft(st) == st.window - Cardinality(st.sent)

(* SendBuffer, by the room in the window and what it reads.                 *)
LEMMA SendBufferIs ==
  ASSUME NEW s, NEW st, NEW n, n = RoomLeft(st), NEW h, h = ReadAll(s, st, n),
         NEW read, read = ReadOf(h.st), NEW tracked, tracked = TrackedOf(st, read, h.packets)
  PROVE  SendBuffer(s, st) =
           IF n <= 0 THEN st
           ELSE IF h.packets = {} THEN read
           ELSE IF tracked.status = "Closing" /\ tracked.eof THEN SendClose(s, tracked)
           ELSE tracked
<1> DEFINE numMsgs == st.window - Cardinality(st.sent)
           first == IF st.status = "New" THEN ReadSyn(s, st) ELSE [packets |-> {}, st |-> st]
           rest == ReadFollowOn(s, first.st, numMsgs - Cardinality(first.packets), st.last < 0)
           packets == first.packets \cup rest.packets
           read0 == [rest.st EXCEPT !.handler = @ /\ ~rest.st.eof]
           tracked0 == [read0 EXCEPT !.acks = 0, !.sent = @ \cup packets, !.out = @ \cup packets,
                                     !.resendSet = @ \/ st.sent = {}]
<1>1. SendBuffer(s, st) =
           IF numMsgs <= 0 THEN st
           ELSE IF packets = {} THEN read0
           ELSE IF tracked0.status = "Closing" /\ tracked0.eof THEN SendClose(s, tracked0)
           ELSE tracked0
  BY DEF SendBuffer
<1>2. ReadAll(s, st, numMsgs) = [packets |-> packets, st |-> rest.st]
  BY DEF ReadAll
<1> HIDE DEF first, rest
<1>3. ReadAll(s, st, numMsgs).packets = packets /\ ReadAll(s, st, numMsgs).st = rest.st
  BY <1>2
<1>4. numMsgs = n
  BY Zenon DEF RoomLeft
<1> HIDE DEF numMsgs, packets
<1>5. h.packets = packets /\ h.st = rest.st
  BY <1>3, <1>4, Zenon
<1>6. read = read0
  BY <1>5, Zenon DEF ReadOf
<1> HIDE DEF read0
<1>7. tracked = tracked0
  BY <1>5, <1>6, Zenon DEF TrackedOf
<1> HIDE DEF tracked0
<1> QED
  BY <1>1, <1>4, <1>5, <1>6, <1>7, Zenon

(* At eof nothing is read.                                                  *)
LEMMA ReadNothing ==
  ASSUME NEW s, NEW st, st.status # "New", st.eof, NEW n, NEW h, h = ReadAll(s, st, n)
  PROVE  h.packets = {}
<1>1. PICK q : q = [packets |-> {}, st |-> st]
  OBVIOUS
<1>2. q.packets = {} /\ q.st = st
  BY <1>1
<1>3. \A k, b : ReadFollowOn(s, st, k, b).packets = {}
  <2> TAKE k, b
  <2>1. 1 .. 0 = {}
    OBVIOUS
  <2> QED
    BY <2>1 DEF ReadFollowOn
<1>4. h = [packets |-> q.packets \cup ReadFollowOn(s, q.st, n - Cardinality(q.packets), st.last < 0).packets,
           st |-> ReadFollowOn(s, q.st, n - Cardinality(q.packets), st.last < 0).st]
  BY <1>1, Zenon DEF ReadAll
<1>5. h.packets = q.packets \cup ReadFollowOn(s, q.st, n - Cardinality(q.packets), st.last < 0).packets
  BY <1>4
<1> QED
  BY <1>2, <1>3, <1>5

(* The handler is told once the buffer is empty.                            *)
LEMMA ReadKept ==
  ASSUME NEW s \in StreamIDs, NEW st, NEW pos, Sends(s, st, pos), NEW h, NEW pos2,
         Cuts(s, st, pos, h, pos2), NEW read, read = ReadOf(h.st)
  PROVE  /\ read \in StreamType
         /\ Sends(s, read, pos2)
         /\ read.seqn = h.st.seqn /\ read.posted = h.st.posted /\ read.eof = h.st.eof
         /\ read.status = h.st.status /\ read.sent = h.st.sent /\ read.inTable = h.st.inTable
         /\ read.written = h.st.written /\ read.peer = h.st.peer /\ read.closing = h.st.closing
         /\ read.last = h.st.last /\ read.delivered = h.st.delivered /\ read.buf = h.st.buf
         /\ read.saved = h.st.saved /\ read.out = h.st.out /\ read.window = h.st.window
         /\ read.acks = h.st.acks
         /\ h.packets = {} => Later(s, st, pos, read, pos2) /\ read.seqn = st.seqn
<1>1. PICK f : f = h.st
  OBVIOUS
<1>2. Sends(s, f, pos2)
  BY <1>1 DEF Cuts
<1>3. PICK e \in BOOLEAN : e = (f.handler /\ ~f.eof)
  BY <1>2, SendsFacts
<1>4. read = [f EXCEPT !.handler = e]
  BY <1>1, <1>3 DEF ReadOf
<1>5. f \in StreamType
  BY <1>2, SendsFacts
<1>6. /\ read \in StreamType
      /\ read.seqn = f.seqn /\ read.posted = f.posted /\ read.eof = f.eof
      /\ read.status = f.status /\ read.sent = f.sent /\ read.inTable = f.inTable
      /\ read.written = f.written /\ read.peer = f.peer /\ read.closing = f.closing
      /\ read.last = f.last /\ read.delivered = f.delivered /\ read.buf = f.buf
      /\ read.saved = f.saved /\ read.out = f.out /\ read.window = f.window /\ read.acks = f.acks
  BY <1>4, <1>5 DEF StreamType
<1>7. Own(read) = Own(f)
  BY <1>6 DEF PostedFin, Own
<1>11. f.status # "New"
  <2>1. f.status = (IF st.status = "New" THEN "Open" ELSE st.status)
    BY <1>1 DEF Cuts
  <2> QED
    BY <2>1
<1>8. Stages(s, read)
  BY <1>2, <1>6, <1>11 DEF Sends, Stages, PostedFin
<1>9. Sends(s, read, pos2)
  <2>1. /\ \A p \in Own(f) : OwnPacket(s, f.seqn, f.written, pos2, p)
        /\ \A p \in f.sent : p.seqn # 0 \/ p.syn
        /\ IsFiniteSet(f.sent) /\ Cardinality(f.sent) <= MAX_WINDOW_SIZE
        /\ IsFiniteSet(f.saved) /\ f.window >= 1 /\ f.window <= MAX_WINDOW_SIZE
    BY <1>2, SendsFacts
  <2> QED
    BY <1>2, <1>6, <1>7, <1>8, <2>1, SendsKept
<1>10. ASSUME h.packets = {}
       PROVE  Later(s, st, pos, read, pos2) /\ read.seqn = st.seqn
  <2>1. \A n \in Nat : ~(st.seqn <= n /\ n < f.seqn)
    BY <1>1, <1>10 DEF Cuts
  <2>2. PICK a \in Nat, b \in Nat : a = st.seqn /\ b = f.seqn
    <3>1. st.seqn \in Nat /\ f.seqn \in Nat
      BY <1>2, SendsFacts
    <3> QED
      BY <3>1
  <2>3. a <= b
    BY <1>1, <2>2 DEF Cuts
  <2>4. a = b
    BY <2>1, <2>2, <2>3
  <2>5. Own(f) = Own(st)
    BY <1>1 DEF Cuts, Own, PostedFin
  <2> QED
    BY <1>1, <1>6, <1>7, <1>9, <2>1, <2>2, <2>4, <2>5 DEF Cuts, Later
<1> QED
  BY <1>1, <1>6, <1>9, <1>10

Fits(st, packets) == Cardinality(st.sent \cup packets) <= MAX_WINDOW_SIZE

(* What was read is kept for resending.                                     *)
LEMMA TrackedLater ==
  ASSUME NEW s \in StreamIDs, NEW st, NEW pos, Sends(s, st, pos), NEW h, NEW pos2,
         Cuts(s, st, pos, h, pos2), NEW read, read = ReadOf(h.st),
         NEW tracked,
         tracked = TrackedOf(st, read, h.packets),
         h.packets # {}, st.status # "Closed", Fits(st, h.packets)
  PROVE  /\ Later(s, st, pos, tracked, pos2)
         /\ tracked.sent # {} /\ tracked.status = (IF st.status = "New" THEN "Open" ELSE st.status)
         /\ tracked.inTable = st.inTable /\ (st.eof => tracked.eof)
         /\ \A n \in Nat : st.seqn <= n /\ n < tracked.seqn => Tracked(tracked, n)
<1>1. PICK f : f = h.st
  OBVIOUS
<1>2. Sends(s, f, pos2) /\ f \in StreamType /\ st \in StreamType
  BY <1>1, SendsFacts DEF Cuts
<1>3. /\ read \in StreamType
      /\ read.seqn = f.seqn /\ read.posted = f.posted /\ read.eof = f.eof
      /\ read.status = f.status /\ read.sent = f.sent /\ read.inTable = f.inTable
      /\ read.written = f.written /\ read.peer = f.peer /\ read.closing = f.closing
      /\ read.last = f.last /\ read.delivered = f.delivered /\ read.buf = f.buf
      /\ read.saved = f.saved /\ read.out = f.out /\ read.window = f.window
      /\ read.acks = f.acks
  BY <1>1, ReadKept
<1>4. f.sent = st.sent /\ f.out = st.out /\ f.posted = st.posted /\ h.packets \subseteq PacketType
  BY <1>1 DEF Cuts
<1>5. PICK S \in SUBSET PacketType, T \in SUBSET PacketType, e \in BOOLEAN :
        /\ S = read.sent \cup h.packets /\ T = read.out \cup h.packets
        /\ e = (read.resendSet \/ st.sent = {})
  BY <1>3, <1>4 DEF StreamType
<1>17. PICK x \in Int : x = 0
  OBVIOUS
<1>6. tracked = [read EXCEPT !.acks = x, !.sent = S, !.out = T, !.resendSet = e]
  BY <1>5, <1>17 DEF TrackedOf
<1>7. /\ tracked \in StreamType
         /\ tracked.seqn = read.seqn /\ tracked.posted = read.posted /\ tracked.eof = read.eof
         /\ tracked.status = read.status /\ tracked.sent = S /\ tracked.inTable = read.inTable
         /\ tracked.written = read.written /\ tracked.peer = read.peer
         /\ tracked.closing = read.closing /\ tracked.last = read.last
         /\ tracked.delivered = read.delivered /\ tracked.buf = read.buf
         /\ tracked.saved = read.saved /\ tracked.out = T /\ tracked.window = read.window
         /\ tracked.acks = x
  <2>3. x \in Int
    BY <1>17
  <2>2. read \in StreamType
    BY <1>3
  <2>1. S \in SUBSET PacketType /\ T \in SUBSET PacketType /\ e \in BOOLEAN
    BY <1>5
  <2> QED
    BY <1>6, <2>1, <2>2, <2>3 DEF StreamType
<1>8. \A p \in Own(tracked) : p \in Own(st) \/ p \in h.packets
  BY <1>3, <1>4, <1>5, <1>7 DEF PostedFin, Own
<1>9. f.status = (IF st.status = "New" THEN "Open" ELSE st.status) /\ f.status # "New"
      /\ f.status # "Closed"
  <2>1. f.status = (IF st.status = "New" THEN "Open" ELSE st.status)
    BY <1>1 DEF Cuts
  <2> QED
    BY <2>1
<1>10. Stages(s, tracked)
  <2>1. /\ f.status # "New" => f.seqn >= 1
        /\ s # Outgoing => f.peer = Outgoing
        /\ (\E p \in PacketType : PostedFin(f, p)) => f.status \in {"Reset", "Closing", "Closed"}
        /\ f.status = "Closing" => f.closing
    BY <1>2 DEF Sends, Stages
  <2>2. \A p : PostedFin(f, p) <=> PostedFin(tracked, p)
    BY <1>3, <1>7 DEF PostedFin
  <2> QED
    BY <1>3, <1>7, <1>9, <2>1, <2>2 DEF Stages
<1>11. \A p \in h.packets : Fresh(st, p) /\ (p.seqn # 0 \/ p.syn) /\ OwnPacket(s, f.seqn, f.written, pos2, p)
  BY <1>1 DEF Cuts
<1>12. \A p \in Own(st) : OwnPacket(s, f.seqn, f.written, pos2, p)
  <2>1. PICK a \in Nat, b \in Nat : a = st.seqn /\ b = f.seqn
    <3>1. st.seqn \in Nat /\ f.seqn \in Nat
      BY <1>2, SendsFacts
    <3> QED
      BY <3>1
  <2>2. a <= b /\ (\A i \in Nat : i <= a => pos2[i] = pos[i]) /\ f.written = st.written
    BY <1>1, <2>1 DEF Cuts
  <2>3. \A p \in Own(st) : p \in PacketType /\ OwnPacket(s, a, st.written, pos, p)
    BY <2>1, SendsFacts
  <2> QED
    BY <2>1, <2>2, <2>3, OwnLater
<1>13. S = st.sent \cup h.packets
  BY <1>3, <1>4, <1>5
<1>14. Sends(s, tracked, pos2)
  <2>1. \A p \in Own(tracked) : OwnPacket(s, f.seqn, f.written, pos2, p)
    BY <1>8, <1>11, <1>12
  <2>2. \A p \in tracked.sent : p.seqn # 0 \/ p.syn
    <3>1. \A p \in st.sent : p.seqn # 0 \/ p.syn
      BY SendsFacts
    <3> QED
      BY <1>7, <1>11, <1>13, <3>1
  <2>3. IsFiniteSet(tracked.sent) /\ Cardinality(tracked.sent) <= MAX_WINDOW_SIZE
    <3>1. IsFiniteSet(st.sent) /\ IsFiniteSet(h.packets)
      BY SendsFacts DEF Cuts
    <3>2. IsFiniteSet(st.sent \cup h.packets)
      BY <3>1, FS_Union
    <3> QED
      BY <1>7, <1>13, <3>2 DEF Fits
  <2>4. IsFiniteSet(f.saved) /\ f.window >= 1 /\ f.window <= MAX_WINDOW_SIZE
    BY <1>2, SendsFacts
  <2> QED
    BY <1>2, <1>3, <1>7, <1>10, <2>1, <2>2, <2>3, <2>4, SendsKept
<1>15. \A n \in Nat : st.seqn <= n /\ n < tracked.seqn => Tracked(tracked, n)
  BY <1>1, <1>3, <1>7, <1>13 DEF Cuts, Tracked
<1>16. Later(s, st, pos, tracked, pos2)
  BY <1>1, <1>3, <1>7, <1>8, <1>11, <1>13, <1>14, <1>15 DEF Cuts, Later
<1> QED
  BY <1>1, <1>3, <1>7, <1>9, <1>13, <1>15, <1>16 DEF Cuts

(* A stream that does not know its peer keeps its SYN.                      *)
Waiting(st) == st.status \in {"Open", "Closing"} /\ st.peer = NoID => st.sent # {}

(* The room in the window.                                                  *)
LEMMA Room ==
  ASSUME NEW s, NEW st, NEW pos, Sends(s, st, pos)
  PROVE  \E n \in Int : /\ n = RoomLeft(st)
                        /\ n <= 0 => st.sent # {}
                        /\ \A P : IsFiniteSet(P) /\ Cardinality(P) <= n => Fits(st, P)
<1>1. IsFiniteSet(st.sent) /\ st.window \in Nat /\ st.window >= 1 /\ st.window <= MAX_WINDOW_SIZE
  BY SendsFacts
<1>2. PICK w \in Nat, c \in Nat : w = st.window /\ c = Cardinality(st.sent)
  BY <1>1, FS_CardinalityType
<1>3. w - c \in Int /\ (w - c <= 0 => c # 0)
  BY <1>1, <1>2
<1>4. w - c <= 0 => st.sent # {}
  BY <1>2, <1>3, FS_EmptySet
<1>5. ASSUME NEW P, IsFiniteSet(P), Cardinality(P) <= w - c
      PROVE  Fits(st, P)
  <2>1. Cardinality(st.sent \cup P) =
          Cardinality(st.sent) + Cardinality(P) - Cardinality(st.sent \cap P)
    BY <1>1, <1>5, FS_Union
  <2>2. PICK x \in Nat, y \in Nat : x = Cardinality(P) /\ y = Cardinality(st.sent \cap P)
    <3>1. IsFiniteSet(st.sent \cap P)
      BY <1>1, FS_Intersection
    <3> QED
      BY <1>5, <3>1, FS_CardinalityType
  <2>3. x <= w - c
    BY <1>5, <2>2
  <2>4. Cardinality(st.sent \cup P) = c + x - y
    BY <1>2, <2>1, <2>2
  <2>5. c + x - y <= w
    BY <2>3
  <2>6. MAX_WINDOW_SIZE \in Nat
    BY ConstantsAssumption
  <2>7. c + x - y <= MAX_WINDOW_SIZE
    BY <1>1, <1>2, <2>5, <2>6
  <2> QED
    BY <2>4, <2>7 DEF Fits
<1> QED
  BY <1>2, <1>3, <1>4, <1>5 DEF RoomLeft

(* SendBuffer sends what is new and leaves nothing unwatched.               *)
LEMMA SendBufferLater ==
  ASSUME NEW s \in StreamIDs, NEW st, NEW pos, Sends(s, st, pos), Waiting(st),
         NEW r, r = SendBuffer(s, st)
  PROVE  /\ \E pos2 : Later(s, st, pos, r, pos2)
         /\ st.status # "New" => Waits(r) /\ r.status = st.status
         /\ st.status = "New" => r.status = "Open" /\ r.sent # {}
         /\ Numbers(st, r) /\ r.inTable = st.inTable
<1>1. PICK n \in Int : /\ n = RoomLeft(st)
                       /\ n <= 0 => st.sent # {}
                       /\ \A P : IsFiniteSet(P) /\ Cardinality(P) <= n => Fits(st, P)
  BY Room
<1>2. PICK h : h = ReadAll(s, st, n)
  OBVIOUS
<1>3. PICK read : read = ReadOf(h.st)
  OBVIOUS
<1>4. PICK tracked : tracked = TrackedOf(st, read, h.packets)
  OBVIOUS
<1>5. r = IF n <= 0 THEN st
          ELSE IF h.packets = {} THEN read
          ELSE IF tracked.status = "Closing" /\ tracked.eof THEN SendClose(s, tracked)
          ELSE tracked
  <2>3. SendBuffer(s, st) =
           IF n <= 0 THEN st
           ELSE IF h.packets = {} THEN read
           ELSE IF tracked.status = "Closing" /\ tracked.eof THEN SendClose(s, tracked)
           ELSE tracked
    <3>1. n = RoomLeft(st)
      BY <1>1
    <3> QED
      BY <1>2, <1>3, <1>4, <3>1, SendBufferIs
  <2> QED
    BY <2>3
<1>6. st.status = "New" => st.sent = {}
  BY DEF Sends, Stages
<1>7. CASE n <= 0
  <2>1. r = st /\ st.sent # {}
    BY <1>1, <1>5, <1>7
  <2>2. Later(s, st, pos, r, pos)
    BY <2>1, LaterRefl
  <2>3. Numbers(st, r)
    BY <2>1, NoNumbers
  <2> QED
    BY <1>6, <2>1, <2>2, <2>3 DEF Waits
<1>8. CASE ~(n <= 0)
  <2>1. n \in Nat /\ n >= 1
    BY <1>8
  <2>2. PICK pos2 : Cuts(s, st, pos, h, pos2)
    BY <1>2, <2>1, ReadAllCuts, Zenon
  <2>3. /\ Cardinality(h.packets) <= n
        /\ st.status = "New" \/ (st.peer # NoID /\ ~st.eof) => h.packets # {}
    BY <1>2, <2>1, ReadAllCuts, Zenon
  <2>4. h.packets # {} => ~(st.status = "Closing" /\ st.eof) /\ st.status # "Closed"
    <3>1. st.eof /\ st.status # "New" => h.packets = {}
      BY <1>2, ReadNothing, Zenon
    <3>2. st.status = "Closed" => st.eof
      BY DEF Sends, Stages
    <3> QED
      BY <3>1, <3>2
  <2>5. CASE h.packets = {}
    <3>1. r = read
      BY <1>5, <1>8, <2>5
    <3>2. /\ Later(s, st, pos, r, pos2) /\ r.seqn = st.seqn
          /\ r.status = h.st.status /\ r.sent = h.st.sent /\ r.eof = h.st.eof
          /\ r.inTable = h.st.inTable /\ r.peer = h.st.peer
      BY <1>3, <2>2, <2>5, <3>1, ReadKept
    <3>3. st.status # "New" /\ (st.peer = NoID \/ st.eof)
      BY <2>3, <2>5
    <3>4. /\ r.status = st.status /\ r.sent = st.sent /\ (st.eof => r.eof)
          /\ r.inTable = st.inTable /\ r.peer = st.peer
      BY <2>2, <3>2, <3>3 DEF Cuts
    <3>5. Waits(r)
      BY <3>3, <3>4 DEF Waits, Waiting
    <3>6. Numbers(st, r)
      BY <3>2, <3>4, NoNumbers
    <3> QED
      BY <3>2, <3>3, <3>4, <3>5, <3>6
  <2>6. CASE h.packets # {}
    <3>1. Fits(st, h.packets)
      BY <1>1, <2>2, <2>3 DEF Cuts
    <3>2. /\ Later(s, st, pos, tracked, pos2)
         /\ tracked.sent # {} /\ tracked.status = (IF st.status = "New" THEN "Open" ELSE st.status)
         /\ tracked.inTable = st.inTable /\ (st.eof => tracked.eof)
         /\ \A k \in Nat : st.seqn <= k /\ k < tracked.seqn => Tracked(tracked, k)
      BY <1>3, <1>4, <2>2, <2>4, <2>6, <3>1, TrackedLater
    <3>3. CASE tracked.status = "Closing" /\ tracked.eof
      <4>1. r = SendClose(s, tracked)
        BY <1>5, <1>8, <2>6, <3>3
      <4>2. Sends(s, tracked, pos2) /\ st.status = "Closing" /\ ~st.eof
        BY <2>4, <2>6, <3>2, <3>3 DEF Later
      <4>3. /\ \E pos3 : Later(s, tracked, pos2, r, pos3)
            /\ r.status = tracked.status /\ r.sent = tracked.sent /\ r.eof = tracked.eof
            /\ r.inTable = tracked.inTable
            /\ r.seqn = tracked.seqn + 1
        <5>1. tracked.status # "New" /\ tracked.status # "Open"
          BY <3>3
        <5>2. /\ \E pos3 : Later(s, tracked, pos2, SendClose(s, tracked), pos3)
              /\ SendClose(s, tracked).status = tracked.status
              /\ SendClose(s, tracked).sent = tracked.sent
              /\ SendClose(s, tracked).eof = tracked.eof
              /\ SendClose(s, tracked).inTable = tracked.inTable
              /\ SendClose(s, tracked).seqn = tracked.seqn + 1
          BY <4>2, <5>1, SendCloseLater, Zenon
        <5> QED
          BY <4>1, <5>2
      <4>4. \E pos3 : Later(s, st, pos, r, pos3)
        BY <3>2, <4>3, LaterTrans
      <4>5. ASSUME NEW k \in Nat, st.seqn <= k, k < r.seqn
            PROVE  Tracked(r, k) \/ (r.status = "Closing" /\ r.eof /\ k + 1 = r.seqn)
        <5>1. PICK m \in Nat : m = tracked.seqn
          BY <4>2, SendsFacts
        <5>2. k < m \/ k = m
          BY <4>3, <4>5, <5>1
        <5>3. CASE k < m
          BY <3>2, <4>3, <4>5, <5>1, <5>3 DEF Tracked
        <5>4. CASE k = m
          BY <3>3, <4>3, <5>1, <5>4
        <5> QED
          BY <5>2, <5>3, <5>4
      <4>6. Numbers(st, r)
        BY <4>2, <4>5 DEF Numbers
      <4> QED
        BY <3>2, <4>2, <4>3, <4>4, <4>6 DEF Waits
    <3>4. CASE ~(tracked.status = "Closing" /\ tracked.eof)
      <4>1. r = tracked
        BY <1>5, <1>8, <2>6, <3>4
      <4>2. Numbers(st, r)
        BY <2>4, <2>6, <3>2, <4>1 DEF Numbers
      <4> QED
        BY <3>2, <4>1, <4>2 DEF Waits
    <3> QED
      BY <3>3, <3>4
  <2> QED
    BY <2>5, <2>6
<1> QED
  BY <1>7, <1>8

(* A stream that does not know its peer yet sends one SYN, no more.         *)
Short(st, r) ==
  r.inTable /\ st.peer = NoID => r.seqn = st.seqn \/ (st.seqn = 0 /\ r.seqn = 1)

(* Nothing but the SYN is read before the peer is known.                    *)
LEMMA ReadNoMore ==
  ASSUME NEW s, NEW st, st.seqn \in Nat, st.peer = NoID, st \in StreamType, NEW k, NEW b
  PROVE  /\ ReadFollowOn(s, st, k, b).packets = {}
         /\ ReadFollowOn(s, st, k, b).st.seqn = st.seqn
<1>1. 1 .. 0 = {}
  OBVIOUS
<1>2. ReadFollowOn(s, st, k, b).packets = {}
  BY <1>1 DEF ReadFollowOn, IsEstablished
<1>3. PICK o \in Nat : o = 0
  OBVIOUS
<1>4. PICK x, y : ReadFollowOn(s, st, k, b).st = [st EXCEPT !.seqn = @ + o, !.buf = x, !.eof = y]
  BY <1>3 DEF ReadFollowOn, IsEstablished
<1>5. ReadFollowOn(s, st, k, b).st.seqn = st.seqn + o
  BY <1>4 DEF StreamType
<1> QED
  BY <1>2, <1>3, <1>5

(* The same for what SendBuffer reads.                                      *)
LEMMA ReadAllShort ==
  ASSUME NEW s \in StreamIDs, NEW st, NEW pos, Sends(s, st, pos), st.peer = NoID, NEW n
  PROVE  /\ st.status = "New" => ReadAll(s, st, n).st.seqn = 1 /\ st.seqn = 0
         /\ st.status # "New" => ReadAll(s, st, n).packets = {}
<1>1. PICK first : first = IF st.status = "New" THEN ReadSyn(s, st) ELSE [packets |-> {}, st |-> st]
  OBVIOUS
<1>2. PICK k, b : k = n - Cardinality(first.packets) /\ b = (st.last < 0)
  OBVIOUS
<1>3. ReadAll(s, st, n) = [packets |-> first.packets \cup ReadFollowOn(s, first.st, k, b).packets,
                           st |-> ReadFollowOn(s, first.st, k, b).st]
  BY <1>1, <1>2, Zenon DEF ReadAll
<1>4. /\ ReadAll(s, st, n).packets = first.packets \cup ReadFollowOn(s, first.st, k, b).packets
      /\ ReadAll(s, st, n).st = ReadFollowOn(s, first.st, k, b).st
  BY <1>3
<1>5. st \in StreamType /\ st.seqn \in Nat
  BY SendsFacts
<1>6. CASE st.status = "New"
  <2>1. first = ReadSyn(s, st)
    BY <1>1, <1>6
  <2>2. PICK pos2 : Cuts(s, st, pos, first, pos2)
    BY <1>6, <2>1, ReadSynCuts
  <2>3. first.st \in StreamType /\ first.st.peer = NoID /\ first.st.seqn \in Nat
    BY <2>2, SendsFacts DEF Cuts
  <2>4. st.seqn = 0
    BY <1>6 DEF Sends, Stages
  <2>5. first.st.seqn = 1
    <3>1. PICK o \in Nat : o = 1
      OBVIOUS
    <3>2. PICK x, y, z : first.st = [st EXCEPT !.status = x, !.seqn = @ + o, !.buf = y, !.eof = z]
      BY <2>1, <3>1 DEF ReadSyn
    <3>3. first.st.seqn = st.seqn + o
      BY <1>5, <3>2 DEF StreamType
    <3> QED
      BY <2>4, <3>1, <3>3
  <2> QED
    BY <1>4, <1>6, <2>3, <2>4, <2>5, ReadNoMore
<1>7. CASE st.status # "New"
  <2>1. first = [packets |-> {}, st |-> st]
    BY <1>1, <1>7
  <2>2. first.packets = {} /\ first.st = st
    BY <2>1
  <2> QED
    BY <1>4, <1>5, <1>7, <2>2, ReadNoMore
<1> QED
  BY <1>6, <1>7

(* Before the peer is known no number but that of the SYN is used.          *)
LEMMA SendBufferShort ==
  ASSUME NEW s \in StreamIDs, NEW st, NEW pos, Sends(s, st, pos)
  PROVE  Short(st, SendBuffer(s, st))
<1> SUFFICES ASSUME st.peer = NoID
             PROVE  Short(st, SendBuffer(s, st))
  BY DEF Short
<1>1. PICK n \in Int : n = RoomLeft(st)
  BY Room
<1>2. PICK h : h = ReadAll(s, st, n)
  OBVIOUS
<1>3. PICK read : read = ReadOf(h.st)
  OBVIOUS
<1>4. PICK tracked : tracked = TrackedOf(st, read, h.packets)
  OBVIOUS
<1>5. SendBuffer(s, st) = IF n <= 0 THEN st
          ELSE IF h.packets = {} THEN read
          ELSE IF tracked.status = "Closing" /\ tracked.eof THEN SendClose(s, tracked)
          ELSE tracked
  BY <1>1, <1>2, <1>3, <1>4, SendBufferIs
<1>6. CASE n <= 0
  BY <1>5, <1>6 DEF Short
<1>7. CASE ~(n <= 0)
  <2>1. n \in Nat /\ n >= 1
    BY <1>7
  <2>2. PICK pos2 : Cuts(s, st, pos, h, pos2)
    BY <1>2, <2>1, ReadAllCuts, Zenon
  <2>3. /\ read.seqn = h.st.seqn
        /\ h.packets = {} => read.seqn = st.seqn
    BY <1>3, <2>2, ReadKept
  <2>4. CASE h.packets = {}
    BY <1>5, <1>7, <2>3, <2>4 DEF Short
  <2>5. CASE h.packets # {}
    <3>1. st.status = "New" /\ st.seqn = 0 /\ h.st.seqn = 1
      BY <1>2, <2>5, ReadAllShort
    <3>2. Fits(st, h.packets)
      <4>1. /\ \A P : IsFiniteSet(P) /\ Cardinality(P) <= n => Fits(st, P)
        BY <1>1, Room
      <4>2. Cardinality(h.packets) <= n
        BY <1>2, <2>1, ReadAllCuts, Zenon
      <4> QED
        BY <2>2, <4>1, <4>2 DEF Cuts
    <3>3. tracked.status = (IF st.status = "New" THEN "Open" ELSE st.status)
      BY <1>3, <1>4, <2>2, <2>5, <3>1, <3>2, TrackedLater
    <3>4. SendBuffer(s, st) = tracked
      BY <1>5, <1>7, <2>5, <3>1, <3>3
    <3>5. read \in StreamType
      BY <1>3, <2>2, ReadKept
    <3>6. tracked.seqn = read.seqn
      BY <1>4, <3>5 DEF TrackedOf, StreamType
    <3> QED
      BY <2>3, <3>1, <3>4, <3>6 DEF Short
  <2> QED
    BY <2>4, <2>5
<1> QED
  BY <1>6, <1>7

-----------------------------------------------------------------------------
(* SendQuickAck, which names what is missing.                               *)

(* A finite set of numbers has a greatest one: one that fewest exceed.      *)
Above(T, x) == {y \in T : y > x}

(* A finite set of numbers has a greatest one.                              *)
LEMMA FiniteMax ==
  ASSUME NEW T \in SUBSET Int, IsFiniteSet(T), T # {}
  PROVE  Max(T) \in T /\ Max(T) \in Int /\ \A y \in T : y <= Max(T)
<1> DEFINE C == {Cardinality(Above(T, x)) : x \in T}
<1>1. \A x : IsFiniteSet(Above(T, x))
  BY FS_Subset DEF Above
<1>2. \A x : Cardinality(Above(T, x)) \in Nat
  BY <1>1, FS_CardinalityType
<1>3. C \subseteq Nat /\ C # {}
  BY <1>2
<1>4. PICK c \in C : \A d \in C : c <= d
  <2> HIDE DEF C
  <2> QED
    BY <1>3, NatMin
<1>5. PICK x \in T : c = Cardinality(Above(T, x))
  BY <1>4
<1>6. ASSUME NEW y \in T, y > x
      PROVE  FALSE
  <2>1. PICK d : d = Cardinality(Above(T, y))
    OBVIOUS
  <2>2. d \in C /\ d \in Nat /\ c \in Nat
    BY <1>2, <1>3, <2>1
  <2>3. c <= d
    BY <1>4, <2>2
  <2>4. Above(T, y) \subseteq Above(T, x) /\ y \in Above(T, x) /\ y \notin Above(T, y)
    BY <1>5, <1>6 DEF Above
  <2>5. d <= c /\ (c = d => Above(T, x) = Above(T, y))
    BY <1>1, <1>5, <2>1, <2>4, FS_Subset
  <2>6. c = d
    BY <2>2, <2>3, <2>5
  <2> QED
    BY <2>4, <2>5, <2>6
<1>7. x \in Int /\ \A y \in T : y \in Int
  BY <1>5
<1>8. \A y \in T : x >= y
  BY <1>6, <1>7
<1>9. \E m \in T : \A y \in T : m >= y
  BY <1>5, <1>8
<1>10. Max(T) \in T /\ \A y \in T : Max(T) >= y
  BY <1>9 DEF Max
<1>11. Max(T) \in Int
  BY <1>7, <1>10
<1>12. \A y \in T : y <= Max(T)
  BY <1>7, <1>10, <1>11
<1> QED
  BY <1>10, <1>11, <1>12

(* The numbers of the packets saved.                                        *)
Saved(st) == {p.seqn : p \in st.saved}

(* The numbers of the packets saved are finitely many.                      *)
LEMMA SavedFinite ==
  ASSUME NEW st \in StreamType, IsFiniteSet(st.saved)
  PROVE  Saved(st) \subseteq Nat /\ IsFiniteSet(Saved(st))
<1>1. \A p \in st.saved : p.seqn \in Nat
  BY DEF StreamType, PacketType
<1>2. PICK S, T : S = st.saved /\ T = Saved(st) /\ T = {p.seqn : p \in S}
  BY DEF Saved
<1>3. PICK g : g = [p \in S |-> p.seqn]
  OBVIOUS
<1>4. g \in Surjection(S, T)
  BY <1>2, <1>3 DEF Surjection
<1>5. IsFiniteSet(T)
  BY <1>2, <1>4, FS_Surjection
<1> QED
  BY <1>1, <1>2, <1>5

(* What p acknowledges, st has received.                                    *)
AckHeld(st, p) == ~p.noAck => (0 .. p.ack) \ p.nacks \subseteq Has(st)

(* An ack of all that is saved names fewer than MaxNacks packets.           *)
FewMissing(st) == \A n \in Saved(st) : Cardinality(Missing(st, n)) < MaxNacks

(* SendQuickAck changes nothing but what is sent.                           *)
LEMMA QuickFacts ==
  ASSUME NEW s \in StreamIDs, NEW st, NEW pos, Sends(s, st, pos),
         NEW r, r = SendQuickAck(s, st)
  PROVE  /\ Sends(s, r, pos)
         /\ r.seqn = st.seqn /\ r.posted = st.posted /\ r.eof = st.eof
         /\ r.status = st.status /\ r.sent = st.sent /\ r.inTable = st.inTable
         /\ r.written = st.written /\ r.peer = st.peer /\ r.closing = st.closing
         /\ r.last = st.last /\ r.delivered = st.delivered /\ r.saved = st.saved
         /\ \A p \in Own(r) :
              p \in Own(st) \/ (p.seqn = 0 /\ (FewMissing(st) => AckHeld(st, p)))
<1> DEFINE high == Max(Saved(st) \cup {st.last})
           fit == {n \in Saved(st) : Cardinality(Missing(st, n)) < MaxNacks}
           cut == Max(fit \cup {st.last})
           ack == IF fit = Saved(st) THEN high ELSE cut + 1
           quick == [Packet(s, st, 0, ack) EXCEPT !.nacks = Missing(st, cut)]
<1>1. r = IF high < 0 THEN st ELSE [st EXCEPT !.out = @ \cup {quick}]
  BY DEF SendQuickAck, Saved
<1>2. st \in StreamType /\ st.last \in Int /\ IsFiniteSet(st.saved) /\ st.peer \in Nat
  BY SendsFacts
<1>3. Saved(st) \subseteq Nat /\ IsFiniteSet(Saved(st))
  BY <1>2, SavedFinite
<1>4. high \in Int /\ (\A n \in Saved(st) : n <= high) /\ st.last <= high
  <2>1. IsFiniteSet(Saved(st) \cup {st.last})
    BY <1>3, FS_AddElement
  <2>2. Saved(st) \cup {st.last} \in SUBSET Int
    BY <1>2, <1>3
  <2> QED
    BY <2>1, <2>2, FiniteMax
<1>5. cut \in Int
  <2>1. fit \subseteq Saved(st)
    OBVIOUS
  <2> HIDE DEF fit
  <2>2. IsFiniteSet(fit)
    BY <1>3, <2>1, FS_Subset
  <2>3. IsFiniteSet(fit \cup {st.last})
    BY <2>2, FS_AddElement
  <2>4. fit \cup {st.last} \in SUBSET Int
    BY <1>2, <1>3, <2>1
  <2> QED
    BY <2>3, <2>4, FiniteMax
<1>6. FewMissing(st) => fit = Saved(st) /\ cut = high /\ ack = high
  BY DEF FewMissing
<1> HIDE DEF high, fit, cut
<1>7. ack \in Int
  BY <1>4, <1>5
<1> HIDE DEF ack
<1>8. Missing(st, cut) \in SUBSET Int
  BY <1>2, <1>5 DEF Missing
<1>9. quick \in PacketType
  BY <1>2, <1>7, <1>8, PacketOK
<1>10. /\ quick.from = s /\ quick.to = st.peer /\ quick.seqn = 0 /\ ~quick.syn
       /\ quick.ack = ack /\ quick.nacks = Missing(st, cut)
  BY DEF Packet
<1> HIDE DEF quick
<1>11. FewMissing(st) => AckHeld(st, quick)
  <2>1. ASSUME NEW k \in 0 .. high, k \notin Missing(st, high)
        PROVE  k \in Has(st)
    <3>1. PICK l \in Int, h \in Int : l = st.last /\ h = high
      BY <1>2, <1>4
    <3>2. Missing(st, high) = (l + 1 .. h) \ Saved(st)
      BY <3>1 DEF Missing, Saved
    <3>3. k \in Int /\ 0 <= k /\ k <= h
      BY <2>1, <3>1, <1>4
    <3>4. k <= l \/ k \in l + 1 .. h
      BY <3>1, <3>3
    <3>5. Has(st) = 0 .. l \cup Saved(st)
      BY <3>1 DEF Has, Saved
    <3> QED
      BY <2>1, <3>2, <3>3, <3>4, <3>5
  <2> QED
    BY <1>6, <1>10, <2>1 DEF AckHeld
<1>12. CASE high < 0
  BY <1>1, <1>12
<1>13. CASE ~(high < 0)
  <2>1. PICK T \in SUBSET PacketType : T = st.out \cup {quick}
    <3>1. st.out \subseteq PacketType
      BY <1>2 DEF StreamType
    <3> QED
      BY <1>9, <3>1
  <2>2. r = [st EXCEPT !.out = T]
    BY <1>1, <1>13, <2>1
  <2>3. T \in SUBSET PacketType
    BY <2>1
  <2>4. /\ r \in StreamType
        /\ r.seqn = st.seqn /\ r.posted = st.posted /\ r.eof = st.eof
        /\ r.status = st.status /\ r.sent = st.sent /\ r.inTable = st.inTable
        /\ r.written = st.written /\ r.peer = st.peer /\ r.closing = st.closing
        /\ r.last = st.last /\ r.delivered = st.delivered /\ r.saved = st.saved
        /\ r.buf = st.buf /\ r.window = st.window /\ r.acks = st.acks /\ r.out = T
        /\ r.resendSet = st.resendSet
    BY <1>2, <2>2, <2>3 DEF StreamType
  <2>5. \A p \in Own(r) : p \in Own(st) \/ p = quick
    BY <2>1, <2>4 DEF Own, PostedFin
  <2>6. OwnPacket(s, st.seqn, st.written, pos, quick)
    <3>1. s # Outgoing => st.peer = Outgoing
      BY DEF Sends, Stages
    <3> QED
      BY <1>10, <3>1 DEF OwnPacket
  <2>7. Stages(s, r)
    BY <2>4 DEF Sends, Stages, PostedFin
  <2>8. Sends(s, r, pos)
    <3>1. /\ \A p \in st.sent : p.seqn # 0 \/ p.syn
          /\ IsFiniteSet(st.sent) /\ Cardinality(st.sent) <= MAX_WINDOW_SIZE
          /\ IsFiniteSet(st.saved) /\ st.window >= 1 /\ st.window <= MAX_WINDOW_SIZE
      BY SendsFacts
    <3>2. \A p \in Own(r) : p \in Own(st) \/ OwnPacket(s, st.seqn, st.written, pos, p)
      BY <2>5, <2>6
    <3> QED
      BY <2>4, <2>7, <3>1, <3>2, SendsKept
  <2> QED
    BY <1>10, <1>11, <2>4, <2>5, <2>8
<1> QED
  BY <1>12, <1>13

-----------------------------------------------------------------------------
(* The tasks of the service, the application and the timers.                *)

WindowOK(st) == st.window >= 1 /\ st.window <= MAX_WINDOW_SIZE

(* A record that differs in its timers, its window or what it sends again.  *)
LEMMA SameLater ==
  ASSUME NEW s \in StreamIDs, NEW st, NEW pos, Sends(s, st, pos), NEW r \in StreamType,
         r.seqn = st.seqn, r.written = st.written, r.buf = st.buf, r.eof = st.eof,
         r.status = st.status, r.sent = st.sent, r.peer = st.peer, r.closing = st.closing,
         r.last = st.last, r.delivered = st.delivered, r.saved = st.saved,
         r.inTable = st.inTable, r.out \subseteq Own(st),
         \A t \in Range(r.posted) : t \in Range(st.posted),
         WindowOK(r), st.status # "New"
  PROVE  Later(s, st, pos, r, pos) /\ Numbers(st, r)
<1>1. \A p \in PacketType : PostedFin(r, p) => PostedFin(st, p)
  BY DEF PostedFin
<1>2. \A p \in Own(r) : p \in Own(st)
  BY <1>1 DEF Own
<1>3. Stages(s, r)
  BY <1>1 DEF Sends, Stages
<1>4. Sends(s, r, pos)
  <2>1. /\ \A p \in st.sent : p.seqn # 0 \/ p.syn
        /\ IsFiniteSet(st.sent) /\ Cardinality(st.sent) <= MAX_WINDOW_SIZE
        /\ IsFiniteSet(st.saved)
    BY SendsFacts
  <2>2. r.window >= 1 /\ r.window <= MAX_WINDOW_SIZE
    BY DEF WindowOK
  <2>3. \A p \in Own(r) : p \in Own(st) \/ OwnPacket(s, st.seqn, st.written, pos, p)
    BY <1>2
  <2> QED
    BY <1>3, <2>1, <2>2, <2>3, SendsKept
<1>5. st.seqn <= r.seqn /\ \A n \in Nat : ~(st.seqn <= n /\ n < r.seqn)
  BY SendsFacts
<1>6. Later(s, st, pos, r, pos)
  BY <1>2, <1>4, <1>5 DEF Later
<1>7. Numbers(st, r)
  BY NoNumbers
<1> QED
  BY <1>6, <1>7

(* A handler's new record of a stream: all it still sends is what the       *)
(* stream had or is new, to its peer, and its acks are true.                *)
Answers(st, p) == FewMissing(st) /\ st.last >= 0 => AckHeld(st, p)

Goes(s, st, pos, r, pos2) ==
  /\ Sends(s, r, pos2)
  /\ \A i \in Nat : i <= st.seqn => pos2[i] = pos[i]
  /\ st.seqn <= r.seqn
  /\ r.peer = st.peer
  /\ r.inTable => st.inTable
  /\ \A p \in Own(r) : p \in Own(st) \/ ((p.seqn # 0 => p.to = st.peer) /\ Answers(r, p))
  /\ \A n \in Nat : st.seqn <= n /\ n < r.seqn => pos2[n + 1] = pos2[n] \/ Tracked(r, n)
  /\ r.status = "New" => st.status = "New"

(* Nothing was received or acknowledged.                                    *)
Quiet(st, r) ==
  /\ r.last = st.last /\ r.delivered = st.delivered /\ r.saved = st.saved
  /\ st.sent \subseteq r.sent

(* A later record was reached without receiving.                            *)
LEMMA LaterGoes ==
  ASSUME NEW s \in StreamIDs, NEW st, NEW pos, NEW r, NEW pos2, Later(s, st, pos, r, pos2),
         r.status = "New" => st.status = "New"
  PROVE  Goes(s, st, pos, r, pos2) /\ Quiet(st, r) /\ r.written = st.written
<1>1. Has(r) = Has(st) /\ r.last = st.last
  BY DEF Later, Has
<1>2. \A p : Fresh(st, p) => (p.seqn # 0 => p.to = st.peer) /\ Answers(r, p)
  BY <1>1 DEF Fresh, AckTrue, Answers, AckHeld
<1> QED
  BY <1>2 DEF Later, Goes, Quiet

RanPosted(s, st) ==
  LET rest == [st EXCEPT !.posted = Tail(@)]
  IN IF Head(st.posted).task = "SendBuffer" THEN SendBuffer(s, rest)
     ELSE SendPacket(rest, Head(st.posted).packet)

(* RunPosted.                                                               *)
LEMMA RunPostedGoes ==
  ASSUME NEW s \in StreamIDs, NEW st, NEW pos, Sends(s, st, pos), Waits(st),
         st.posted # <<>>, NEW r, r = RanPosted(s, st)
  PROVE  /\ \E pos2 : Goes(s, st, pos, r, pos2)
         /\ Quiet(st, r) /\ r.written = st.written /\ Waits(r) /\ Numbers(st, r)
         /\ r.status # "New" /\ Short(st, r)
<1>1. st \in StreamType /\ st.posted \in Seq(TaskType)
  BY SendsFacts
<1>2. PICK q \in Seq(TaskType), h \in TaskType :
        /\ q = Tail(st.posted) /\ h = Head(st.posted) /\ h \in Range(st.posted)
        /\ \A x : x \in Range(st.posted) <=> x \in Range(q) \/ x = h
  BY <1>1, TailRange
<1>11. PICK rest : rest = [st EXCEPT !.posted = Tail(@)]
  OBVIOUS
<1>12. r = (IF Head(st.posted).task = "SendBuffer" THEN SendBuffer(s, rest)
            ELSE SendPacket(rest, Head(st.posted).packet))
  BY <1>11 DEF RanPosted
<1>3. rest = [st EXCEPT !.posted = q] /\ q \in Seq(TaskType)
  BY <1>2, <1>11
<1>4. /\ rest \in StreamType /\ rest.posted = q
      /\ rest.seqn = st.seqn /\ rest.written = st.written /\ rest.buf = st.buf
      /\ rest.eof = st.eof /\ rest.status = st.status /\ rest.sent = st.sent
      /\ rest.peer = st.peer /\ rest.closing = st.closing /\ rest.last = st.last
      /\ rest.delivered = st.delivered /\ rest.saved = st.saved /\ rest.inTable = st.inTable
      /\ rest.out = st.out /\ rest.window = st.window /\ rest.acks = st.acks
      /\ rest.resendSet = st.resendSet
  BY <1>1, <1>3 DEF StreamType
<1>5. \A p \in Own(rest) : p \in Own(st)
  BY <1>2, <1>4 DEF Own, PostedFin
<1>6. Stages(s, rest)
  BY <1>2, <1>4 DEF Sends, Stages, PostedFin
<1>7. Sends(s, rest, pos)
  <2>1. /\ \A p \in st.sent : p.seqn # 0 \/ p.syn
        /\ IsFiniteSet(st.sent) /\ Cardinality(st.sent) <= MAX_WINDOW_SIZE
        /\ IsFiniteSet(st.saved) /\ st.window >= 1 /\ st.window <= MAX_WINDOW_SIZE
    BY SendsFacts
  <2> QED
    BY <1>4, <1>5, <1>6, <2>1, SendsKept
<1>8. Later(s, st, pos, rest, pos)
  <2>1. st.seqn <= st.seqn /\ \A n \in Nat : ~(st.seqn <= n /\ n < st.seqn)
    BY SendsFacts
  <2> QED
    BY <1>4, <1>5, <1>7, <2>1 DEF Later
<1>9. CASE h.task = "SendBuffer"
  <2>1. r = SendBuffer(s, rest)
    BY <1>2, <1>9, <1>12
  <2>2. Waiting(rest)
    BY <1>4 DEF Waits, Waiting
  <2>3. /\ \E pos2 : Later(s, rest, pos, r, pos2)
        /\ rest.status # "New" => Waits(r) /\ r.status = rest.status
        /\ rest.status = "New" => r.status = "Open" /\ r.sent # {}
        /\ Numbers(rest, r) /\ r.inTable = rest.inTable
    <3>1. ASSUME NEW q2, q2 = SendBuffer(s, rest)
          PROVE  /\ \E pos2 : Later(s, rest, pos, q2, pos2)
                 /\ rest.status # "New" => Waits(q2) /\ q2.status = rest.status
                 /\ rest.status = "New" => q2.status = "Open" /\ q2.sent # {}
                 /\ Numbers(rest, q2) /\ q2.inTable = rest.inTable
      BY <1>7, <2>2, <3>1, SendBufferLater
    <3> QED
      BY <2>1, <3>1
  <2>8. PICK pos2 : Later(s, rest, pos, r, pos2)
    BY <2>3
  <2>4. Later(s, st, pos, r, pos2)
    BY <1>8, <2>8, LaterTrans, Zenon
  <2>5. r.status = "New" => st.status = "New"
    BY <1>4, <2>3
  <2>6. Waits(r)
    BY <2>3 DEF Waits
  <2>7. Numbers(st, r)
    BY <1>4, <2>3 DEF Numbers
  <2>9. Short(st, r)
    <3>1. Short(rest, r)
      BY <1>7, <2>1, SendBufferShort
    <3> QED
      BY <1>4, <3>1 DEF Short
  <2>10. r.status # "New"
    BY <2>3
  <2> QED
    BY <2>4, <2>5, <2>6, <2>7, <2>9, <2>10, LaterGoes
<1>10. CASE h.task # "SendBuffer"
  <2>1. PICK p \in PacketType : h = [task |-> "SendPacket", packet |-> p]
    BY <1>2, <1>10 DEF TaskType
  <2>2. h.packet = p /\ PostedFin(st, p)
    BY <1>2, <2>1 DEF PostedFin
  <2>3. p \in Own(st) /\ st.status \in {"Reset", "Closing", "Closed"}
    BY <2>1, <2>2 DEF Own, Sends, Stages
  <2>4. r = SendPacket(rest, p)
    BY <1>2, <1>10, <1>12, <2>2
  <2>15. PICK x \in Int : x = 0
    OBVIOUS
  <2>5. PICK T \in SUBSET PacketType : T = rest.out \cup {p}
    <3>1. rest.out \subseteq PacketType
      BY <1>7, SendsFacts
    <3> QED
      BY <2>1, <3>1
  <2>6. r = [rest EXCEPT !.acks = x, !.out = T]
    BY <1>4, <2>3, <2>4, <2>5, <2>15 DEF SendPacket, IsOpen
  <2>7. x \in Int /\ T \in SUBSET PacketType
    BY <2>5, <2>15
  <2>8. /\ r \in StreamType /\ r.posted = rest.posted
        /\ r.seqn = rest.seqn /\ r.written = rest.written /\ r.buf = rest.buf
        /\ r.eof = rest.eof /\ r.status = rest.status /\ r.sent = rest.sent
        /\ r.peer = rest.peer /\ r.closing = rest.closing /\ r.last = rest.last
        /\ r.delivered = rest.delivered /\ r.saved = rest.saved /\ r.inTable = rest.inTable
        /\ r.out = T /\ r.window = rest.window
    BY <1>4, <2>6, <2>7 DEF StreamType
  <2>9. r.out \subseteq Own(st)
    <3>1. \A y \in st.out : y \in Own(st)
      BY <1>1 DEF Own, StreamType
    <3> QED
      BY <1>4, <2>3, <2>5, <2>8, <3>1
  <2>10. WindowOK(r) /\ st.status # "New"
    <3>1. st.window >= 1 /\ st.window <= MAX_WINDOW_SIZE
      BY SendsFacts
    <3> QED
      BY <1>4, <2>3, <2>8, <3>1 DEF WindowOK
  <2>11. \A t \in Range(r.posted) : t \in Range(st.posted)
    BY <1>2, <1>4, <2>8
  <2>16. /\ r.seqn = st.seqn /\ r.written = st.written /\ r.buf = st.buf /\ r.eof = st.eof
         /\ r.status = st.status /\ r.sent = st.sent /\ r.peer = st.peer
         /\ r.closing = st.closing /\ r.last = st.last /\ r.delivered = st.delivered
         /\ r.saved = st.saved /\ r.inTable = st.inTable
    BY <1>4, <2>8
  <2>17. r \in StreamType
    BY <2>8
  <2>12. Later(s, st, pos, r, pos) /\ Numbers(st, r)
    BY <2>16, <2>17, <2>9, <2>10, <2>11, SameLater, Zenon
  <2>13. Waits(r)
    <3>1. [task |-> "SendBuffer"] # h
      BY <2>1
    <3> QED
      BY <1>2, <1>4, <2>8, <3>1 DEF Waits
  <2>14. r.status = "New" => st.status = "New"
    BY <1>4, <2>8
  <2>18. Short(st, r) /\ r.status # "New"
    BY <2>3, <2>16 DEF Short
  <2> QED
    BY <2>12, <2>13, <2>14, <2>18, LaterGoes
<1> QED
  BY <1>9, <1>10

(* What is written is added to the buffer.                                  *)
LEMMA PartMore ==
  ASSUME NEW S, NEW w \in Seq(S), NEW u \in Seq(S), NEW c \in Nat
  PROVE  c <= Len(w) =>
           SubSeq(w, c + 1, Len(w)) \o u = SubSeq(w \o u, c + 1, Len(w \o u))
<1>1. /\ w \o u \in Seq(S) /\ Len(w \o u) = Len(w) + Len(u)
      /\ \A i \in 1 .. Len(w) : (w \o u)[i] = w[i]
      /\ \A i \in 1 .. Len(u) : (w \o u)[Len(w) + i] = u[i]
  OBVIOUS
<1>2. PICK a \in Nat, b \in Nat : a = Len(w) /\ b = Len(u)
  OBVIOUS
<1> SUFFICES ASSUME c <= a
    PROVE  SubSeq(w, c + 1, Len(w)) \o u = SubSeq(w \o u, c + 1, Len(w \o u))
  BY <1>2
<1>3. PICK v : v = SubSeq(w, c + 1, Len(w))
  OBVIOUS
<1>4. v \in Seq(S) /\ Len(v) = a - c /\ \A i \in 1 .. a - c : v[i] = w[c + i]
  BY <1>2, <1>3, PartOf
<1>5. PICK x : x = v \o u
  OBVIOUS
<1>6. /\ x \in Seq(S) /\ Len(x) = a - c + b
      /\ \A i \in 1 .. a - c : x[i] = v[i]
      /\ \A i \in 1 .. b : x[a - c + i] = u[i]
  <2>1. PICK d \in Nat : d = a - c
    OBVIOUS
  <2>2. Len(v) = d
    BY <1>4, <2>1
  <2>3. /\ x \in Seq(S) /\ Len(x) = d + b
        /\ \A i \in 1 .. d : x[i] = v[i]
        /\ \A i \in 1 .. b : x[d + i] = u[i]
    <3>1. /\ v \o u \in Seq(S) /\ Len(v \o u) = Len(v) + Len(u)
          /\ \A i \in 1 .. Len(v) + Len(u) : (v \o u)[i] =
                     IF i <= Len(v) THEN v[i] ELSE u[i - Len(v)]
      BY <1>4, ConcatProperties
    <3>2. /\ x \in Seq(S) /\ Len(x) = d + b
          /\ \A i \in 1 .. d + b : x[i] = IF i <= d THEN v[i] ELSE u[i - d]
      BY <1>2, <1>5, <2>2, <3>1
    <3>3. \A i \in 1 .. d : x[i] = v[i]
      BY <3>2
    <3>4. \A i \in 1 .. b : d + i \in 1 .. d + b /\ ~(d + i <= d) /\ d + i - d = i
      OBVIOUS
    <3>5. \A i \in 1 .. b : x[d + i] = u[i]
      BY <3>2, <3>4
    <3> QED
      BY <3>2, <3>3, <3>5
  <2> QED
    BY <2>1, <2>3
<1>7. PICK y : y = SubSeq(w \o u, c + 1, Len(w \o u))
  OBVIOUS
<1>8. /\ y \in Seq(S) /\ Len(y) = IF c < a + b THEN a + b - c ELSE 0
      /\ \A i \in 1 .. a + b - c : y[i] = (w \o u)[c + i]
  BY <1>1, <1>2, <1>7, PartOf
<1>9. Len(x) = Len(y)
  BY <1>6, <1>8
<1>10. ASSUME NEW i \in 1 .. Len(x)
       PROVE  x[i] = y[i]
  <2>1. i \in Int /\ 1 <= i /\ i <= a - c + b
    BY <1>6, <1>10
  <2>2. y[i] = (w \o u)[c + i]
    <3>1. i \in 1 .. a + b - c
      BY <2>1
    <3> QED
      BY <1>8, <3>1
  <2>3. CASE i <= a - c
    <3>1. i \in 1 .. a - c /\ c + i \in 1 .. Len(w)
      BY <1>2, <2>1, <2>3
    <3>2. x[i] = v[i] /\ v[i] = w[c + i] /\ (w \o u)[c + i] = w[c + i]
      BY <1>1, <1>4, <1>6, <3>1
    <3> QED
      BY <2>2, <3>2
  <2>4. CASE i > a - c
    <3>1. PICK j \in Nat : j = i - (a - c)
      BY <2>1, <2>4
    <3>2. j \in 1 .. b /\ i = a - c + j /\ c + i = a + j
      BY <2>1, <2>4, <3>1
    <3>3. x[i] = u[j]
      BY <1>6, <3>2
    <3>4. (w \o u)[c + i] = u[j]
      BY <1>1, <1>2, <3>2
    <3> QED
      BY <2>2, <3>3, <3>4
  <2> QED
    BY <2>1, <2>3, <2>4
<1>11. x = y
  BY <1>6, <1>8, <1>9, <1>10, SameSeq
<1> QED
  BY <1>3, <1>5, <1>7, <1>11

Rest(n, w, pos) == SubSeq(w, pos[n] + 1, Len(w))

(* The pieces stay where they are.                                          *)
LEMMA BytesMore ==
  ASSUME NEW n \in Nat, NEW w \in Seq(Units), NEW u \in Seq(Units), NEW pos, Cut(n, w, pos)
  PROVE  /\ Cut(n, w \o u, pos)
         /\ Rest(n, w, pos) \o u = Rest(n, w \o u, pos)
<1>1. pos[n] \in Nat /\ pos[n] <= Len(w)
  BY CutFacts
<1>2. PICK c \in Nat : c = pos[n]
  BY <1>1
<1>3. Len(w \o u) = Len(w) + Len(u) /\ Len(w) \in Nat /\ Len(u) \in Nat
  OBVIOUS
<1>4. c <= Len(w \o u)
  BY <1>1, <1>2, <1>3
<1>5. Cut(n, w \o u, pos)
  BY <1>2, <1>4 DEF Cut
<1> QED
  BY <1>1, <1>2, <1>5, PartMore DEF Rest

(* The application's units, in a record of its stream.                      *)
UnitsOf(s, st, n) == [k \in 1 .. n |-> <<s, Len(st.written) + k>>]

AsyncSent(s, st, n) ==
  [st EXCEPT !.handler = TRUE,
             !.written = @ \o UnitsOf(s, st, n),
             !.buf = @ \o UnitsOf(s, st, n),
             !.eof = @ /\ n = 0,
             !.posted = Append(@, [task |-> "SendBuffer"])]

(* AsyncSend.                                                               *)
LEMMA AsyncSendGoes ==
  ASSUME NEW s \in StreamIDs, NEW st, NEW pos, Sends(s, st, pos), Waits(st),
         NEW n \in Nat, ~st.closing, NEW r, r = AsyncSent(s, st, n)
  PROVE  /\ Goes(s, st, pos, r, pos) /\ r.seqn = st.seqn /\ Own(r) = Own(st)
         /\ Quiet(st, r) /\ Waits(r) /\ Numbers(st, r)
         /\ r.written = st.written \o UnitsOf(s, st, n) /\ UnitsOf(s, st, n) \in Seq(Units)
<1>1. /\ st \in StreamType /\ st.written \in Seq(Units) /\ st.buf \in Seq(Units)
      /\ st.eof \in BOOLEAN /\ st.posted \in Seq(TaskType) /\ st.seqn \in Nat
  BY SendsFacts
<1>2. PICK l \in Nat : l = Len(st.written)
  BY <1>1
<1>3. PICK u : u = [k \in 1 .. n |-> <<s, l + k>>]
  OBVIOUS
<1>4. u = UnitsOf(s, st, n)
  BY <1>2, <1>3, Zenon DEF UnitsOf
<1>5. u \in Seq(Units) /\ (n = 0 => u = <<>>)
  <2>1. \A k \in 1 .. n : <<s, l + k>> \in Units
    BY DEF Units
  <2>3. u \in [1 .. n -> Units]
    BY <1>3, <2>1
  <2>2. u \in Seq(Units) /\ Len(u) = n
    BY <2>3
  <2> QED
    BY <2>2
<1>6. PICK t \in TaskType : t = [task |-> "SendBuffer"]
  BY DEF TaskType
<1>7. PICK q \in Seq(TaskType) :
        /\ q = Append(st.posted, t)
        /\ \A x : x \in Range(q) <=> x \in Range(st.posted) \/ x = t
  <2>1. /\ Append(st.posted, t) \in Seq(TaskType)
        /\ \A x : x \in Range(Append(st.posted, t)) <=> x \in Range(st.posted) \/ x = t
    BY <1>1, <1>6, AppendRange
  <2> QED
    BY <2>1
<1>29. PICK w \in Seq(Units) : w = st.written \o u
  <2>1. st.written \o u \in Seq(Units)
    BY <1>1, <1>5, ConcatProperties
  <2> QED
    BY <2>1
<1>30. PICK b \in Seq(Units) : b = st.buf \o u
  <2>1. st.buf \o u \in Seq(Units)
    BY <1>1, <1>5, ConcatProperties
  <2> QED
    BY <2>1
<1>8. w = st.written \o u /\ b = st.buf \o u /\ w \in Seq(Units) /\ b \in Seq(Units)
  BY <1>29, <1>30
<1>9. PICK e \in BOOLEAN : e <=> (st.eof /\ n = 0)
  OBVIOUS
<1>10. PICK x \in BOOLEAN : x = TRUE
  OBVIOUS
<1>11. r = [st EXCEPT !.handler = x, !.written = w, !.buf = b, !.eof = e, !.posted = q]
  <2>1. e = (st.eof /\ n = 0)
    BY <1>1, <1>9
  <2> QED
    BY <1>4, <1>6, <1>7, <1>8, <1>10, <2>1, Zenon DEF AsyncSent
<1>12. q \in Seq(TaskType) /\ w \in Seq(Units) /\ b \in Seq(Units) /\ e \in BOOLEAN /\ x \in BOOLEAN
  BY <1>7, <1>8, <1>9, <1>10
<1>13. /\ r \in StreamType /\ r.posted = q /\ r.written = w /\ r.buf = b /\ r.eof = e
       /\ r.seqn = st.seqn /\ r.status = st.status /\ r.sent = st.sent
       /\ r.peer = st.peer /\ r.closing = st.closing /\ r.last = st.last
       /\ r.delivered = st.delivered /\ r.saved = st.saved /\ r.inTable = st.inTable
       /\ r.out = st.out /\ r.window = st.window /\ r.acks = st.acks
       /\ r.resendSet = st.resendSet
  <2>1. PICK a : a = [st EXCEPT !.handler = x, !.eof = e, !.posted = q]
    OBVIOUS
  <2>2. /\ a \in StreamType /\ a.posted = q /\ a.eof = e /\ a.written = st.written
        /\ a.buf = st.buf
       /\ a.seqn = st.seqn /\ a.status = st.status /\ a.sent = st.sent
       /\ a.peer = st.peer /\ a.closing = st.closing /\ a.last = st.last
       /\ a.delivered = st.delivered /\ a.saved = st.saved /\ a.inTable = st.inTable
       /\ a.out = st.out /\ a.window = st.window /\ a.acks = st.acks
       /\ a.resendSet = st.resendSet
    BY <1>1, <1>12, <2>1 DEF StreamType
  <2>3. r = [a EXCEPT !.written = w, !.buf = b]
    BY <1>1, <1>11, <2>1 DEF StreamType
  <2>4. /\ r \in StreamType /\ r.posted = a.posted /\ r.eof = a.eof /\ r.written = w
        /\ r.buf = b
       /\ r.seqn = a.seqn /\ r.status = a.status /\ r.sent = a.sent
       /\ r.peer = a.peer /\ r.closing = a.closing /\ r.last = a.last
       /\ r.delivered = a.delivered /\ r.saved = a.saved /\ r.inTable = a.inTable
       /\ r.out = a.out /\ r.window = a.window /\ r.acks = a.acks
       /\ r.resendSet = a.resendSet
    BY <1>12, <2>2, <2>3 DEF StreamType
  <2> QED
    BY <2>2, <2>4
<1>14. \A p : [task |-> "SendPacket", packet |-> p] # t
  BY <1>6
<1>15. \A p : PostedFin(r, p) <=> PostedFin(st, p)
  BY <1>7, <1>13, <1>14 DEF PostedFin
<1>16. Own(r) = Own(st)
  BY <1>13, <1>15 DEF Own
<1>17. Bytes(r, pos)
  <2>1. /\ Cut(st.seqn, st.written, pos)
        /\ st.buf = Rest(st.seqn, st.written, pos)
        /\ st.eof => st.buf = <<>>
    BY Zenon DEF Sends, Bytes, Rest
  <2>2. Cut(st.seqn, w, pos) /\ b = Rest(st.seqn, w, pos)
    <3>1. /\ Cut(st.seqn, st.written \o u, pos)
          /\ Rest(st.seqn, st.written, pos) \o u = Rest(st.seqn, st.written \o u, pos)
      <4>1. ASSUME NEW m \in Nat, NEW y \in Seq(Units), NEW z \in Seq(Units), Cut(m, y, pos)
            PROVE  Cut(m, y \o z, pos) /\ Rest(m, y, pos) \o z = Rest(m, y \o z, pos)
        BY <4>1, BytesMore
      <4>2. st.seqn \in Nat /\ st.written \in Seq(Units) /\ u \in Seq(Units)
        BY <1>1, <1>5
      <4>3. Cut(st.seqn, st.written, pos)
        BY <2>1
      <4> QED
        BY <4>1, <4>2, <4>3
    <3> QED
      BY <1>8, <2>1, <3>1
  <2>3. e => b = <<>>
    BY <1>5, <1>8, <1>9, <2>1
  <2> QED
    BY <1>13, <2>2, <2>3 DEF Bytes, Rest
<1>18. Owns(s, r, pos)
  <2>1. \A p \in Own(st) : p \in PacketType /\ OwnPacket(s, st.seqn, st.written, pos, p)
    BY SendsFacts
  <2>2. Cut(st.seqn, st.written, pos)
    BY SendsFacts
  <2>3. \A p \in Own(st) : OwnPacket(s, st.seqn, st.written \o u, pos, p)
    BY <1>1, <1>5, <2>1, <2>2, OwnLonger
  <2> QED
    BY <1>8, <1>13, <1>16, <2>3 DEF Owns
<1>19. Window(r)
  BY <1>13 DEF Sends, Window
<1>20. Stages(s, r)
  BY <1>13, <1>15 DEF Sends, Stages
<1>21. Sends(s, r, pos)
  BY <1>13, <1>17, <1>18, <1>19, <1>20 DEF Sends
<1>22. t \in Range(r.posted)
  BY <1>7, <1>13
<1>23. Waits(r)
  BY <1>6, <1>13, <1>22 DEF Waits
<1>24. st.status # "Closing"
  BY DEF Sends, Stages
<1>25. Numbers(st, r)
  BY <1>13, <1>24, NoNumbers
<1>26. st.seqn <= st.seqn /\ \A k \in Nat : ~(st.seqn <= k /\ k < st.seqn)
  BY SendsFacts
<1>27. Goes(s, st, pos, r, pos)
  BY <1>13, <1>16, <1>21, <1>26 DEF Goes
<1>28. Quiet(st, r)
  BY <1>13 DEF Quiet
<1> QED
  BY <1>4, <1>5, <1>8, <1>13, <1>16, <1>23, <1>25, <1>27, <1>28

AppClosed(s, st) == Close(s, [st EXCEPT !.closing = TRUE])

(* AppClose.                                                                *)
LEMMA AppCloseGoes ==
  ASSUME NEW s \in StreamIDs, NEW st, NEW pos, Sends(s, st, pos), Waits(st),
         NEW r, r = AppClosed(s, st)
  PROVE  /\ \E pos2 : Goes(s, st, pos, r, pos2)
         /\ Quiet(st, r) /\ r.written = st.written /\ Waits(r) /\ Numbers(st, r)
<1>1. st \in StreamType
  BY SendsFacts
<1>14. PICK c : c = [st EXCEPT !.closing = TRUE]
  OBVIOUS
<1>15. r = Close(s, c)
  BY <1>14 DEF AppClosed
<1>2. /\ c \in StreamType /\ c.posted = st.posted /\ c.written = st.written /\ c.buf = st.buf
      /\ c.eof = st.eof /\ c.seqn = st.seqn /\ c.status = st.status /\ c.sent = st.sent
      /\ c.peer = st.peer /\ c.closing = TRUE /\ c.last = st.last
      /\ c.delivered = st.delivered /\ c.saved = st.saved /\ c.inTable = st.inTable
      /\ c.out = st.out /\ c.window = st.window /\ c.acks = st.acks
      /\ c.resendSet = st.resendSet
  <2>1. PICK x \in BOOLEAN : x = TRUE
    OBVIOUS
  <2>2. c = [st EXCEPT !.closing = x] /\ x \in BOOLEAN
    BY <1>14, <2>1
  <2> QED
    BY <1>1, <2>1, <2>2 DEF StreamType
<1>3. Own(c) = Own(st)
  BY <1>2 DEF Own, PostedFin
<1>4. Stages(s, c)
  BY <1>2 DEF Sends, Stages, PostedFin
<1>5. Sends(s, c, pos)
  <2>1. /\ \A p \in Own(st) : OwnPacket(s, st.seqn, st.written, pos, p)
        /\ \A p \in st.sent : p.seqn # 0 \/ p.syn
        /\ IsFiniteSet(st.sent) /\ Cardinality(st.sent) <= MAX_WINDOW_SIZE
        /\ IsFiniteSet(st.saved) /\ st.window >= 1 /\ st.window <= MAX_WINDOW_SIZE
    BY SendsFacts
  <2> QED
    BY <1>2, <1>3, <1>4, <2>1, SendsKept
<1>6. Waits(c)
  BY <1>2 DEF Waits
<1>7. /\ \E pos2 : Later(s, c, pos, r, pos2)
      /\ Waits(c) => Waits(r)
      /\ r.status = "New" <=> c.status = "New"
      /\ Numbers(c, r)
  <2>1. c.status = "Open" => c.closing
    BY <1>2
  <2> QED
    BY <1>5, <1>15, <2>1, CloseLater
<1>8. PICK pos2 : Later(s, c, pos, r, pos2)
  BY <1>7
<1>13. r.status = "New" => c.status = "New"
  BY <1>7
<1>9. Goes(s, c, pos, r, pos2) /\ Quiet(c, r) /\ r.written = c.written
  BY <1>8, <1>13, LaterGoes
<1>10. Goes(s, st, pos, r, pos2)
  BY <1>2, <1>3, <1>9 DEF Goes
<1>11. Quiet(st, r)
  BY <1>2, <1>9 DEF Quiet
<1>12. Numbers(st, r)
  BY <1>2, <1>7 DEF Numbers
<1> QED
  BY <1>2, <1>6, <1>7, <1>9, <1>10, <1>11, <1>12

(* Reset of a stream whose timers have changed, then Close.                 *)
LEMMA ResetLater ==
  ASSUME NEW s \in StreamIDs, NEW st, NEW pos, Sends(s, st, pos), st.status # "New",
         NEW b \in BOOLEAN, NEW a \in Int,
         NEW q, q = [st EXCEPT !.status = "Reset", !.resendSet = b, !.acks = a]
  PROVE  /\ Later(s, st, pos, q, pos) /\ q.status = "Reset"
<1>1. st \in StreamType
  BY SendsFacts
<1>2. PICK x \in {"Closing", "Closed", "Reset"} : x = "Reset"
  OBVIOUS
<1>3. PICK c : c = [st EXCEPT !.status = x]
  OBVIOUS
<1>4. Later(s, st, pos, c, pos) /\ c.status = x
  BY <1>2, <1>3, StatusLater
<1>5. c \in StreamType /\ Sends(s, c, pos) /\ c.window = st.window /\ c.out = st.out
  BY <1>1, <1>2, <1>3, <1>4 DEF Later, StreamType
<1>6. q = [c EXCEPT !.resendSet = b, !.acks = a]
  BY <1>1, <1>2, <1>3 DEF StreamType
<1>7. /\ q \in StreamType /\ q.posted = c.posted
      /\ q.seqn = c.seqn /\ q.written = c.written /\ q.buf = c.buf
      /\ q.eof = c.eof /\ q.status = c.status /\ q.sent = c.sent
      /\ q.peer = c.peer /\ q.closing = c.closing /\ q.last = c.last
      /\ q.delivered = c.delivered /\ q.saved = c.saved /\ q.inTable = c.inTable
      /\ q.out = c.out /\ q.window = c.window
  BY <1>5, <1>6 DEF StreamType
<1>8. c.out \subseteq Own(c) /\ WindowOK(c)
  BY <1>5, SendsFacts DEF Own, WindowOK
<1>9. q.out \subseteq Own(c) /\ WindowOK(q)
  BY <1>7, <1>8 DEF WindowOK
<1>10. \A t \in Range(q.posted) : t \in Range(c.posted)
  BY <1>7
<1>11. c.status # "New"
  BY <1>2, <1>4
<1>12. q \in StreamType
  BY <1>7
<1>13. Later(s, c, pos, q, pos)
  BY <1>5, <1>7, <1>9, <1>10, <1>11, <1>12, SameLater
<1>14. Later(s, st, pos, q, pos)
  BY <1>4, <1>13, LaterTrans
<1> QED
  BY <1>2, <1>4, <1>7, <1>14

(* A reset, then Close.                                                     *)
LEMMA ResetCloseGoes ==
  ASSUME NEW s \in StreamIDs, NEW st, NEW pos, Sends(s, st, pos), st.status # "New",
         NEW q, Later(s, st, pos, q, pos), q.status = "Reset", NEW r, r = Close(s, q)
  PROVE  /\ \E pos2 : Goes(s, st, pos, r, pos2)
         /\ Quiet(st, r) /\ r.written = st.written /\ Waits(r) /\ Numbers(st, r)
<1>1. Sends(s, q, pos) /\ q \in StreamType
  BY SendsFacts DEF Later
<1>2. r = TerminateAndDelete(SendClose(s, q))
  BY <1>1, CloseCases
<1>3. (\E pos2 : Later(s, q, pos, r, pos2)) /\ r.status = "Reset" /\ ~r.inTable
  BY <1>1, <1>2, DeleteLater
<1>4. PICK pos2 : Later(s, st, pos, r, pos2)
  BY <1>3, LaterTrans
<1>5. Goes(s, st, pos, r, pos2) /\ Quiet(st, r) /\ r.written = st.written
  BY <1>3, <1>4, LaterGoes
<1>6. Waits(r) /\ Numbers(st, r)
  BY <1>3 DEF Waits, Numbers
<1> QED
  BY <1>5, <1>6

(* HandleResendTimer.                                                       *)
LEMMA ResendTimerGoes ==
  ASSUME NEW s \in StreamIDs, NEW st, NEW pos, Sends(s, st, pos), Waits(st),
         st.status # "New", NEW old \in SUBSET st.sent, NEW r, r = HandleResendTimer(s, st, old)
  PROVE  /\ \E pos2 : Goes(s, st, pos, r, pos2)
         /\ Quiet(st, r) /\ r.written = st.written /\ Waits(r) /\ Numbers(st, r)
<1>1. /\ st \in StreamType /\ st.attempts \in Int /\ st.acks \in Int /\ st.window \in Nat
      /\ st.window >= 1 /\ st.window <= MAX_WINDOW_SIZE
      /\ st.sent \subseteq PacketType /\ st.out \subseteq PacketType
  BY SendsFacts
<1>2. st.status # "New"
  OBVIOUS
<1>3. CASE st.attempts >= MAX_NUM_RESEND_ATTEMPTS
  <2>1. PICK q : q = [st EXCEPT !.status = "Reset", !.resendSet = FALSE]
    OBVIOUS
  <2>2. r = Close(s, q)
    BY <1>3, <2>1, Zenon DEF HandleResendTimer
  <2>3. PICK b \in BOOLEAN : b = FALSE
    OBVIOUS
  <2>4. q = [st EXCEPT !.status = "Reset", !.resendSet = b, !.acks = st.acks]
    BY <1>1, <2>1, <2>3 DEF StreamType
  <2>5. Later(s, st, pos, q, pos) /\ q.status = "Reset"
    <3>1. ASSUME NEW c \in BOOLEAN, NEW a \in Int,
                 q = [st EXCEPT !.status = "Reset", !.resendSet = c, !.acks = a]
          PROVE  Later(s, st, pos, q, pos) /\ q.status = "Reset"
      BY <1>2, <3>1, ResetLater
    <3>2. st.acks \in Int /\ b \in BOOLEAN
      BY <1>1, <2>3
    <3> QED
      BY <2>4, <3>1, <3>2
  <2> QED
    BY <1>2, <2>2, <2>5, ResetCloseGoes
<1>4. CASE ~(st.attempts >= MAX_NUM_RESEND_ATTEMPTS) /\ old = {}
  <2>1. r = st
    BY <1>4, Zenon DEF HandleResendTimer
  <2>2. Later(s, st, pos, r, pos)
    BY <2>1, LaterRefl
  <2>3. Numbers(st, r)
    BY <2>1, NoNumbers
  <2>4. r.status = "New" => st.status = "New"
    BY <2>1
  <2> QED
    BY <2>1, <2>2, <2>3, <2>4, LaterGoes
<1>5. CASE ~(st.attempts >= MAX_NUM_RESEND_ATTEMPTS) /\ old # {}
  <2>1. r = [st EXCEPT !.attempts = NextAttempt(st), !.out = @ \cup old,
                  !.window = IF st.attempts = 0 THEN HalfWindow(st) ELSE @]
    BY <1>5, Zenon DEF HandleResendTimer
  <2>2. PICK w \in Nat : /\ w = IF st.attempts = 0 THEN HalfWindow(st) ELSE st.window
                         /\ w >= 1 /\ w <= MAX_WINDOW_SIZE
    <3>1. PICK k \in Nat, v \in Nat : v = st.window /\ k = v \div 2
      BY <1>1
    <3>2. k <= v /\ v >= 1
      BY <1>1, <3>1
    <3>3. PICK h \in Int : h = Max({k, 1}) /\ h \in {k, 1} /\ h >= 1
      BY MaxOf
    <3>4. HalfWindow(st) = h
      BY <3>1, <3>3 DEF HalfWindow, MIN_WINDOW_SIZE
    <3>5. h \in Nat /\ h <= v
      BY <3>2, <3>3
    <3>6. MAX_WINDOW_SIZE \in Nat /\ v <= MAX_WINDOW_SIZE
      BY <1>1, <3>1, ConstantsAssumption
    <3>7. h <= MAX_WINDOW_SIZE
      BY <3>1, <3>5, <3>6
    <3> QED
      BY <1>1, <3>3, <3>4, <3>5, <3>7
  <2>3. PICK a \in Int : a = NextAttempt(st)
    BY <1>1 DEF NextAttempt
  <2>4. PICK T \in SUBSET PacketType : T = st.out \cup old
    BY <1>1
  <2>5. r = [st EXCEPT !.attempts = a, !.out = T, !.window = w]
    BY <2>1, <2>2, <2>3, <2>4, Zenon
  <2>6. w \in Nat /\ a \in Int /\ T \in SUBSET PacketType
    BY <2>2, <2>3, <2>4
  <2>7. /\ r \in StreamType /\ r.posted = st.posted
        /\ r.seqn = st.seqn /\ r.written = st.written /\ r.buf = st.buf
        /\ r.eof = st.eof /\ r.status = st.status /\ r.sent = st.sent
        /\ r.peer = st.peer /\ r.closing = st.closing /\ r.last = st.last
        /\ r.delivered = st.delivered /\ r.saved = st.saved /\ r.inTable = st.inTable
        /\ r.out = T /\ r.window = w
    <3>1. PICK c : c = [st EXCEPT !.attempts = a, !.window = w]
      OBVIOUS
    <3>2. /\ c \in StreamType /\ c.posted = st.posted
          /\ c.seqn = st.seqn /\ c.written = st.written /\ c.buf = st.buf
          /\ c.eof = st.eof /\ c.status = st.status /\ c.sent = st.sent
          /\ c.peer = st.peer /\ c.closing = st.closing /\ c.last = st.last
          /\ c.delivered = st.delivered /\ c.saved = st.saved /\ c.inTable = st.inTable
          /\ c.out = st.out /\ c.window = w
      BY <1>1, <2>6, <3>1 DEF StreamType
    <3>3. r = [c EXCEPT !.out = T]
      BY <1>1, <2>5, <3>1 DEF StreamType
    <3>4. /\ r \in StreamType /\ r.posted = c.posted
          /\ r.seqn = c.seqn /\ r.written = c.written /\ r.buf = c.buf
          /\ r.eof = c.eof /\ r.status = c.status /\ r.sent = c.sent
          /\ r.peer = c.peer /\ r.closing = c.closing /\ r.last = c.last
          /\ r.delivered = c.delivered /\ r.saved = c.saved /\ r.inTable = c.inTable
          /\ r.out = T /\ r.window = c.window
      BY <2>6, <3>2, <3>3 DEF StreamType
    <3> QED
      BY <3>2, <3>4
  <2>8. r.out \subseteq Own(st)
    BY <1>1, <2>4, <2>7 DEF Own
  <2>9. WindowOK(r)
    BY <2>2, <2>7 DEF WindowOK
  <2>10. r \in StreamType /\ \A t \in Range(r.posted) : t \in Range(st.posted)
    BY <2>7
  <2>11. Later(s, st, pos, r, pos) /\ Numbers(st, r)
    BY <1>2, <2>7, <2>8, <2>9, <2>10, SameLater
  <2>12. Waits(r) /\ (r.status = "New" => st.status = "New")
    BY <2>7 DEF Waits
  <2> QED
    BY <2>11, <2>12, LaterGoes
<1> QED
  BY <1>3, <1>4, <1>5

(* A plain ack, at the end of a handler.                                    *)
LEMMA QuickGoes ==
  ASSUME NEW s \in StreamIDs, NEW st, NEW pos, Sends(s, st, pos),
         NEW r, r = SendQuickAck(s, st)
  PROVE  /\ Goes(s, st, pos, r, pos) /\ Quiet(st, r) /\ r.written = st.written
         /\ Waits(st) => Waits(r)
         /\ Numbers(st, r) /\ r.status = st.status /\ r.sent = st.sent /\ r.inTable = st.inTable
         /\ r.seqn = st.seqn /\ r.eof = st.eof
<1>1. /\ Sends(s, r, pos)
      /\ r.seqn = st.seqn /\ r.posted = st.posted /\ r.eof = st.eof
      /\ r.status = st.status /\ r.sent = st.sent /\ r.inTable = st.inTable
      /\ r.written = st.written /\ r.peer = st.peer /\ r.closing = st.closing
      /\ r.last = st.last /\ r.delivered = st.delivered /\ r.saved = st.saved
      /\ \A p \in Own(r) :
           p \in Own(st) \/ (p.seqn = 0 /\ (FewMissing(st) => AckHeld(st, p)))
  BY QuickFacts
<1>2. (FewMissing(st) <=> FewMissing(r)) /\ \A p : AckHeld(st, p) <=> AckHeld(r, p)
  BY <1>1 DEF FewMissing, Missing, Saved, AckHeld, Has
<1>3. \A p \in Own(r) : p \in Own(st) \/ (p.seqn = 0 /\ Answers(r, p))
  BY <1>1, <1>2 DEF Answers
<1>4. st.seqn <= st.seqn /\ \A k \in Nat : ~(st.seqn <= k /\ k < st.seqn)
  BY SendsFacts
<1>5. Goes(s, st, pos, r, pos) /\ Quiet(st, r)
  BY <1>1, <1>3, <1>4 DEF Goes, Quiet
<1>6. Waits(st) => Waits(r)
  BY <1>1 DEF Waits
<1>7. Numbers(st, r)
  BY <1>1, NoNumbers
<1> QED
  BY <1>1, <1>5, <1>6, <1>7

(* One after the other.                                                     *)
LEMMA GoesLater ==
  ASSUME NEW s, NEW st, NEW pos, NEW r, NEW pos2, NEW q, NEW pos3, Sends(s, st, pos),
         Goes(s, st, pos, r, pos2), Later(s, r, pos2, q, pos3),
         q.status = "New" => r.status = "New"
  PROVE  Goes(s, st, pos, q, pos3)
<1>1. PICK a \in Nat, b \in Nat, c \in Nat : a = st.seqn /\ b = r.seqn /\ c = q.seqn
  <2>1. st.seqn \in Nat /\ r.seqn \in Nat /\ q.seqn \in Nat
    BY SendsFacts DEF Later, Goes
  <2> QED
    BY <2>1
<1>2. a <= b /\ b <= c /\ (\A i \in Nat : i <= a => pos2[i] = pos[i])
      /\ \A i \in Nat : i <= b => pos3[i] = pos2[i]
  BY <1>1 DEF Later, Goes
<1>3. a <= c /\ \A i \in Nat : i <= a => pos3[i] = pos[i]
  BY <1>1, <1>2
<1>4. /\ q.last = r.last /\ q.saved = r.saved /\ q.peer = r.peer /\ r.peer = st.peer
      /\ r.sent \subseteq q.sent
  BY DEF Later, Goes
<1>5. \A p : Answers(r, p) => Answers(q, p)
  BY <1>4 DEF Answers, FewMissing, Missing, Saved, AckHeld, Has
<1>6. \A p : Fresh(r, p) => (p.seqn # 0 => p.to = st.peer) /\ Answers(q, p)
  BY <1>4 DEF Fresh, AckTrue, Answers, AckHeld, Has
<1>7. \A p \in Own(q) : p \in Own(st) \/ ((p.seqn # 0 => p.to = st.peer) /\ Answers(q, p))
  BY <1>5, <1>6 DEF Later, Goes
<1>8. ASSUME NEW n \in Nat, a <= n, n < c
      PROVE  pos3[n + 1] = pos3[n] \/ Tracked(q, n)
  <2>1. CASE b <= n
    BY <1>1, <1>8, <2>1 DEF Later
  <2>2. CASE ~(b <= n)
    <3>1. PICK m \in Nat : m = n + 1
      OBVIOUS
    <3>2. n < b /\ m <= b /\ n <= b
      BY <2>2, <3>1, <1>1
    <3>3. pos3[m] = pos2[m] /\ pos3[n] = pos2[n]
      BY <1>2, <3>2
    <3>4. pos2[m] = pos2[n] \/ Tracked(r, n)
      BY <1>1, <1>8, <3>1, <3>2 DEF Goes
    <3>5. Tracked(r, n) => Tracked(q, n)
      BY <1>4 DEF Tracked
    <3> QED
      BY <3>1, <3>3, <3>4, <3>5
  <2> QED
    BY <2>1, <2>2
<1> QED
  BY <1>1, <1>3, <1>4, <1>7, <1>8 DEF Later, Goes

(* HandleAckSendTimer.                                                      *)
LEMMA AckSendTimerGoes ==
  ASSUME NEW s \in StreamIDs, NEW st, NEW pos, Sends(s, st, pos), Waits(st), st.acks # 0,
         NEW r, r = HandleAckSendTimer(s, st)
  PROVE  /\ \E pos2 : Goes(s, st, pos, r, pos2)
         /\ Quiet(st, r) /\ r.written = st.written /\ Waits(r) /\ Numbers(st, r)
<1>1. st \in StreamType /\ st.acks \in Int /\ st.resendSet \in BOOLEAN
  BY SendsFacts
<1>2. st.status # "New"
  BY DEF Sends, Stages
<1>3. CASE st.last < 0
  <2>1. PICK q : q = [st EXCEPT !.status = "Reset", !.acks = @ - 1]
    OBVIOUS
  <2>2. r = Close(s, q)
    BY <1>3, <2>1, Zenon DEF HandleAckSendTimer
  <2>3. PICK x \in Int : x = st.acks - 1
    BY <1>1
  <2>4. q = [st EXCEPT !.status = "Reset", !.resendSet = st.resendSet, !.acks = x]
    BY <1>1, <2>1, <2>3 DEF StreamType
  <2>5. Later(s, st, pos, q, pos) /\ q.status = "Reset"
    <3>1. ASSUME NEW c \in BOOLEAN, NEW a \in Int,
                 q = [st EXCEPT !.status = "Reset", !.resendSet = c, !.acks = a]
          PROVE  Later(s, st, pos, q, pos) /\ q.status = "Reset"
      BY <1>2, <3>1, ResetLater
    <3>2. x \in Int /\ st.resendSet \in BOOLEAN
      BY <1>1, <2>3
    <3> QED
      BY <2>4, <3>1, <3>2
  <2> QED
    BY <1>2, <2>2, <2>5, ResetCloseGoes
<1>4. CASE ~(st.last < 0)
  <2>1. PICK a : a = IF IsOpen(st) THEN SendQuickAck(s, st) ELSE st
    OBVIOUS
  <2>2. r = [a EXCEPT !.acks = 0]
    BY <1>4, <2>1, Zenon DEF HandleAckSendTimer
  <2>3. /\ Goes(s, st, pos, a, pos) /\ Quiet(st, a) /\ a.written = st.written
        /\ Waits(a) /\ Numbers(st, a) /\ a.status = st.status /\ a.seqn = st.seqn
        /\ a.eof = st.eof
    <3>1. CASE IsOpen(st)
      BY <2>1, <3>1, QuickGoes
    <3>2. CASE ~IsOpen(st)
      <4>1. a = st
        BY <2>1, <3>2
      <4>2. Later(s, st, pos, a, pos)
        BY <4>1, LaterRefl
      <4>3. Numbers(st, a)
        BY <4>1, NoNumbers
      <4>4. a.status = "New" => st.status = "New"
        BY <4>1
      <4> QED
        BY <4>1, <4>2, <4>3, <4>4, LaterGoes
    <3> QED
      BY <3>1, <3>2
  <2>4. Sends(s, a, pos) /\ a \in StreamType
    BY <2>3, SendsFacts DEF Goes
  <2>5. PICK x \in Int : x = 0
    OBVIOUS
  <2>6. r = [a EXCEPT !.acks = x] /\ x \in Int
    BY <2>2, <2>5
  <2>7. /\ r \in StreamType /\ r.posted = a.posted
        /\ r.seqn = a.seqn /\ r.written = a.written /\ r.buf = a.buf
        /\ r.eof = a.eof /\ r.status = a.status /\ r.sent = a.sent
        /\ r.peer = a.peer /\ r.closing = a.closing /\ r.last = a.last
        /\ r.delivered = a.delivered /\ r.saved = a.saved /\ r.inTable = a.inTable
        /\ r.out = a.out /\ r.window = a.window
    BY <2>4, <2>6 DEF StreamType
  <2>8. r.out \subseteq Own(a) /\ WindowOK(r) /\ a.status # "New"
    BY <1>2, <2>3, <2>4, <2>7, SendsFacts DEF Own, WindowOK
  <2>9. r \in StreamType /\ \A t \in Range(r.posted) : t \in Range(a.posted)
    BY <2>7
  <2>10. Later(s, a, pos, r, pos)
    BY <2>4, <2>7, <2>8, <2>9, SameLater
  <2>11. Goes(s, st, pos, r, pos)
    <3>1. r.status = "New" => a.status = "New"
      BY <2>7
    <3> QED
      BY <2>3, <2>10, <3>1, GoesLater
  <2>12. Quiet(st, r) /\ r.written = st.written /\ Waits(r) /\ Numbers(st, r)
    BY <2>3, <2>7 DEF Quiet, Waits, Numbers, Tracked
  <2> QED
    BY <2>11, <2>12
<1> QED
  BY <1>3, <1>4

-----------------------------------------------------------------------------
(* ProcessAck gives up what is acknowledged and goes on sending.            *)

(* Numbers used one after the other.                                        *)
LEMMA NumbersTrans ==
  ASSUME NEW s, NEW st, NEW pos, Sends(s, st, pos), NEW r, NEW pos2, Later(s, st, pos, r, pos2),
         NEW q, NEW pos3, Later(s, r, pos2, q, pos3), Numbers(st, r), Numbers(r, q)
  PROVE  Numbers(st, q)
<1>1. PICK a \in Nat, b \in Nat, c \in Nat : a = st.seqn /\ b = r.seqn /\ c = q.seqn
  <2>1. st.seqn \in Nat /\ r.seqn \in Nat /\ q.seqn \in Nat
    BY SendsFacts DEF Later
  <2> QED
    BY <2>1
<1> SUFFICES ASSUME q.inTable
             PROVE  /\ \A n \in Nat : a <= n /\ n < c =>
                         Tracked(q, n) \/ (q.status = "Closing" /\ q.eof /\ n + 1 = c)
                    /\ st.status = "Closing" /\ st.eof =>
                         q.status = "Closing" /\ q.eof /\ c = a
  BY <1>1 DEF Numbers
<1>2. r.inTable /\ r.sent \subseteq q.sent
  BY DEF Later
<1>3. /\ \A n \in Nat : a <= n /\ n < b =>
           Tracked(r, n) \/ (r.status = "Closing" /\ r.eof /\ n + 1 = b)
      /\ st.status = "Closing" /\ st.eof => r.status = "Closing" /\ r.eof /\ b = a
  BY <1>1, <1>2 DEF Numbers
<1>4. /\ \A n \in Nat : b <= n /\ n < c =>
           Tracked(q, n) \/ (q.status = "Closing" /\ q.eof /\ n + 1 = c)
      /\ r.status = "Closing" /\ r.eof => q.status = "Closing" /\ q.eof /\ c = b
  BY <1>1 DEF Numbers
<1>5. \A n : Tracked(r, n) => Tracked(q, n)
  BY <1>2 DEF Tracked
<1>6. ASSUME NEW n \in Nat, a <= n, n < c
      PROVE  Tracked(q, n) \/ (q.status = "Closing" /\ q.eof /\ n + 1 = c)
  <2>1. CASE b <= n
    BY <1>4, <1>6, <2>1
  <2>2. CASE n < b
    BY <1>3, <1>4, <1>5, <1>6, <2>2
  <2> QED
    BY <1>1, <2>1, <2>2
<1> QED
  BY <1>3, <1>4, <1>6

(* The record of ProcessAck before the window is filled again.              *)
Acked(st, p) == {q \in st.sent : q.seqn <= p.ack /\ q.seqn \notin p.nacks}

Left(st, p, left) ==
  /\ left.sent = st.sent \ Acked(st, p)
  /\ left.seqn = st.seqn /\ left.written = st.written /\ left.buf = st.buf
  /\ left.eof = st.eof /\ left.status = st.status /\ left.peer = st.peer
  /\ left.closing = st.closing /\ left.last = st.last /\ left.delivered = st.delivered
  /\ left.saved = st.saved /\ left.inTable = st.inTable /\ left.out = st.out
  /\ left.posted = st.posted

GrownWindow(st, p, grow) ==
  LET acked == Acked(st, p)
      slow == Min({st.window + Cardinality(acked), WINDOW_SIZE})
  IN IF acked = {} THEN st.window
     ELSE IF st.window + Cardinality(acked) <= WINDOW_SIZE \/ ~grow
     THEN Max({slow, st.window})
     ELSE Min({Max({slow, st.window}) + 1, MAX_WINDOW_SIZE})

(* The window stays within its bounds.                                      *)
LEMMA GrownWindowOK ==
  ASSUME NEW s, NEW st, NEW pos, Sends(s, st, pos), NEW p, NEW grow
  PROVE  \E w \in Nat : w = GrownWindow(st, p, grow) /\ w >= 1 /\ w <= MAX_WINDOW_SIZE
<1>1. IsFiniteSet(st.sent) /\ st.window \in Nat /\ st.window >= 1 /\ st.window <= MAX_WINDOW_SIZE
  BY SendsFacts
<1>2. IsFiniteSet(Acked(st, p))
  BY <1>1, FS_Subset DEF Acked
<1>3. PICK a \in Nat : a = Cardinality(Acked(st, p))
  BY <1>2, FS_CardinalityType
<1>4. PICK v \in Nat, W \in Nat, M \in Nat :
        v = st.window /\ W = WINDOW_SIZE /\ M = MAX_WINDOW_SIZE /\ W >= 1 /\ W <= M
  BY <1>1, ConstantsAssumption
<1>5. v >= 1 /\ v <= M
  BY <1>1, <1>4
<1>6. PICK x \in Int : x = Min({v + a, W}) /\ x <= W
  <2>1. v + a \in Int /\ W \in Int
    OBVIOUS
  <2> QED
    BY <2>1, MinOf
<1>7. PICK y \in Int : y = Max({x, v}) /\ y \in {x, v} /\ y >= v
  <2>1. v \in Int
    OBVIOUS
  <2> QED
    BY <2>1, MaxOf
<1>8. y <= M /\ y >= 1
  BY <1>4, <1>5, <1>6, <1>7
<1>9. PICK z \in Int : z = Min({y + 1, M}) /\ z \in {y + 1, M} /\ z <= M
  <2>1. y + 1 \in Int /\ M \in Int
    BY <1>7
  <2> QED
    BY <2>1, MinOf
<1>10. z >= 1
  BY <1>4, <1>8, <1>9
<1>11. PICK g : g = GrownWindow(st, p, grow)
  OBVIOUS
<1>12. g = v \/ g = y \/ g = z
  BY <1>3, <1>4, <1>6, <1>7, <1>9, <1>11, Zenon DEF GrownWindow
<1>13. g \in Nat /\ g >= 1 /\ g <= M
  BY <1>5, <1>8, <1>9, <1>10, <1>12
<1> QED
  BY <1>4, <1>11, <1>13

TimedLeft(st, p, grow) ==
  LET left == [st EXCEPT !.sent = @ \ Acked(st, p), !.window = GrownWindow(st, p, grow)]
  IN [left EXCEPT !.resendSet = @ /\ ~CancelResend(left)]

(* ProcessAck in two parts: what is given up, and what then is sent.        *)
LEMMA ProcessAckIs ==
  ASSUME NEW s, NEW st, NEW p, NEW grow
  PROVE  ProcessAck(s, st, p, grow) =
           FinishClosing(s, RefillWindow(s, TimedLeft(st, p, grow), Acked(st, p) # {}))
BY Zenon DEF ProcessAck, Acked, GrownWindow, TimedLeft

(* What is left once the acknowledged packets are given up.                 *)
LEMMA LeftSends ==
  ASSUME NEW s \in StreamIDs, NEW st, NEW pos, Sends(s, st, pos), NEW p, NEW w \in Nat,
         w >= 1 /\ w <= MAX_WINDOW_SIZE, NEW b \in BOOLEAN, b => st.resendSet, NEW left,
         left = [st EXCEPT !.sent = @ \ Acked(st, p), !.window = w, !.resendSet = b]
  PROVE  Sends(s, left, pos) /\ Left(st, p, left)
<1>1. st \in StreamType /\ st.sent \subseteq PacketType
  BY SendsFacts
<1>2. PICK S \in SUBSET PacketType : S = st.sent \ Acked(st, p)
  BY <1>1
<1>3. left = [st EXCEPT !.sent = S, !.window = w, !.resendSet = b] /\ S \in SUBSET PacketType
  BY <1>2
<1>31. left \in StreamType
  <2>1. PICK one \in StreamType : one = [st EXCEPT !.sent = S]
    <3>1. [st EXCEPT !.sent = S] \in StreamType
      BY <1>1, <1>3 DEF StreamType
    <3> QED
      BY <3>1
  <2>2. PICK two \in StreamType : two = [one EXCEPT !.window = w]
    <3>1. [one EXCEPT !.window = w] \in StreamType
      BY <2>1 DEF StreamType
    <3> QED
      BY <3>1
  <2>3. [two EXCEPT !.resendSet = b] \in StreamType
    BY <2>2 DEF StreamType
  <2>4. left = [two EXCEPT !.resendSet = b]
    BY <1>1, <1>3, <2>1, <2>2 DEF StreamType
  <2> QED
    BY <2>3, <2>4
<1>4. /\ left \in StreamType /\ left.sent = S /\ left.window = w /\ left.resendSet = b
      /\ left.seqn = st.seqn /\ left.written = st.written /\ left.buf = st.buf
      /\ left.eof = st.eof /\ left.status = st.status /\ left.peer = st.peer
      /\ left.closing = st.closing /\ left.last = st.last /\ left.delivered = st.delivered
      /\ left.saved = st.saved /\ left.inTable = st.inTable /\ left.out = st.out
      /\ left.posted = st.posted /\ left.acks = st.acks
  BY <1>1, <1>3, <1>31 DEF StreamType
<1>5. Left(st, p, left)
  BY <1>2, <1>4 DEF Left
<1>6. S \subseteq st.sent
  BY <1>2
<1>7. \A q \in Own(left) : q \in Own(st)
  BY <1>4, <1>6 DEF Own, PostedFin
<1>8. Stages(s, left)
  BY <1>4, <1>6 DEF Sends, Stages, PostedFin
<1>9. IsFiniteSet(S) /\ Cardinality(S) <= MAX_WINDOW_SIZE
  <2>1. PICK c \in Nat : c = Cardinality(st.sent)
    BY SendsFacts, FS_CardinalityType
  <2>2. IsFiniteSet(S) /\ Cardinality(S) <= c
    BY <1>6, <2>1, SendsFacts, FS_Subset
  <2>3. PICK d \in Nat : d = Cardinality(S)
    BY <2>2, FS_CardinalityType
  <2>4. c <= MAX_WINDOW_SIZE /\ MAX_WINDOW_SIZE \in Nat
    BY <2>1, SendsFacts, ConstantsAssumption
  <2> QED
    BY <2>2, <2>3, <2>4
<1>10. Sends(s, left, pos)
  <2>1. /\ \A q \in Own(left) : q \in Own(st) \/ OwnPacket(s, st.seqn, st.written, pos, q)
        /\ \A q \in S : q.seqn # 0 \/ q.syn
        /\ IsFiniteSet(st.saved)
    BY <1>6, <1>7, SendsFacts
  <2> QED
    BY <1>4, <1>8, <1>9, <2>1, SendsKept
<1> QED
  BY <1>5, <1>10

(* An ack: some packets are given up, then all goes on as ever.             *)
LEMMA RefillLater ==
  ASSUME NEW s \in StreamIDs, NEW st, NEW pos, Sends(s, st, pos), st.peer # NoID,
         st.status # "New", NEW r, r = SendBuffer(s, [st EXCEPT !.attempts = 0])
  PROVE  /\ \E pos2 : Later(s, st, pos, r, pos2)
         /\ Waits(r) /\ r.status = st.status /\ Numbers(st, r)
<1>1. st \in StreamType
  BY SendsFacts
<1>2. PICK m : m = [st EXCEPT !.attempts = 0]
  OBVIOUS
<1>3. PICK x \in Int : x = 0
  OBVIOUS
<1>4. m = [st EXCEPT !.attempts = x] /\ x \in Int
  BY <1>2, <1>3
<1>5. /\ m \in StreamType /\ m.posted = st.posted
      /\ m.seqn = st.seqn /\ m.written = st.written /\ m.buf = st.buf
      /\ m.eof = st.eof /\ m.status = st.status /\ m.sent = st.sent
      /\ m.peer = st.peer /\ m.closing = st.closing /\ m.last = st.last
      /\ m.delivered = st.delivered /\ m.saved = st.saved /\ m.inTable = st.inTable
      /\ m.out = st.out /\ m.window = st.window
  BY <1>1, <1>4 DEF StreamType
<1>6. m.out \subseteq Own(st) /\ WindowOK(m)
  BY <1>1, <1>5, SendsFacts DEF Own, WindowOK
<1>7. m \in StreamType /\ \A t \in Range(m.posted) : t \in Range(st.posted)
  BY <1>5
<1>8. Later(s, st, pos, m, pos) /\ Numbers(st, m)
  BY <1>5, <1>6, <1>7, SameLater
<1>9. Sends(s, m, pos) /\ Waiting(m)
  BY <1>5, <1>8 DEF Later, Waiting
<1>10. r = SendBuffer(s, m)
  BY <1>2
<1>11. ASSUME NEW q, q = SendBuffer(s, m)
       PROVE  /\ \E pos2 : Later(s, m, pos, q, pos2)
              /\ m.status # "New" => Waits(q) /\ q.status = m.status
              /\ Numbers(m, q)
  BY <1>9, <1>11, SendBufferLater
<1>12. PICK pos2 : Later(s, m, pos, r, pos2)
  BY <1>10, <1>11
<1>13. Later(s, st, pos, r, pos2)
  BY <1>8, <1>12, LaterTrans
<1>14. Waits(r) /\ r.status = st.status /\ Numbers(m, r)
  BY <1>5, <1>10, <1>11
<1>15. Numbers(st, r)
  BY <1>8, <1>12, <1>14, NumbersTrans
<1> QED
  BY <1>13, <1>14, <1>15

(* ProcessAck.                                                              *)
LEMMA ProcessAckLater ==
  ASSUME NEW s \in StreamIDs, NEW st, NEW pos, Sends(s, st, pos), st.peer # NoID, Waits(st),
         NEW p, NEW grow, NEW r, r = ProcessAck(s, st, p, grow)
  PROVE  \E left, pos2 :
           /\ Sends(s, left, pos) /\ Left(st, p, left)
           /\ Later(s, left, pos, r, pos2)
           /\ Waits(r) /\ Numbers(left, r)
           /\ r.status = "New" <=> st.status = "New"
           /\ st.status = "New" => r = left
<1>1. st \in StreamType /\ st.resendSet \in BOOLEAN
  BY SendsFacts
<1>2. PICK w \in Nat : w = GrownWindow(st, p, grow) /\ w >= 1 /\ w <= MAX_WINDOW_SIZE
  BY GrownWindowOK
<1>3. PICK before : before = [st EXCEPT !.sent = @ \ Acked(st, p), !.window = GrownWindow(st, p, grow)]
  OBVIOUS
<1>4. PICK b \in BOOLEAN : b = (st.resendSet /\ ~CancelResend(before))
  BY <1>1
<1>5. PICK left : left = [before EXCEPT !.resendSet = @ /\ ~CancelResend(before)]
  OBVIOUS
<1>6. left = [st EXCEPT !.sent = @ \ Acked(st, p), !.window = w, !.resendSet = b]
  <2>1. before.resendSet = st.resendSet
    BY <1>1, <1>3 DEF StreamType
  <2>2. left = [before EXCEPT !.resendSet = b]
    BY <1>4, <1>5, <2>1, Zenon
  <2>3. before = [st EXCEPT !.sent = @ \ Acked(st, p), !.window = w]
    BY <1>2, <1>3, Zenon
  <2> QED
    BY <1>1, <2>2, <2>3 DEF StreamType
<1>7. Sends(s, left, pos) /\ Left(st, p, left)
  <2>1. b => st.resendSet
    BY <1>4
  <2> QED
    BY <1>2, <1>4, <1>6, <2>1, LeftSends
<1>8. r = FinishClosing(s, RefillWindow(s, left, Acked(st, p) # {}))
  <2>1. left = TimedLeft(st, p, grow)
    BY <1>3, <1>5, Zenon DEF TimedLeft
  <2>2. ProcessAck(s, st, p, grow) =
           FinishClosing(s, RefillWindow(s, TimedLeft(st, p, grow), Acked(st, p) # {}))
    BY ProcessAckIs
  <2> QED
    BY <2>1, <2>2
<1>9. left.status = st.status /\ left.peer = st.peer /\ left.eof = st.eof /\ left.posted = st.posted
      /\ left.sent = st.sent \ Acked(st, p)
  BY <1>7 DEF Left
<1>10. PICK mid : mid = RefillWindow(s, left, Acked(st, p) # {})
  OBVIOUS
<1>11. /\ \E pos1 : Later(s, left, pos, mid, pos1)
       /\ Waits(mid) /\ mid.status = left.status /\ Numbers(left, mid)
       /\ st.status = "New" => mid = left
  <2>1. CASE Acked(st, p) # {}
    <3>1. mid = SendBuffer(s, [left EXCEPT !.attempts = 0])
      BY <1>10, <2>1 DEF RefillWindow
    <3>2. st.status # "New"
      BY <2>1 DEF Acked, Sends, Stages
    <3> QED
      BY <1>7, <1>9, <3>1, <3>2, RefillLater
  <2>2. CASE Acked(st, p) = {}
    <3>1. mid = left
      BY <1>10, <2>2 DEF RefillWindow
    <3>2. Later(s, left, pos, mid, pos)
      BY <1>7, <3>1, LaterRefl
    <3>3. Numbers(left, mid)
      BY <1>7, <3>1, NoNumbers
    <3>4. Waits(mid)
      BY <1>9, <2>2, <3>1 DEF Waits
    <3> QED
      BY <3>1, <3>2, <3>3, <3>4
  <2> QED
    BY <2>1, <2>2
<1>12. PICK pos1 : Later(s, left, pos, mid, pos1)
  BY <1>11
<1>13. CASE mid.status = "Closing"
  <2>1. r = Close(s, mid)
    BY <1>8, <1>10, <1>13 DEF FinishClosing
  <2>2. Sends(s, mid, pos1)
    BY <1>12 DEF Later
  <2>3. /\ \E pos2 : Later(s, mid, pos1, r, pos2)
        /\ Waits(mid) => Waits(r)
        /\ r.status = "New" <=> mid.status = "New"
        /\ Numbers(mid, r)
    <3>1. mid.status = "Open" => mid.closing
      BY <1>13
    <3> QED
      BY <2>1, <2>2, <3>1, CloseLater
  <2>4. PICK pos2 : Later(s, mid, pos1, r, pos2)
    BY <2>3
  <2>5. Later(s, left, pos, r, pos2)
    BY <1>7, <1>12, <2>4, LaterTrans
  <2>6. Numbers(left, r)
    BY <1>7, <1>11, <1>12, <2>3, <2>4, NumbersTrans
  <2>7. st.status # "New" /\ r.status # "New"
    BY <1>9, <1>11, <1>13, <2>3
  <2> QED
    BY <1>7, <1>11, <2>3, <2>5, <2>6, <2>7
<1>14. CASE mid.status # "Closing"
  <2>1. r = mid
    BY <1>8, <1>10, <1>14 DEF FinishClosing
  <2> QED
    BY <1>7, <1>9, <1>11, <1>12, <2>1
<1> QED
  BY <1>13, <1>14
=============================================================================
