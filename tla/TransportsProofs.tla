-------------------------- MODULE TransportsProofs --------------------------
(***************************************************************************)
(* Proofs about the transports: the two kinds of session (NTCPSession.tla   *)
(* and SSUSession.tla), for any number of connections, routers and          *)
(* sessions, and what gives them their messages (Transports.tla), for any   *)
(* number of routers, messages and sessions.                                *)
(***************************************************************************)
EXTENDS NTCPSession, SSUSession, Transports, FiniteSetTheorems, SequenceTheorems,
        WellFoundedInduction, TLAPS

(* The least of a set of numbers.                                           *)
LEMMA NatMin ==
  ASSUME NEW T, T \subseteq Nat, T # {}
  PROVE  Min(T) \in T
<1> DEFINE R == {ss \in Nat \X Nat : ss[1] < ss[2]}
<1>1. IsWellFoundedOn(R, Nat)
  BY NatLessThanWellFounded DEF OpToRel
<1>2. PICK x \in T : \A y \in T : ~(<<y, x>> \in R)
  <2> HIDE DEF R
  <2> QED
    BY <1>1, WFMin
<1>3. \A y \in T : ~(y < x)
  BY <1>2
<1>4. \A y \in T : x <= y
  BY <1>3
<1> QED
  BY <1>4 DEF Min

(* Induction for a set of numbers.                                          *)
LEMMA NatSetInduction ==
  ASSUME NEW S, 0 \in S, \A m \in Nat : m \in S => m + 1 \in S
  PROVE  \A m \in Nat : m \in S
<1> DEFINE R == {ss \in Nat \X Nat : ss[1] < ss[2]}
           T == {m \in Nat : m \notin S}
<1>1. IsWellFoundedOn(R, Nat)
  BY NatLessThanWellFounded DEF OpToRel
<1>2. CASE T = {}
  BY <1>2
<1>3. CASE T # {}
  <2>1. PICK x \in T : \A y \in T : ~(<<y, x>> \in R)
    <3>1. T \subseteq Nat
      OBVIOUS
    <3> HIDE DEF R, T
    <3> QED
      BY <1>1, <1>3, <3>1, WFMin
  <2>2. \A y \in T : ~(y < x)
    BY <2>1
  <2>3. x \in Nat /\ x # 0
    OBVIOUS
  <2>4. x - 1 \in Nat /\ x - 1 < x /\ x - 1 + 1 = x
    BY <2>3
  <2>5. x - 1 \in S
    BY <2>2, <2>4
  <2> QED
    BY <2>4, <2>5
<1> QED
  BY <1>2, <1>3

-----------------------------------------------------------------------------
(* SSU: what the handlers change is a world.  Its live sessions are those   *)
(* that a table, a batch or a peer test may point to.                       *)
Real == {k \in Nat \X Nat : k[1] # 0}
Sessions ==
  [owner : Routers, state : {"Unknown", "Introduced", "Established", "Closed", "Failed"},
   remote : Routers, router : Routers, dh : Nat, key : Nat \X Nat,
   timer : {"none", "connect", "term"}, tag : BOOLEAN, test : BOOLEAN, kept : SUBSET (Nat \X Nat)]

(* A client that is established, and not getting a new key, has a key with  *)
(* which a server was.                                                      *)
Good(s, pr) ==
  /\ s \in Sessions /\ s.kept \subseteq pr /\ (s.key = NoKey \/ s.key \in Real)
  /\ s.state = "Established" /\ Outgoing(s) /\ s.dh = 0 => s.key \in pr

Types == {"data", "request", "created", "confirmed", "test", "destroyed", "relayresp",
          "relayreq", "relayintro", "punch"}

(* A DeliveryStatus is encrypted with a key that was proven.                *)
GoodD(d, pr) ==
  /\ d.from \in Routers /\ d.type \in Types
  /\ d.type = "data" /\ d.body = Status => d.enc \in pr
  /\ d.type = "confirmed" => d.enc \in Real
  /\ d.type = "request" => d.body.n \in Nat \ {0}
  /\ d.type = "created" => d.body.n \in Nat
  /\ d.type = "relayreq" => d.body.addr \in Routers

WorldOf(o, t, ts, st, k, out, pr) ==
  [objs |-> o, table |-> t, tests |-> ts, status |-> st, keys |-> k, out |-> out, proven |-> pr]

IsWorld(w, L) ==
  /\ w = WorldOf(w.objs, w.table, w.tests, w.status, w.keys, w.out, w.proven)
  /\ L \subseteq Numbers /\ DOMAIN w.objs = Numbers /\ w.keys \in Nat
  /\ w.proven \subseteq Real /\ proven \subseteq w.proven
  /\ w.table \in [Routers -> [Routers -> L \cup {0}]]
  /\ DOMAIN w.tests = Routers /\ \A r \in Routers : w.tests[r].session \in L \cup {0}
  /\ \A j \in L : Good(w.objs[j], w.proven)
  /\ \A d \in w.out : GoodD(d, w.proven)

(* More proven keys do no harm.                                             *)
LEMMA GoodMore ==
  ASSUME NEW pr, NEW more, pr \subseteq more
  PROVE  /\ \A s : Good(s, pr) => Good(s, more)
         /\ \A d : GoodD(d, pr) => GoodD(d, more)
BY DEF Good, GoodD

LEMMA DatagramFacts ==
  ASSUME NEW type, NEW from \in Routers, NEW to, NEW enc, NEW body, NEW pr
  PROVE  /\ Datagram(type, from, to, enc, body).type = type
         /\ Datagram(type, from, to, enc, body).from = from
         /\ Datagram(type, from, to, enc, body).enc = enc
         /\ Datagram(type, from, to, enc, body).body = body
         /\ type \in {"destroyed", "test", "relayresp", "relayintro", "punch"}
              => GoodD(Datagram(type, from, to, enc, body), pr)
         /\ type = "data" /\ (body = Status => enc \in pr)
              => GoodD(Datagram(type, from, to, enc, body), pr)
BY DEF Datagram, GoodD, Types

LEMMA BodyFacts ==
  /\ Empty # Status
  /\ \A n, addr, ikey : Body(n, addr, ikey).n = n /\ Body(n, addr, ikey).addr = addr
BY DEF Empty, Status, Body

LEMMA Shape ==
  ASSUME NEW o, NEW t, NEW ts, NEW st, NEW k, NEW out, NEW pr, NEW w,
         w = WorldOf(o, t, ts, st, k, out, pr)
  PROVE  /\ w.objs = o /\ w.table = t /\ w.tests = ts /\ w.status = st /\ w.keys = k /\ w.out = out
         /\ w.proven = pr
         /\ \A new : [w EXCEPT !.out = new] = WorldOf(o, t, ts, st, k, new, pr)
         /\ \A new : [w EXCEPT !.objs = new] = WorldOf(new, t, ts, st, k, out, pr)
         /\ \A new : [w EXCEPT !.table = new] = WorldOf(o, new, ts, st, k, out, pr)
         /\ \A new : [w EXCEPT !.tests = new] = WorldOf(o, t, new, st, k, out, pr)
         /\ \A new : [w EXCEPT !.status = new] = WorldOf(o, t, ts, new, k, out, pr)
         /\ \A new : [w EXCEPT !.keys = new] = WorldOf(o, t, ts, st, new, out, pr)
         /\ \A new : [w EXCEPT !.proven = new] = WorldOf(o, t, ts, st, k, out, new)
BY DEF WorldOf

(* The ways in which a handler changes a world.                             *)
LEMMA SentKeeps ==
  ASSUME NEW w, NEW L, IsWorld(w, L), NEW d, GoodD(d, w.proven)
  PROVE  /\ IsWorld(Sent(w, d), L)
         /\ Sent(w, d).objs = w.objs /\ Sent(w, d).proven = w.proven /\ Sent(w, d).table = w.table
         /\ Sent(w, d).tests = w.tests
<1>1. PICK out : out = w.out \cup {d}
  OBVIOUS
<1>2. Sent(w, d) = WorldOf(w.objs, w.table, w.tests, w.status, w.keys, out, w.proven)
  <2>1. w = WorldOf(w.objs, w.table, w.tests, w.status, w.keys, w.out, w.proven)
    BY DEF IsWorld
  <2>2. Sent(w, d) = [w EXCEPT !.out = out]
    BY <1>1 DEF Sent
  <2> QED
    BY <2>1, <2>2, Shape
<1>3. \A e \in out : GoodD(e, w.proven)
  BY <1>1 DEF IsWorld
<1> QED
  BY <1>2, <1>3 DEF IsWorld, WorldOf

LEMMA WithKeeps ==
  ASSUME NEW w, NEW L, IsWorld(w, L), NEW i \in Numbers, NEW s, Good(s, w.proven)
  PROVE  /\ IsWorld(With(w, i, s), L) /\ IsWorld(With(w, i, s), L \cup {i})
         /\ With(w, i, s).objs[i] = s /\ With(w, i, s).proven = w.proven
         /\ With(w, i, s).table = w.table /\ With(w, i, s).tests = w.tests
         /\ With(w, i, s).keys = w.keys
<1>1. PICK o : o = [w.objs EXCEPT ![i] = s]
  OBVIOUS
<1>2. With(w, i, s) = WorldOf(o, w.table, w.tests, w.status, w.keys, w.out, w.proven)
  BY <1>1 DEF With, IsWorld, WorldOf
<1>3. DOMAIN o = Numbers /\ o[i] = s /\ \A j \in L \cup {i} : Good(o[j], w.proven)
  BY <1>1 DEF IsWorld
<1>4. /\ \A M : w.table \in [Routers -> [Routers -> L \cup {0}]]
                  => w.table \in [Routers -> [Routers -> L \cup {0, i}]]
      /\ L \cup {0, i} = L \cup {i} \cup {0}
  OBVIOUS
<1> QED
  BY <1>2, <1>3, <1>4 DEF IsWorld, WorldOf

LEMMA TestKeeps ==
  ASSUME NEW w, NEW L, IsWorld(w, L), NEW r \in Routers, NEW t, t.session \in L \cup {0}
  PROVE  LET v == [w EXCEPT !.tests[r] = t]
         IN IsWorld(v, L) /\ v.objs = w.objs /\ v.proven = w.proven /\ v.table = w.table
<1>1. PICK ts : ts = [w.tests EXCEPT ![r] = t]
  OBVIOUS
<1>2. [w EXCEPT !.tests[r] = t] = WorldOf(w.objs, w.table, ts, w.status, w.keys, w.out, w.proven)
  <2>1. w = WorldOf(w.objs, w.table, w.tests, w.status, w.keys, w.out, w.proven)
    BY DEF IsWorld
  <2>2. [w EXCEPT !.tests[r] = t] = [w EXCEPT !.tests = ts]
    BY <1>1
  <2> QED
    BY <2>1, <2>2, Shape
<1>3. DOMAIN ts = Routers /\ \A q \in Routers : ts[q].session \in L \cup {0}
  BY <1>1 DEF IsWorld
<1> QED
  BY <1>2, <1>3 DEF IsWorld, WorldOf

LEMMA StatusKeeps ==
  ASSUME NEW w, NEW L, IsWorld(w, L), NEW r \in Routers, NEW st
  PROVE  LET v == [w EXCEPT !.status[r] = st]
         IN IsWorld(v, L) /\ v.objs = w.objs /\ v.proven = w.proven /\ v.table = w.table
              /\ v.tests = w.tests
<1>1. PICK sts : sts = [w.status EXCEPT ![r] = st]
  OBVIOUS
<1>2. [w EXCEPT !.status[r] = st] = WorldOf(w.objs, w.table, w.tests, sts, w.keys, w.out, w.proven)
  <2>1. w = WorldOf(w.objs, w.table, w.tests, w.status, w.keys, w.out, w.proven)
    BY DEF IsWorld
  <2>2. [w EXCEPT !.status[r] = st] = [w EXCEPT !.status = sts]
    BY <1>1
  <2> QED
    BY <2>1, <2>2, Shape
<1> QED
  BY <1>2 DEF IsWorld, WorldOf

LEMMA TableKeeps ==
  ASSUME NEW w, NEW L, IsWorld(w, L), NEW r \in Routers, NEW e \in Routers, NEW n \in L \cup {0}
  PROVE  LET v == [w EXCEPT !.table[r][e] = n]
         IN IsWorld(v, L) /\ v.objs = w.objs /\ v.proven = w.proven /\ v.tests = w.tests
<1>1. PICK t : t = [w.table EXCEPT ![r][e] = n]
  OBVIOUS
<1>2. [w EXCEPT !.table[r][e] = n] = WorldOf(w.objs, t, w.tests, w.status, w.keys, w.out, w.proven)
  <2>1. w = WorldOf(w.objs, w.table, w.tests, w.status, w.keys, w.out, w.proven)
    BY DEF IsWorld
  <2>2. [w EXCEPT !.table[r][e] = n] = [w EXCEPT !.table = t]
    BY <1>1
  <2> QED
    BY <2>1, <2>2, Shape
<1>3. t \in [Routers -> [Routers -> L \cup {0}]]
  BY <1>1 DEF IsWorld
<1> QED
  BY <1>2, <1>3 DEF IsWorld, WorldOf

LEMMA SendOwnKeeps ==
  ASSUME NEW w, NEW L, IsWorld(w, L), NEW i \in L, NEW type, NEW body,
         \/ type \in {"destroyed", "test", "relayresp", "relayintro", "punch"}
         \/ type = "data" /\ (body = Status => w.objs[i].key \in w.proven)
         \/ type = "confirmed" /\ w.objs[i].key \in Real
  PROVE  /\ IsWorld(SendOwn(w, i, type, body), L)
         /\ SendOwn(w, i, type, body).objs = w.objs /\ SendOwn(w, i, type, body).proven = w.proven
         /\ SendOwn(w, i, type, body).table = w.table /\ SendOwn(w, i, type, body).tests = w.tests
<1>1. PICK s : s = w.objs[i]
  OBVIOUS
<1>2. Good(s, w.proven) /\ s.owner \in Routers
  BY <1>1 DEF IsWorld, Good, Sessions
<1>3. PICK d : d = Datagram(type, s.owner, s.remote, s.key, body)
  OBVIOUS
<1>4. GoodD(d, w.proven)
  <2>1. CASE type = "confirmed"
    BY <1>1, <1>2, <1>3, <2>1 DEF GoodD, Datagram, Types
  <2>2. CASE type # "confirmed"
    BY <1>1, <1>2, <1>3, <2>2, DatagramFacts
  <2> QED
    BY <2>1, <2>2
<1>5. SendOwn(w, i, type, body) = Sent(w, d)
  BY <1>1, <1>3 DEF SendOwn
<1> QED
  BY <1>4, <1>5, SentKeeps

LEMMA KeysKeeps ==
  ASSUME NEW w, NEW L, IsWorld(w, L)
  PROVE  LET v == [w EXCEPT !.keys = @ + 1]
         IN IsWorld(v, L) /\ v.objs = w.objs /\ v.proven = w.proven /\ v.table = w.table
              /\ v.tests = w.tests
<1>1. PICK k : k = w.keys + 1
  OBVIOUS
<1>2. w = WorldOf(w.objs, w.table, w.tests, w.status, w.keys, w.out, w.proven)
  BY DEF IsWorld
<1>3. [w EXCEPT !.keys = @ + 1] = [w EXCEPT !.keys = k]
  BY <1>1
<1>4. [w EXCEPT !.keys = @ + 1] = WorldOf(w.objs, w.table, w.tests, w.status, k, w.out, w.proven)
  BY <1>2, <1>3, Shape
<1>5. k \in Nat
  BY <1>1 DEF IsWorld
<1> QED
  BY <1>4, <1>5 DEF IsWorld, WorldOf

LEMMA ProvenKeeps ==
  ASSUME NEW w, NEW L, IsWorld(w, L), NEW key \in Real
  PROVE  LET v == [w EXCEPT !.proven = @ \cup {key}]
         IN IsWorld(v, L) /\ v.objs = w.objs /\ v.proven = w.proven \cup {key}
              /\ v.table = w.table /\ v.tests = w.tests
<1>1. PICK pr : pr = w.proven \cup {key}
  OBVIOUS
<1>2. w = WorldOf(w.objs, w.table, w.tests, w.status, w.keys, w.out, w.proven)
  BY DEF IsWorld
<1>3. [w EXCEPT !.proven = @ \cup {key}] = [w EXCEPT !.proven = pr]
  BY <1>1
<1>4. [w EXCEPT !.proven = @ \cup {key}] = WorldOf(w.objs, w.table, w.tests, w.status, w.keys, w.out, pr)
  BY <1>2, <1>3, Shape
<1>5. /\ pr \subseteq Real
      /\ \A j \in L : Good(w.objs[j], pr)
      /\ \A d \in w.out : GoodD(d, pr)
  <2>1. w.proven \subseteq pr
    BY <1>1
  <2> QED
    BY <1>1, <2>1, GoodMore DEF IsWorld
<1> QED
  BY <1>1, <1>4, <1>5 DEF IsWorld, WorldOf

-----------------------------------------------------------------------------
(* The ends of a session.                                                   *)
LEMMA CloseKeeps ==
  ASSUME NEW w, NEW L, IsWorld(w, L), NEW i \in L
  PROVE  IsWorld(Close(w, i), L)
<1>1. PICK s : s = w.objs[i]
  OBVIOUS
<1>2. Good(s, w.proven) /\ i \in Numbers
  BY <1>1 DEF IsWorld
<1>3. PICK c : c = [s EXCEPT !.state = "Closed", !.timer = "none"]
  OBVIOUS
<1>4. Good(c, w.proven)
  BY <1>2, <1>3 DEF Good, Sessions, Outgoing
<1>5. PICK v : v = With(w, i, c)
  OBVIOUS
<1>6. IsWorld(v, L)
  BY <1>2, <1>4, <1>5, WithKeeps
<1>7. Close(w, i) = IF s.key = NoKey THEN v ELSE SendOwn(v, i, "destroyed", Empty)
  BY <1>1, <1>3, <1>5 DEF Close
<1> QED
  BY <1>6, <1>7, SendOwnKeeps

LEMMA DeleteSessionKeeps ==
  ASSUME NEW w, NEW L, IsWorld(w, L), NEW i \in L
  PROVE  IsWorld(DeleteSession(w, i), L)
<1>1. PICK s : s = w.objs[i]
  OBVIOUS
<1>2. s.owner \in Routers /\ s.remote \in Routers
  BY <1>1 DEF IsWorld, Good, Sessions
<1>3. PICK v : v = Close(w, i)
  OBVIOUS
<1>4. IsWorld(v, L)
  BY <1>3, CloseKeeps
<1>5. DeleteSession(w, i) = [v EXCEPT !.table[s.owner][s.remote] = 0]
  BY <1>1, <1>3 DEF DeleteSession
<1> QED
  BY <1>2, <1>4, <1>5, TableKeeps

LEMMA FailedKeeps ==
  ASSUME NEW w, NEW L, IsWorld(w, L), NEW i \in L
  PROVE  IsWorld(Failed(w, i), L)
<1>1. PICK s : s = w.objs[i]
  OBVIOUS
<1>2. Good(s, w.proven) /\ i \in Numbers
  BY <1>1 DEF IsWorld
<1>3. PICK f : f = [s EXCEPT !.state = "Failed"]
  OBVIOUS
<1>4. Good(f, w.proven)
  BY <1>2, <1>3 DEF Good, Sessions, Outgoing
<1>5. PICK v : v = With(w, i, f)
  OBVIOUS
<1>6. IsWorld(v, L)
  BY <1>2, <1>4, <1>5, WithKeeps
<1>7. Failed(w, i) = w \/ Failed(w, i) = DeleteSession(v, i)
  BY <1>1, <1>3, <1>5 DEF Failed
<1> QED
  BY <1>6, <1>7, DeleteSessionKeeps

-----------------------------------------------------------------------------
(* The handshake.                                                           *)
LEMMA NextKeyKeeps ==
  ASSUME NEW w, NEW L, IsWorld(w, L), NEW i \in L, NEW s, s = w.objs[i]
  PROVE  /\ IsWorld(NextKey(w, i), L) /\ NextKey(w, i).proven = w.proven
         /\ \E n \in Nat \ {0} : NextKey(w, i).objs[i] = [s EXCEPT !.dh = n]
<1>1. s = w.objs[i]
  OBVIOUS
<1>2. Good(s, w.proven) /\ i \in Numbers /\ w.keys \in Nat
  BY <1>1 DEF IsWorld
<1>3. PICK n : n = w.keys + 1
  OBVIOUS
<1>4. PICK t : t = [s EXCEPT !.dh = n]
  OBVIOUS
<1>5. Good(t, w.proven) /\ n \in Nat \ {0}
  BY <1>2, <1>3, <1>4 DEF Good, Sessions, Outgoing
<1>6. PICK v : v = [w EXCEPT !.keys = @ + 1]
  OBVIOUS
<1>7. IsWorld(v, L) /\ v.objs = w.objs /\ v.proven = w.proven
  BY <1>6, KeysKeeps
<1>8. NextKey(w, i) = With(v, i, t)
  <2>1. w = WorldOf(w.objs, w.table, w.tests, w.status, w.keys, w.out, w.proven)
    BY DEF IsWorld
  <2>2. v = [w EXCEPT !.keys = n]
    BY <1>3, <1>6
  <2>3. v = WorldOf(w.objs, w.table, w.tests, w.status, n, w.out, w.proven)
    BY <2>1, <2>2, Shape
  <2>4. PICK o : o = [w.objs EXCEPT ![i] = t]
    OBVIOUS
  <2>5. With(v, i, t) = [v EXCEPT !.objs = o]
    BY <1>7, <2>4 DEF With
  <2>6. With(v, i, t) = WorldOf(o, w.table, w.tests, w.status, n, w.out, w.proven)
    BY <2>3, <2>5, Shape
  <2>7. o = [w.objs EXCEPT ![i].dh = n]
    BY <1>1, <1>4, <2>4
  <2>8. NextKey(w, i) = [w EXCEPT !.keys = n, !.objs = o]
    BY <1>3, <2>7 DEF NextKey
  <2>9. NextKey(w, i) = WorldOf(o, w.table, w.tests, w.status, n, w.out, w.proven)
    <3>1. NextKey(w, i) = [v EXCEPT !.objs = o]
      BY <2>2, <2>8
    <3> QED
      BY <2>5, <2>6, <3>1
  <2> QED
    BY <2>6, <2>9
<1> QED
  BY <1>1, <1>2, <1>4, <1>5, <1>7, <1>8, WithKeeps

LEMMA SendSessionRequestKeeps ==
  ASSUME NEW w, NEW L, IsWorld(w, L), NEW i \in L, w.objs[i].dh # 0
  PROVE  IsWorld(SendSessionRequest(w, i), L)
<1>1. PICK s : s = w.objs[i]
  OBVIOUS
<1>2. s.owner \in Routers /\ s.dh \in Nat \ {0}
  BY <1>1 DEF IsWorld, Good, Sessions
<1>3. PICK body : body = Body(s.dh, NoSession, NoSession)
  OBVIOUS
<1>4. PICK d : d = Datagram("request", s.owner, s.remote, GetIntroKey(s), body)
  OBVIOUS
<1>5. GoodD(d, w.proven)
  BY <1>2, <1>3, <1>4, BodyFacts DEF GoodD, Datagram, Types
<1>6. SendSessionRequest(w, i) = Sent(w, d)
  BY <1>1, <1>3, <1>4 DEF SendSessionRequest
<1> QED
  BY <1>5, <1>6, SentKeeps

LEMMA SendSessionCreatedKeeps ==
  ASSUME NEW w, NEW L, IsWorld(w, L), NEW i \in L
  PROVE  IsWorld(SendSessionCreated(w, i), L)
<1>1. PICK s : s = w.objs[i]
  OBVIOUS
<1>2. s.owner \in Routers /\ s.dh \in Nat
  BY <1>1 DEF IsWorld, Good, Sessions
<1>3. PICK body : body = Body(s.dh, NoSession, NoSession)
  OBVIOUS
<1>4. PICK d : d = Datagram("created", s.owner, s.remote, GetIntroKey(s), body)
  OBVIOUS
<1>5. GoodD(d, w.proven)
  BY <1>2, <1>3, <1>4, BodyFacts DEF GoodD, Datagram, Types
<1>6. SendSessionCreated(w, i) = Sent(w, d)
  BY <1>1, <1>3, <1>4 DEF SendSessionCreated
<1> QED
  BY <1>5, <1>6, SentKeeps

LEMMA TimerGood ==
  ASSUME NEW pr, NEW s, Good(s, pr)
  PROVE  Good(ScheduleConnectTimer(s), pr) /\ Good(ScheduleTerminationSSU(s), pr)
           /\ Good(WaitForConnect(s), pr)
<1>1. Good(ScheduleConnectTimer(s), pr)
  BY DEF Good, Sessions, Outgoing, ScheduleConnectTimer
<1>2. Good(ScheduleTerminationSSU(s), pr)
  BY DEF Good, Sessions, Outgoing, ScheduleTerminationSSU
<1> QED
  BY <1>1, <1>2 DEF WaitForConnect

LEMMA ConnectKeeps ==
  ASSUME NEW w, NEW L, IsWorld(w, L), NEW i \in L
  PROVE  IsWorld(Connect(w, i), L)
<1>1. PICK s : s = ScheduleConnectTimer(w.objs[i])
  OBVIOUS
<1>2. Good(s, w.proven) /\ i \in Numbers
  BY <1>1, TimerGood DEF IsWorld
<1>3. PICK v : v = With(w, i, s)
  OBVIOUS
<1>4. IsWorld(v, L) /\ v.objs[i] = s /\ v.proven = w.proven
  BY <1>2, <1>3, WithKeeps
<1>5. PICK u : u = NextKey(v, i)
  OBVIOUS
<1>6. IsWorld(u, L) /\ \E n \in Nat \ {0} : u.objs[i] = [s EXCEPT !.dh = n]
  BY <1>4, <1>5, NextKeyKeeps
<1>7. u.objs[i].dh # 0
  BY <1>2, <1>6 DEF Good, Sessions
<1>8. Connect(w, i) = w \/ Connect(w, i) = SendSessionRequest(u, i)
  BY <1>1, <1>3, <1>5 DEF Connect
<1> QED
  BY <1>6, <1>7, <1>8, SendSessionRequestKeeps

LEMMA ProcessSessionRequestKeeps ==
  ASSUME NEW w, NEW L, IsWorld(w, L), NEW i \in L, NEW d, GoodD(d, w.proven), d.type = "request"
  PROVE  IsWorld(ProcessSessionRequest(w, i, d), L)
<1>1. d.from \in Routers /\ d.body.n \in Nat \ {0}
  BY DEF GoodD
<1> PICK old, from : old = w.objs[i] /\ from = d.from
  OBVIOUS
<1>2. PICK s : s = [old EXCEPT !.remote = from]
  OBVIOUS
<1>3. Good(s, w.proven) /\ i \in Numbers
  <2>1. Good(old, w.proven) /\ i \in Numbers
    BY DEF IsWorld
  <2> QED
    BY <1>1, <1>2, <2>1 DEF Good, Sessions, Outgoing
<1>4. PICK v : v = With(w, i, s)
  OBVIOUS
<1>5. IsWorld(v, L) /\ v.objs[i] = s /\ v.proven = w.proven
  BY <1>3, <1>4, WithKeeps
<1>6. PICK k : k = IF v.objs[i].dh = 0 THEN NextKey(v, i) ELSE v
  OBVIOUS
<1>7. IsWorld(k, L) /\ k.objs[i].dh # 0
  <2>1. CASE v.objs[i].dh = 0
    <3>1. IsWorld(k, L) /\ \E n \in Nat \ {0} : k.objs[i] = [s EXCEPT !.dh = n]
      BY <1>5, <1>6, <2>1, NextKeyKeeps
    <3> QED
      BY <1>3, <3>1 DEF Good, Sessions
  <2>2. CASE v.objs[i].dh # 0
    BY <1>5, <1>6, <2>2
  <2> QED
    BY <2>1, <2>2
<1>8. PICK a : a = k.objs[i]
  OBVIOUS
<1>9. Good(a, k.proven) /\ a.dh \in Nat \ {0}
  BY <1>7, <1>8 DEF IsWorld, Good, Sessions
<1>10. PICK key : key = <<d.body.n, a.dh>>
  OBVIOUS
<1>11. key \in Real /\ key \in Nat \X Nat
  BY <1>1, <1>9, <1>10 DEF Real
<1>12. PICK b : b = [a EXCEPT !.key = key]
  OBVIOUS
<1>13. Good(b, k.proven)
  BY <1>9, <1>11, <1>12 DEF Good, Sessions, Outgoing
<1>14. PICK u : u = With(k, i, b)
  OBVIOUS
<1>15. IsWorld(u, L)
  BY <1>3, <1>7, <1>13, <1>14, WithKeeps
<1>16. ProcessSessionRequest(w, i, d) = SendSessionCreated(u, i)
  BY <1>2, <1>4, <1>6, <1>8, <1>10, <1>12, <1>14 DEF ProcessSessionRequest, CreateAESandMacKey
<1> QED
  BY <1>15, <1>16, SendSessionCreatedKeeps

LEMMA ProcessSessionCreatedKeeps ==
  ASSUME NEW w, NEW L, IsWorld(w, L), NEW i \in L, NEW d, GoodD(d, w.proven), d.type = "created"
  PROVE  IsWorld(ProcessSessionCreated(w, i, d), L)
<1>1. d.body.n \in Nat
  BY DEF GoodD
<1>2. PICK s : s = w.objs[i]
  OBVIOUS
<1>3. Good(s, w.proven) /\ i \in Numbers
  BY <1>2 DEF IsWorld
<1>4. CASE ~Outgoing(s) \/ s.dh = 0
  BY <1>2, <1>4 DEF ProcessSessionCreated
<1>5. CASE ~(~Outgoing(s) \/ s.dh = 0)
  <2>1. PICK key : key = <<s.dh, d.body.n>>
    OBVIOUS
  <2>2. s.dh \in Nat \ {0}
    BY <1>3, <1>5 DEF Good, Sessions
  <2>3. key \in Real /\ key \in Nat \X Nat
    BY <1>1, <2>1, <2>2 DEF Real
  <2>4. PICK a, tag : a = [s EXCEPT !.key = key] /\ tag = (d.from \in Introducers)
    OBVIOUS
  <2>5. Good(a, w.proven) /\ a.key = key /\ a.dh # 0
    BY <1>3, <2>2, <2>3, <2>4 DEF Good, Sessions, Outgoing
  <2>6. PICK b : b = [a EXCEPT !.timer = "none"]
    OBVIOUS
  <2>7. Good(b, w.proven) /\ b.key = key /\ b.dh # 0
    BY <2>5, <2>6 DEF Good, Sessions, Outgoing
  <2>8. PICK c : c = [b EXCEPT !.tag = tag]
    OBVIOUS
  <2>9. tag \in BOOLEAN
    BY <2>4
  <2>10. Good(c, w.proven) /\ c.key = key
    BY <2>7, <2>8, <2>9 DEF Good, Sessions, Outgoing
  <2>11. PICK v : v = With(w, i, c)
    OBVIOUS
  <2>12. IsWorld(v, L) /\ v.objs[i] = c
    BY <1>3, <2>10, <2>11, WithKeeps
  <2>13. ProcessSessionCreated(w, i, d) = SendOwn(v, i, "confirmed", Empty)
    <3>1. c = [CreateAESandMacKey(s, s.dh, d.body.n) EXCEPT
                 !.timer = "none", !.tag = (d.from \in Introducers)]
      BY <2>1, <2>4, <2>6, <2>8 DEF CreateAESandMacKey
    <3> QED
      BY <1>2, <1>5, <2>11, <3>1 DEF ProcessSessionCreated, SendSessionConfirmed
  <2> QED
    BY <2>3, <2>10, <2>12, <2>13, SendOwnKeeps
<1> QED
  BY <1>4, <1>5

LEMMA StartPeerTestKeeps ==
  ASSUME NEW w, NEW L, IsWorld(w, L), NEW i \in L
  PROVE  IsWorld(StartPeerTest(w, i), L)
<1>1. PICK s : s = w.objs[i]
  OBVIOUS
<1>2. Good(s, w.proven) /\ i \in Numbers /\ s.owner \in Routers
  BY <1>1 DEF IsWorld, Good, Sessions
<1>3. PICK t : t = [s EXCEPT !.test = FALSE]
  OBVIOUS
<1>4. Good(t, w.proven)
  BY <1>2, <1>3 DEF Good, Sessions, Outgoing
<1>5. PICK v : v = With(w, i, t)
  OBVIOUS
<1>6. IsWorld(v, L)
  BY <1>2, <1>4, <1>5, WithKeeps
<1>7. PICK role : role = [role |-> "Alice1", session |-> 0]
  OBVIOUS
<1>8. PICK u : u = [v EXCEPT !.tests[s.owner] = role]
  OBVIOUS
<1>9. IsWorld(u, L)
  <2>1. role.session \in L \cup {0}
    BY <1>7
  <2> QED
    BY <1>2, <1>6, <1>8, <2>1, TestKeeps
<1>10. StartPeerTest(w, i) = SendOwn(u, i, "test", Body(0, NoSession, s.owner))
  <2>1. [w.objs EXCEPT ![i] = t] = [w.objs EXCEPT ![i].test = FALSE]
    BY <1>1, <1>3
  <2>2. u = [w EXCEPT !.objs[i].test = FALSE, !.tests[s.owner] = role]
    BY <1>5, <1>8, <2>1 DEF With
  <2> QED
    BY <1>1, <1>7, <2>2 DEF StartPeerTest
<1> QED
  BY <1>9, <1>10, SendOwnKeeps

LEMMA EstablishedKeeps ==
  ASSUME NEW w, NEW L, IsWorld(w, L), NEW i \in L, w.objs[i].key \in w.proven
  PROVE  IsWorld(Established(w, i), L)
<1>1. PICK s : s = w.objs[i]
  OBVIOUS
<1>2. Good(s, w.proven) /\ i \in Numbers
  BY <1>1 DEF IsWorld
<1>3. PICK a : a = [s EXCEPT !.state = "Established", !.dh = 0]
  OBVIOUS
<1>4. Good(a, w.proven)
  BY <1>1, <1>2, <1>3 DEF Good, Sessions, Outgoing
<1>5. PICK b : b = ScheduleTerminationSSU(a)
  OBVIOUS
<1>6. Good(b, w.proven)
  BY <1>4, <1>5, TimerGood
<1>7. PICK v : v = With(w, i, b)
  OBVIOUS
<1>8. IsWorld(v, L)
  BY <1>2, <1>6, <1>7, WithKeeps
<1>9. PICK u : u = SendOwn(v, i, "data", Empty)
  OBVIOUS
<1>10. IsWorld(u, L)
  BY <1>8, <1>9, BodyFacts, SendOwnKeeps
<1>11. Established(w, i) = u \/ Established(w, i) = StartPeerTest(u, i)
  BY <1>1, <1>3, <1>5, <1>7, <1>9 DEF Established
<1> QED
  BY <1>10, <1>11, StartPeerTestKeeps

LEMMA ProcessSessionConfirmedKeeps ==
  ASSUME NEW w, NEW L, IsWorld(w, L), NEW i \in L, w.objs[i].key \in Real
  PROVE  IsWorld(ProcessSessionConfirmed(w, i), L)
<1>1. PICK s : s = w.objs[i]
  OBVIOUS
<1>2. PICK v : v = [w EXCEPT !.proven = @ \cup {s.key}]
  OBVIOUS
<1>3. IsWorld(v, L) /\ v.objs = w.objs /\ v.proven = w.proven \cup {s.key}
  BY <1>1, <1>2, ProvenKeeps
<1>4. Good(s, v.proven) /\ i \in Numbers /\ s.key \in v.proven
  BY <1>1, <1>3 DEF IsWorld
<1>5. PICK kept : kept = s.kept \cup {s.key}
  OBVIOUS
<1>6. PICK t : t = [s EXCEPT !.kept = kept]
  OBVIOUS
<1>7. Good(t, v.proven) /\ t.key = s.key
  <2>1. kept \subseteq v.proven /\ kept \subseteq Nat \X Nat
    BY <1>4, <1>5 DEF Good, Sessions
  <2> QED
    BY <1>4, <1>6, <2>1 DEF Good, Sessions, Outgoing
<1>8. PICK u : u = With(v, i, t)
  OBVIOUS
<1>9. IsWorld(u, L) /\ u.objs[i] = t /\ u.proven = v.proven
  <2>1. IsWorld(v, L)
    BY <1>3
  <2>2. Good(t, v.proven) /\ i \in Numbers
    BY <1>4, <1>7
  <2> QED
    BY <1>8, <2>1, <2>2, WithKeeps
<1>10. PICK x : x = SendOwn(u, i, "data", Status)
  OBVIOUS
<1>11. IsWorld(x, L) /\ x.objs[i] = t /\ x.proven = v.proven
  <2>1. u.objs[i].key \in u.proven
    BY <1>4, <1>7, <1>9
  <2> QED
    BY <1>9, <1>10, <2>1, SendOwnKeeps
<1>12. ProcessSessionConfirmed(w, i) = Established(x, i)
  <2>1. [v.objs EXCEPT ![i] = t] = [v.objs EXCEPT ![i].kept = @ \cup {s.key}]
    BY <1>1, <1>3, <1>5, <1>6
  <2>2. u = [v EXCEPT !.objs[i].kept = @ \cup {v.objs[i].key}]
    BY <1>1, <1>3, <1>8, <2>1 DEF With
  <2>3. x = SendDeliveryStatus(v, i)
    BY <1>10, <2>2 DEF SendDeliveryStatus
  <2> QED
    BY <1>1, <1>2, <2>3 DEF ProcessSessionConfirmed
<1>13. x.objs[i].key \in x.proven
  BY <1>4, <1>7, <1>11
<1> QED
  BY <1>11, <1>12, <1>13, EstablishedKeeps

(* What is not encrypted with an intro key is encrypted with the session's. *)
LEMMA ValidKey ==
  ASSUME NEW s, NEW d, Validate(s, d), d.enc \in Real
  PROVE  s.key = d.enc
BY DEF Validate, GetIntroKey, Intro, Real

LEMMA ProcessDataKeeps ==
  ASSUME NEW w, NEW L, IsWorld(w, L), NEW i \in L, NEW d, GoodD(d, w.proven), d.type = "data",
         Validate(w.objs[i], d)
  PROVE  IsWorld(ProcessData(w, i, d), L)
<1>1. CASE d.body = Status
  <2>1. d.enc \in w.proven /\ d.enc \in Real
    BY <1>1 DEF GoodD, IsWorld
  <2>2. w.objs[i].key \in w.proven
    BY <2>1, ValidKey
  <2> QED
    BY <2>2, EstablishedKeeps DEF ProcessData
<1>2. CASE d.body # Status
  BY <1>2 DEF ProcessData
<1> QED
  BY <1>1, <1>2

-----------------------------------------------------------------------------
(* Introduction.                                                            *)
LEMMA SendRelayRequestKeeps ==
  ASSUME NEW w, NEW L, IsWorld(w, L), NEW i \in L, NEW to \in Routers
  PROVE  IsWorld(SendRelayRequest(w, i, to), L)
<1>1. PICK s : s = w.objs[i]
  OBVIOUS
<1>2. s.owner \in Routers
  BY <1>1 DEF IsWorld, Good, Sessions
<1>3. PICK enc : enc = IF s.state = "Established" THEN s.key ELSE Intro(s.remote)
  OBVIOUS
<1>4. PICK body : body = Body(0, to, s.owner)
  OBVIOUS
<1>5. PICK d : d = Datagram("relayreq", s.owner, s.remote, enc, body)
  OBVIOUS
<1>6. GoodD(d, w.proven)
  BY <1>2, <1>4, <1>5, BodyFacts DEF GoodD, Datagram, Types
<1>7. SendRelayRequest(w, i, to) = Sent(w, d)
  BY <1>1, <1>3, <1>4, <1>5 DEF SendRelayRequest
<1> QED
  BY <1>6, <1>7, SentKeeps

LEMMA IntroduceKeeps ==
  ASSUME NEW w, NEW L, IsWorld(w, L), NEW i \in L, NEW to \in Routers
  PROVE  IsWorld(Introduce(w, i, to), L)
<1>1. PICK s : s = ScheduleConnectTimer(w.objs[i])
  OBVIOUS
<1>2. Good(s, w.proven) /\ i \in Numbers
  BY <1>1, TimerGood DEF IsWorld
<1>3. PICK v : v = With(w, i, s)
  OBVIOUS
<1>4. IsWorld(v, L)
  BY <1>2, <1>3, WithKeeps
<1>5. Introduce(w, i, to) = SendRelayRequest(v, i, to) \/ Introduce(w, i, to) = SendRelayRequest(w, i, to)
  BY <1>1, <1>3 DEF Introduce
<1> QED
  BY <1>4, <1>5, SendRelayRequestKeeps

(* A datagram of one of the kinds that carry nothing to be careful about.   *)
LEMMA PlainKeeps ==
  ASSUME NEW w, NEW L, IsWorld(w, L), NEW from \in Routers, NEW to, NEW enc, NEW body,
         NEW type \in {"destroyed", "test", "relayresp", "relayintro", "punch"}
  PROVE  LET v == Sent(w, Datagram(type, from, to, enc, body))
         IN IsWorld(v, L) /\ v.objs = w.objs /\ v.proven = w.proven /\ v.table = w.table
              /\ v.tests = w.tests
<1>1. PICK d : d = Datagram(type, from, to, enc, body)
  OBVIOUS
<1>2. GoodD(d, w.proven)
  BY <1>1, DatagramFacts
<1> QED
  BY <1>1, <1>2, SentKeeps

LEMMA ProcessRelayRequestKeeps ==
  ASSUME NEW w, NEW L, IsWorld(w, L), NEW i \in L, NEW d, GoodD(d, w.proven), d.type = "relayreq"
  PROVE  IsWorld(ProcessRelayRequest(w, i, d), L)
<1>1. PICK s : s = w.objs[i]
  OBVIOUS
<1>2. s.owner \in Routers /\ d.body.addr \in Routers
  BY <1>1 DEF IsWorld, Good, Sessions, GoodD
<1>3. PICK j : j = w.table[s.owner][d.body.addr]
  OBVIOUS
<1>4. j \in L \cup {0}
  BY <1>2, <1>3 DEF IsWorld
<1>5. CASE j = 0 \/ s.owner \notin Introducers
  BY <1>1, <1>3, <1>5 DEF ProcessRelayRequest
<1>6. CASE ~(j = 0 \/ s.owner \notin Introducers)
  <2>1. PICK v : v = SendRelayResponse(w, i, d)
    OBVIOUS
  <2>2. IsWorld(v, L)
    <3>1. CASE s.state = "Established"
      BY <1>1, <2>1, <3>1, SendOwnKeeps DEF SendRelayResponse
    <3>2. CASE s.state # "Established"
      BY <1>1, <1>2, <2>1, <3>2, PlainKeeps DEF SendRelayResponse
    <3> QED
      BY <3>1, <3>2
  <2>3. j \in L /\ v.objs[j].owner \in Routers
    BY <1>4, <1>6, <2>2 DEF IsWorld, Good, Sessions
  <2>4. PICK t : t = v.objs[j]
    OBVIOUS
  <2>5. ProcessRelayRequest(w, i, d)
          = Sent(v, Datagram("relayintro", t.owner, t.remote, t.key, Body(0, d.from, NoSession)))
    BY <1>1, <1>3, <1>6, <2>1, <2>4 DEF ProcessRelayRequest, SendRelayIntro
  <2> QED
    BY <2>2, <2>3, <2>4, <2>5, PlainKeeps
<1> QED
  BY <1>5, <1>6

LEMMA ProcessRelayIntroKeeps ==
  ASSUME NEW w, NEW L, IsWorld(w, L), NEW i \in L, NEW d
  PROVE  IsWorld(ProcessRelayIntro(w, i, d), L)
<1>1. w.objs[i].owner \in Routers
  BY DEF IsWorld, Good, Sessions
<1> QED
  BY <1>1, PlainKeeps DEF ProcessRelayIntro, HolePunch

LEMMA ProcessRelayResponseKeeps ==
  ASSUME NEW w, NEW L, IsWorld(w, L), NEW i \in L
  PROVE  IsWorld(ProcessRelayResponse(w, i), L)
BY DeleteSessionKeeps DEF ProcessRelayResponse

-----------------------------------------------------------------------------
(* Peer tests.                                                              *)
LEMMA SendPeerTestToKeeps ==
  ASSUME NEW w, NEW L, IsWorld(w, L), NEW r \in Routers, NEW addr, NEW ikey, NEW body
  PROVE  LET v == SendPeerTestTo(w, r, addr, ikey, body)
         IN IsWorld(v, L) /\ v.objs = w.objs /\ v.proven = w.proven /\ v.table = w.table
              /\ v.tests = w.tests
BY PlainKeeps DEF SendPeerTestTo

LEMMA RemovePeerTestKeeps ==
  ASSUME NEW w, NEW L, IsWorld(w, L), NEW r \in Routers
  PROVE  LET v == RemovePeerTest(w, r)
         IN IsWorld(v, L) /\ v.objs = w.objs /\ v.proven = w.proven /\ v.table = w.table
<1>1. NoTest.session \in L \cup {0}
  BY DEF NoTest
<1> QED
  BY <1>1, TestKeeps DEF RemovePeerTest

LEMMA SetTestKeeps ==
  ASSUME NEW w, NEW L, IsWorld(w, L), NEW r \in Routers, NEW role, NEW n \in L \cup {0}
  PROVE  LET v == SetTest(w, r, role, n)
         IN IsWorld(v, L) /\ v.objs = w.objs /\ v.proven = w.proven /\ v.table = w.table
<1>1. PICK t : t = [role |-> role, session |-> n]
  OBVIOUS
<1>2. t.session \in L \cup {0}
  BY <1>1
<1>3. SetTest(w, r, role, n) = [w EXCEPT !.tests[r] = t]
  BY <1>1 DEF SetTest
<1> QED
  BY <1>2, <1>3, TestKeeps

LEMMA TestAliceKeeps ==
  ASSUME NEW w, NEW L, IsWorld(w, L), NEW i \in L, NEW d
  PROVE  IsWorld(TestAlice(w, i, d), L)
<1>1. PICK s : s = w.objs[i]
  OBVIOUS
<1>2. PICK r : r = s.owner
  OBVIOUS
<1>3. r \in Routers
  BY <1>1, <1>2 DEF IsWorld, Good, Sessions
<1>4. PICK ok : ok = [w EXCEPT !.status[r] = "OK"]
  OBVIOUS
<1>5. IsWorld(ok, L)
  BY <1>3, <1>4, StatusKeeps
<1>6. IsWorld([w EXCEPT !.status[r] = "Firewalled"], L)
  BY <1>3, StatusKeeps
<1>7. IsWorld(RemovePeerTest(ok, r), L)
  BY <1>3, <1>5, RemovePeerTestKeeps
<1>8. PICK v : v = SetTest(ok, r, "Alice2", 0)
  OBVIOUS
<1>9. IsWorld(v, L)
  BY <1>3, <1>5, <1>8, SetTestKeeps
<1>10. IsWorld(SendPeerTestTo(v, r, d.from, d.body.ikey, Body(0, NoSession, r)), L)
  BY <1>3, <1>9, SendPeerTestToKeeps
<1>11. \/ TestAlice(w, i, d) = [w EXCEPT !.status[r] = "Firewalled"]
       \/ TestAlice(w, i, d) = SendPeerTestTo(v, r, d.from, d.body.ikey, Body(0, NoSession, r))
       \/ TestAlice(w, i, d) = RemovePeerTest(ok, r)
       \/ TestAlice(w, i, d) = w
  BY <1>1, <1>2, <1>4, <1>8 DEF TestAlice
<1> QED
  BY <1>6, <1>7, <1>10, <1>11

LEMMA TestBobKeeps ==
  ASSUME NEW w, NEW L, IsWorld(w, L), NEW i \in L, NEW d
  PROVE  IsWorld(TestBob(w, i, d), L)
<1>1. PICK r : r = w.objs[i].owner
  OBVIOUS
<1>2. r \in Routers
  BY <1>1 DEF IsWorld, Good, Sessions
<1>3. PICK j : j = w.tests[r].session
  OBVIOUS
<1>4. j \in L \cup {0}
  BY <1>2, <1>3 DEF IsWorld
<1>5. PICK v : v = RemovePeerTest(w, r)
  OBVIOUS
<1>6. IsWorld(v, L)
  BY <1>2, <1>5, RemovePeerTestKeeps
<1>7. \/ TestBob(w, i, d) = v
      \/ j # 0 /\ TestBob(w, i, d) = SendOwn(v, j, "test", d.body)
  BY <1>1, <1>3, <1>5 DEF TestBob
<1> QED
  BY <1>4, <1>6, <1>7, SendOwnKeeps

LEMMA TestCharlieKeeps ==
  ASSUME NEW w, NEW L, IsWorld(w, L), NEW i \in L, NEW d
  PROVE  IsWorld(TestCharlie(w, i, d), L)
<1>1. PICK r : r = w.objs[i].owner
  OBVIOUS
<1>2. r \in Routers
  BY <1>1 DEF IsWorld, Good, Sessions
<1>3. PICK v : v = SendPeerTestTo(w, r, d.from, d.body.ikey, Body(0, d.from, r))
  OBVIOUS
<1>4. IsWorld(v, L)
  BY <1>2, <1>3, SendPeerTestToKeeps
<1>5. TestCharlie(w, i, d) = RemovePeerTest(v, r)
  BY <1>1, <1>3 DEF TestCharlie
<1> QED
  BY <1>2, <1>4, <1>5, RemovePeerTestKeeps

LEMMA TestNewKeeps ==
  ASSUME NEW w, NEW L, IsWorld(w, L), NEW i \in L, NEW d, NEW u \in TestNew(w, i, d)
  PROVE  IsWorld(u, L)
<1>1. PICK r : r = w.objs[i].owner
  OBVIOUS
<1>2. r \in Routers
  BY <1>1 DEF IsWorld, Good, Sessions
<1>3. CASE u = w
  BY <1>3
<1>4. CASE u = SendPeerTestTo(SendOwn(SetTest(w, r, "Charlie", 0), i, "test", d.body),
                              r, d.body.addr, d.body.ikey, d.body)
  <2>1. PICK v : v = SetTest(w, r, "Charlie", 0)
    OBVIOUS
  <2>2. IsWorld(v, L)
    BY <1>2, <2>1, SetTestKeeps
  <2>3. PICK x : x = SendOwn(v, i, "test", d.body)
    OBVIOUS
  <2>4. IsWorld(x, L)
    BY <2>2, <2>3, SendOwnKeeps
  <2>5. u = SendPeerTestTo(x, r, d.body.addr, d.body.ikey, d.body)
    BY <1>4, <2>1, <2>3
  <2> QED
    BY <1>2, <2>4, <2>5, SendPeerTestToKeeps
<1>5. ASSUME NEW j \in EstablishedSessions(w, r, i),
             u = SendOwn(SetTest(w, r, "Bob", i), j, "test", [d.body EXCEPT !.addr = d.from])
      PROVE  IsWorld(u, L)
  <2>1. j \in L
    <3>1. PICK e \in Routers : j = w.table[r][e] /\ w.table[r][e] \notin {0, i}
      BY <1>5 DEF EstablishedSessions
    <3> QED
      BY <1>2, <3>1 DEF IsWorld
  <2>2. PICK v : v = SetTest(w, r, "Bob", i)
    OBVIOUS
  <2>3. IsWorld(v, L)
    BY <1>2, <2>2, SetTestKeeps
  <2>4. PICK body : body = [d.body EXCEPT !.addr = d.from]
    OBVIOUS
  <2>5. u = SendOwn(v, j, "test", body)
    BY <1>5, <2>2, <2>4
  <2> QED
    BY <2>1, <2>3, <2>5, SendOwnKeeps
<1>6. \/ u = w
      \/ u = SendPeerTestTo(SendOwn(SetTest(w, r, "Charlie", 0), i, "test", d.body),
                            r, d.body.addr, d.body.ikey, d.body)
      \/ \E j \in EstablishedSessions(w, r, i) :
           u = SendOwn(SetTest(w, r, "Bob", i), j, "test", [d.body EXCEPT !.addr = d.from])
  BY <1>1 DEF TestNew
<1> QED
  BY <1>3, <1>4, <1>5, <1>6

LEMMA ProcessPeerTestKeeps ==
  ASSUME NEW w, NEW L, IsWorld(w, L), NEW i \in L, NEW d, NEW u \in ProcessPeerTest(w, i, d)
  PROVE  IsWorld(u, L)
<1>1. u \in {TestAlice(w, i, d)} \/ u \in {TestBob(w, i, d)} \/ u \in {TestCharlie(w, i, d)}
        \/ u \in TestNew(w, i, d)
  BY DEF ProcessPeerTest
<1> QED
  BY <1>1, TestAliceKeeps, TestBobKeeps, TestCharlieKeeps, TestNewKeeps

-----------------------------------------------------------------------------
(* A datagram for session i.                                                *)
LEMMA ProcessMessageKeeps ==
  ASSUME NEW w, NEW L, IsWorld(w, L), NEW i \in L, NEW d, GoodD(d, w.proven),
         d.type # "punch", Validate(w.objs[i], d), NEW u \in ProcessMessage(w, i, d)
  PROVE  IsWorld(u, L)
<1>1. CASE d.type = "data"
  BY <1>1, ProcessDataKeeps DEF ProcessMessage
<1>2. CASE d.type = "request"
  BY <1>2, ProcessSessionRequestKeeps DEF ProcessMessage
<1>3. CASE d.type = "created"
  BY <1>3, ProcessSessionCreatedKeeps DEF ProcessMessage
<1>4. CASE d.type = "confirmed"
  <2>1. w.objs[i].key \in Real
    BY <1>4, ValidKey DEF GoodD
  <2> QED
    BY <1>4, <2>1, ProcessSessionConfirmedKeeps DEF ProcessMessage
<1>5. CASE d.type = "test"
  BY <1>5, ProcessPeerTestKeeps DEF ProcessMessage
<1>6. CASE d.type = "destroyed"
  BY <1>6, DeleteSessionKeeps DEF ProcessMessage
<1>7. CASE d.type = "relayresp"
  BY <1>7, ProcessRelayResponseKeeps DEF ProcessMessage
<1>8. CASE d.type = "relayreq"
  BY <1>8, ProcessRelayRequestKeeps DEF ProcessMessage
<1>9. CASE d.type = "relayintro"
  BY <1>9, ProcessRelayIntroKeeps DEF ProcessMessage
<1> QED
  BY <1>1, <1>2, <1>3, <1>4, <1>5, <1>6, <1>7, <1>8, <1>9 DEF GoodD, Types

LEMMA ProcessNextMessageKeeps ==
  ASSUME NEW w, NEW L, IsWorld(w, L), NEW i \in L, NEW d, GoodD(d, w.proven),
         NEW u \in ProcessNextMessage(w, i, d)
  PROVE  IsWorld(u, L)
<1>1. PICK s : s = w.objs[i]
  OBVIOUS
<1>2. Good(s, w.proven) /\ i \in Numbers
  BY <1>1 DEF IsWorld
<1>3. PICK t : t = ScheduleTerminationSSU(s)
  OBVIOUS
<1>4. Good(t, w.proven)
  BY <1>2, <1>3, TimerGood
<1>5. PICK v : v = IF s.state = "Established" THEN With(w, i, t) ELSE w
  OBVIOUS
<1>6. IsWorld(v, L) /\ v.proven = w.proven /\ v.objs[i] \in {s, t}
  <2>1. IsWorld(With(w, i, t), L) /\ With(w, i, t).objs[i] = t /\ With(w, i, t).proven = w.proven
    BY <1>2, <1>4, WithKeeps
  <2> QED
    BY <1>1, <1>5, <2>1
<1>7. CASE s.state = "Introduced"
  <2>1. PICK c : c = [s EXCEPT !.state = "Unknown"]
    OBVIOUS
  <2>2. Good(c, w.proven)
    BY <1>2, <2>1 DEF Good, Sessions, Outgoing
  <2>3. PICK x : x = With(w, i, c)
    OBVIOUS
  <2>4. IsWorld(x, L)
    BY <1>2, <2>2, <2>3, WithKeeps
  <2>5. u = Connect(x, i)
    BY <1>1, <1>7, <2>1, <2>3 DEF ProcessNextMessage
  <2> QED
    BY <2>4, <2>5, ConnectKeeps
<1>8. CASE s.state # "Introduced" /\ d.type = "punch"
  BY <1>1, <1>8 DEF ProcessNextMessage
<1>9. CASE s.state # "Introduced" /\ d.type # "punch" /\ Validate(s, d)
  <2>1. u \in ProcessMessage(v, i, d)
    BY <1>1, <1>3, <1>5, <1>9 DEF ProcessNextMessage
  <2>2. Validate(v.objs[i], d)
    <3>1. t.key = s.key /\ t.router = s.router /\ t.owner = s.owner
      BY <1>2, <1>3 DEF Good, Sessions, ScheduleTerminationSSU
    <3> QED
      BY <1>6, <1>9, <3>1 DEF Validate, GetIntroKey
  <2>3. GoodD(d, v.proven) /\ d.type # "punch"
    BY <1>6, <1>9
  <2> QED
    BY <1>6, <2>1, <2>2, <2>3, ProcessMessageKeeps
<1>10. CASE s.state # "Introduced" /\ d.type # "punch" /\ ~Validate(s, d)
  <2>1. u = DeleteSession(v, i)
    BY <1>1, <1>3, <1>5, <1>10 DEF ProcessNextMessage
  <2> QED
    BY <1>6, <2>1, DeleteSessionKeeps
<1> QED
  BY <1>7, <1>8, <1>9, <1>10

-----------------------------------------------------------------------------
(* The sessions that may be pointed to are L; there are no others.          *)
Living(L) ==
  /\ IsWorld(World, L)
  /\ DOMAIN cur = Routers /\ \A r \in Routers : cur[r].session \in L \cup {0}
  /\ \A i \in Numbers \ L : objs[i] = NoSession
  /\ \A d \in net : GoodD(d, proven)
SSUInv == \E L \in SUBSET Numbers : Living(L)

LEMMA WorldFacts ==
  /\ World = WorldOf(objs, table, tests, status, keys, {}, proven)
  /\ World.objs = objs /\ World.table = table /\ World.tests = tests /\ World.keys = keys
  /\ World.proven = proven
BY DEF World, WorldOf

LEMMA BecomesKeeps ==
  ASSUME NEW w, NEW L, IsWorld(w, L),
         NEW c, DOMAIN c = Routers, \A r \in Routers : c[r].session \in L \cup {0},
         NEW rest, \A d \in rest : GoodD(d, proven), Becomes(w, c, rest)
  PROVE  SSUInv'
<1>1. /\ objs' = [i \in Numbers |-> IF Referenced(w, c, i) THEN w.objs[i] ELSE NoSession]
      /\ table' = w.table /\ tests' = w.tests /\ keys' = w.keys /\ proven' = w.proven /\ cur' = c
      /\ \E arriving \in SUBSET w.out : net' = rest \cup arriving
  BY DEF Becomes
<1>2. PICK M : M = {i \in L : Referenced(w, c, i)}
  OBVIOUS
<1>3. PICK o, st : o = objs' /\ st = status'
  OBVIOUS
<1>4. World' = WorldOf(o, w.table, w.tests, st, w.keys, {}, w.proven)
  BY <1>1, <1>3 DEF World, WorldOf
<1>5. PICK new : new = WorldOf(o, w.table, w.tests, st, w.keys, {}, w.proven)
  OBVIOUS
<1>6. /\ new.objs = o /\ new.table = w.table /\ new.tests = w.tests /\ new.status = st
      /\ new.keys = w.keys /\ new.out = {} /\ new.proven = w.proven
  BY <1>5 DEF WorldOf
<1>7. M \subseteq L /\ L \subseteq Numbers /\ 0 \notin Numbers
  BY <1>2 DEF IsWorld, Numbers
<1>8. \A i \in L : Referenced(w, c, i) => i \in M
  BY <1>2
<1>9. \A r, e \in Routers : w.table[r][e] \in M \cup {0}
  <2>1. ASSUME NEW r \in Routers, NEW e \in Routers, w.table[r][e] # 0
        PROVE  w.table[r][e] \in M
    <3>1. w.table[r][e] \in L
      BY <2>1 DEF IsWorld
    <3> QED
      BY <1>8, <3>1 DEF Referenced
  <2> QED
    BY <2>1
<1>10. \A r \in Routers : w.tests[r].session \in M \cup {0} /\ c[r].session \in M \cup {0}
  <2>1. ASSUME NEW r \in Routers, NEW n \in {w.tests[r].session, c[r].session}, n # 0
        PROVE  n \in M
    <3>1. n \in L
      BY <2>1 DEF IsWorld
    <3> QED
      BY <1>8, <2>1, <3>1 DEF Referenced
  <2> QED
    BY <2>1
<1>11. w.table \in [Routers -> [Routers -> M \cup {0}]]
  <2>1. w.table \in [Routers -> [Routers -> L \cup {0}]]
    BY DEF IsWorld
  <2> QED
    BY <1>9, <2>1
<1>12. \A j \in M : o[j] = w.objs[j] /\ Good(o[j], w.proven)
  BY <1>1, <1>2, <1>3, <1>7 DEF IsWorld
<1>13. /\ new = WorldOf(new.objs, new.table, new.tests, new.status, new.keys, new.out, new.proven)
       /\ M \subseteq Numbers /\ DOMAIN new.objs = Numbers /\ new.keys \in Nat
       /\ new.proven \subseteq Real /\ proven' \subseteq new.proven
       /\ new.table \in [Routers -> [Routers -> M \cup {0}]]
       /\ DOMAIN new.tests = Routers /\ \A r \in Routers : new.tests[r].session \in M \cup {0}
       /\ \A j \in M : Good(new.objs[j], new.proven)
       /\ \A d \in new.out : GoodD(d, new.proven)
  BY <1>1, <1>3, <1>5, <1>6, <1>7, <1>10, <1>11, <1>12 DEF IsWorld
<1>14. \A i \in Numbers \ M : o[i] = NoSession
  <2>1. ASSUME NEW i \in Numbers, Referenced(w, c, i)
        PROVE  i \in L
    BY <1>7, <2>1 DEF Referenced, IsWorld
  <2> QED
    BY <1>1, <1>3, <1>8, <2>1
<1>15. \A d \in net' : GoodD(d, w.proven)
  <2>1. \A d \in rest : GoodD(d, w.proven)
    BY GoodMore DEF IsWorld
  <2> QED
    BY <1>1, <2>1 DEF IsWorld
<1>16. Living(M)'
  <2>1. IsWorld(World, M)'
    <3>1. World' = new
      BY <1>4, <1>5
    <3> QED
      BY <1>13, <3>1 DEF IsWorld, Good, GoodD, Outgoing, Sessions
  <2>2. DOMAIN cur' = Routers /\ \A r \in Routers : cur'[r].session \in M \cup {0}
    BY <1>1, <1>10
  <2> QED
    BY <1>1, <1>3, <1>14, <1>15, <2>1, <2>2 DEF Living
<1> QED
  BY <1>7, <1>16 DEF SSUInv

LEMMA NewSessionGood ==
  ASSUME NEW r \in Routers, NEW remote \in Routers, NEW router \in Routers, NEW test \in BOOLEAN, NEW pr
  PROVE  Good(Session(r, remote, router, test), pr)
BY DEF Good, Sessions, Session, NoKey, Outgoing

LEMMA FreeNumber ==
  ASSUME NEW S, S \subseteq Numbers, S # {}
  PROVE  Min(S) \in S /\ Min(S) \in Numbers
<1>1. S \subseteq Nat
  BY DEF Numbers
<1> QED
  BY <1>1, NatMin

LEMMA HandleReceivedPacketsStep ==
  ASSUME NEW L, Living(L), NEW r \in Routers, NEW d \in net, HandleReceivedPackets(r, d)
  PROVE  SSUInv'
<1>1. PICK known : known = SessionFor(r, d)
  OBVIOUS
<1>2. GoodD(d, proven) /\ d.from \in Routers
  BY DEF Living, GoodD
<1>3. known \in L \cup {0}
  BY <1>1, <1>2, WorldFacts DEF Living, IsWorld, SessionFor
<1>4. PICK i : i = IF known # 0 THEN known ELSE Min(Free)
  OBVIOUS
<1>5. PICK s : s = WaitForConnect(Session(r, d.from, r, FALSE))
  OBVIOUS
<1>6. PICK w : w = IF known # 0 THEN World
                   ELSE [World EXCEPT !.objs[i] = s, !.table[r][d.from] = i]
  OBVIOUS
<1>7. PICK v, c : /\ v \in ProcessNextMessage(w, i, d)
                  /\ \/ c = [cur EXCEPT ![r] = Idle]
                     \/ \E n : c = [cur EXCEPT ![r] = [session |-> i, left |-> n]]
                  /\ Becomes(v, c, net \ {d})
  BY <1>1, <1>4, <1>5, <1>6 DEF HandleReceivedPackets
<1>8. PICK M : M = L \cup {i}
  OBVIOUS
<1>9. IsWorld(w, M) /\ i \in M /\ w.proven = proven
  <2>1. CASE known # 0
    <3>1. M = L /\ w = World
      BY <1>3, <1>4, <1>6, <1>8, <2>1
    <3> QED
      BY <1>3, <1>4, <1>8, <2>1, <3>1, WorldFacts DEF Living
  <2>2. CASE known = 0
    <3>1. i \in Numbers
      <4>1. Free # {}
        BY <1>1, <2>2 DEF HandleReceivedPackets
      <4>2. Free \subseteq Numbers
        BY DEF Free
      <4> QED
        BY <1>4, <2>2, <4>1, <4>2, FreeNumber
    <3>2. Good(s, World.proven)
      BY <1>2, <1>5, NewSessionGood, TimerGood DEF WaitForConnect
    <3>3. PICK x : x = With(World, i, s)
      OBVIOUS
    <3>4. IsWorld(x, M) /\ x.proven = World.proven
      BY <1>8, <3>1, <3>2, <3>3, WithKeeps DEF Living
    <3>5. w = [x EXCEPT !.table[r][d.from] = i]
      BY <1>6, <2>2, <3>3 DEF With
    <3> QED
      BY <1>2, <1>8, <3>4, <3>5, TableKeeps, WorldFacts
  <2> QED
    BY <2>1, <2>2
<1>10. IsWorld(v, M)
  BY <1>2, <1>7, <1>9, ProcessNextMessageKeeps
<1>11. DOMAIN c = Routers /\ \A q \in Routers : c[q].session \in M \cup {0}
  <2>1. DOMAIN cur = Routers /\ \A q \in Routers : cur[q].session \in M \cup {0}
    BY <1>8 DEF Living
  <2> QED
    BY <1>7, <1>9, <2>1 DEF Idle
<1>12. \A e \in net \ {d} : GoodD(e, proven)
  BY DEF Living
<1>13. Becomes(v, c, net \ {d})
  BY <1>7
<1> QED
  BY <1>10, <1>11, <1>12, <1>13, BecomesKeeps

LEMMA GetSessionStep ==
  ASSUME NEW L, Living(L), NEW r \in Routers, NEW p \in Routers, GetSession(r, p)
  PROVE  SSUInv'
<1>1. PICK i : i = Min(Free)
  OBVIOUS
<1>2. i \in Numbers /\ Free \subseteq Numbers
  <2>1. Free # {} /\ Free \subseteq Numbers
    BY DEF GetSession, Free
  <2> QED
    BY <1>1, <2>1, FreeNumber
<1>3. DOMAIN cur = Routers /\ \A q \in Routers : cur[q].session \in L \cup {0}
  BY DEF Living
<1>4. \A d \in net : GoodD(d, proven)
  BY DEF Living
<1>5. CASE Becomes(Direct(World, r, p, i), cur, net)
  <2>1. PICK s : s = Session(r, p, p, <<r, p>> \in Testers)
    OBVIOUS
  <2>2. Good(s, World.proven)
    <3>1. CASE <<r, p>> \in Testers
      <4>1. s = Session(r, p, p, TRUE)
        BY <2>1, <3>1
      <4> QED
        BY <4>1, NewSessionGood
    <3>2. CASE <<r, p>> \notin Testers
      <4>1. (<<r, p>> \in Testers) = FALSE
        BY <3>2
      <4>2. s = Session(r, p, p, FALSE)
        BY <2>1, <4>1
      <4> QED
        BY <4>2, NewSessionGood
    <3> QED
      BY <3>1, <3>2
  <2>3. PICK x : x = With(World, i, s)
    OBVIOUS
  <2>4. PICK M : M = L \cup {i}
    OBVIOUS
  <2>5. IsWorld(x, M)
    BY <1>2, <2>2, <2>3, <2>4, WithKeeps DEF Living
  <2>6. PICK v : v = [x EXCEPT !.table[r][p] = i]
    OBVIOUS
  <2>7. IsWorld(v, M) /\ i \in M
    BY <2>4, <2>5, <2>6, TableKeeps
  <2>8. Direct(World, r, p, i) = Connect(v, i)
    BY <2>1, <2>3, <2>6 DEF Direct, With
  <2>9. IsWorld(Direct(World, r, p, i), M)
    BY <2>7, <2>8, ConnectKeeps
  <2>10. \A q \in Routers : cur[q].session \in M \cup {0}
    BY <1>3, <2>4
  <2> QED
    BY <1>3, <1>4, <1>5, <2>9, <2>10, BecomesKeeps
<1>6. ASSUME NEW j, j = IF table[r][Via] # 0 THEN table[r][Via] ELSE Min(Free \ {i}),
             table[r][Via] # 0 \/ Cardinality(Free) > 1,
             Becomes(ThroughIntroducer(World, r, p, i, j), cur, net)
      PROVE  SSUInv'
  <2>1. PICK s : s = WaitForIntroduction(Session(r, p, p, FALSE))
    OBVIOUS
  <2>2. Good(s, World.proven)
    <3>1. PICK t : t = Session(r, p, p, FALSE)
      OBVIOUS
    <3>2. Good(t, World.proven)
      BY <3>1, NewSessionGood
    <3> QED
      BY <2>1, <3>1, <3>2 DEF WaitForIntroduction, Good, Sessions, Outgoing
  <2>3. PICK x : x = With(World, i, s)
    OBVIOUS
  <2>4. PICK M : M = L \cup {i}
    OBVIOUS
  <2>5. IsWorld(x, M)
    BY <1>2, <2>2, <2>3, <2>4, WithKeeps DEF Living
  <2>6. PICK v : v = [x EXCEPT !.table[r][p] = i]
    OBVIOUS
  <2>7. IsWorld(v, M) /\ i \in M
    BY <2>4, <2>5, <2>6, TableKeeps
  <2>8. Via \in Routers
    BY SSUAssumption
  <2>9. PICK N : N = M \cup {j}
    OBVIOUS
  <2>10. PICK u : u = IF table[r][Via] # 0 THEN v
                      ELSE [v EXCEPT !.objs[j] = Session(r, Via, p, FALSE), !.table[r][Via] = j]
    OBVIOUS
  <2>11. IsWorld(u, N) /\ j \in N
    <3>1. CASE table[r][Via] # 0
      <4>1. j \in L
        BY <1>6, <2>8, <3>1, WorldFacts DEF Living, IsWorld
      <4>2. N = M /\ j \in N
        BY <2>4, <2>9, <4>1
      <4> QED
        BY <2>7, <2>10, <3>1, <4>2
    <3>2. CASE table[r][Via] = 0
      <4>1. j \in Numbers
        <5>1. Free # {i} /\ Free # {}
          <6>1. Cardinality(Free) > 1
            BY <1>6, <3>2
          <6>2. Cardinality({i}) = 1 /\ Cardinality({}) = 0
            BY FS_Singleton, FS_EmptySet
          <6> QED
            BY <6>1, <6>2
        <5>2. Free \ {i} # {} /\ Free \ {i} \subseteq Numbers
          BY <1>2, <5>1
        <5> QED
          BY <1>6, <3>2, <5>2, FreeNumber
      <4>2. PICK t : t = Session(r, Via, p, FALSE)
        OBVIOUS
      <4>3. Good(t, v.proven)
        BY <2>8, <4>2, NewSessionGood
      <4>4. PICK y : y = With(v, j, t)
        OBVIOUS
      <4>5. IsWorld(y, N)
        BY <2>7, <2>9, <4>1, <4>3, <4>4, WithKeeps
      <4>6. u = [y EXCEPT !.table[r][Via] = j]
        BY <2>10, <3>2, <4>2, <4>4 DEF With
      <4> QED
        BY <2>8, <2>9, <4>5, <4>6, TableKeeps
    <3> QED
      BY <3>1, <3>2
  <2>12. PICK z : z = IF r \in Hidden THEN Sent(u, HolePunch(r, p)) ELSE u
    OBVIOUS
  <2>13. IsWorld(z, N)
    BY <2>11, <2>12, PlainKeeps DEF HolePunch
  <2>14. ThroughIntroducer(World, r, p, i, j) = Introduce(z, j, p)
    <3>1. u = IF table[r][Via] # 0
                THEN [World EXCEPT !.objs[i] = s, !.table[r][p] = i]
                ELSE [[World EXCEPT !.objs[i] = s, !.table[r][p] = i]
                        EXCEPT !.objs[j] = Session(r, Via, p, FALSE), !.table[r][Via] = j]
      BY <2>3, <2>6, <2>10 DEF With
    <3> QED
      BY <2>1, <2>12, <3>1 DEF ThroughIntroducer
  <2>15. IsWorld(ThroughIntroducer(World, r, p, i, j), N)
    BY <2>11, <2>13, <2>14, IntroduceKeeps
  <2>16. \A q \in Routers : cur[q].session \in N \cup {0}
    BY <1>3, <2>4, <2>9
  <2> QED
    BY <1>3, <1>4, <1>6, <2>15, <2>16, BecomesKeeps
<1>7. \/ Becomes(Direct(World, r, p, i), cur, net)
      \/ /\ table[r][Via] # 0 \/ Cardinality(Free) > 1
         /\ \E j : /\ j = IF table[r][Via] # 0 THEN table[r][Via] ELSE Min(Free \ {i})
                   /\ Becomes(ThroughIntroducer(World, r, p, i, j), cur, net)
  BY <1>1 DEF GetSession
<1> QED
  BY <1>5, <1>6, <1>7

(* The steps that change one session, a peer test or the status.            *)
LEMMA OtherSteps ==
  ASSUME NEW L, Living(L),
         \/ \E i \in Numbers : Timeout(i) \/ Resend(i)
         \/ \E r \in Routers : HandlePeerTestsCleanupTimer(r)
         \/ \E r, p \in Routers : DetectExternalIP(r, p)
  PROVE  SSUInv'
<1>1. /\ DOMAIN cur = Routers /\ \A q \in Routers : cur[q].session \in L \cup {0}
      /\ \A d \in net : GoodD(d, proven)
  BY DEF Living
<1>2. IsWorld(World, L)
  BY DEF Living
<1>3. SUFFICES ASSUME NEW w, IsWorld(w, L), Becomes(w, cur, net)
               PROVE  SSUInv'
  <2>1. ASSUME NEW i \in Numbers, Timeout(i)
        PROVE  \E w : IsWorld(w, L) /\ Becomes(w, cur, net)
    <3>1. i \in L
      BY <2>1 DEF Timeout, Living
    <3> QED
      BY <1>2, <2>1, <3>1, FailedKeeps DEF Timeout
  <2>2. ASSUME NEW i \in Numbers, Resend(i)
        PROVE  \E w : IsWorld(w, L) /\ Becomes(w, cur, net)
    <3>1. i \in L
      BY <2>2 DEF Resend, Living
    <3>2. PICK s : s = objs[i]
      OBVIOUS
    <3>3. Good(s, proven)
      BY <1>2, <3>1, <3>2, WorldFacts DEF IsWorld
    <3>4. PICK key \in s.kept :
            Becomes(Sent(World, Datagram("data", s.owner, s.remote, key, Status)), cur, net)
      BY <2>2, <3>2 DEF Resend
    <3>5. s.owner \in Routers /\ key \in proven
      BY <3>3, <3>4 DEF Good, Sessions
    <3>6. GoodD(Datagram("data", s.owner, s.remote, key, Status), World.proven)
      BY <3>5, DatagramFacts, WorldFacts
    <3> QED
      BY <1>2, <3>4, <3>6, SentKeeps
  <2>3. ASSUME NEW r \in Routers, HandlePeerTestsCleanupTimer(r)
        PROVE  \E w : IsWorld(w, L) /\ Becomes(w, cur, net)
    BY <1>2, <2>3, RemovePeerTestKeeps DEF HandlePeerTestsCleanupTimer
  <2>4. ASSUME NEW r \in Routers, NEW p \in Routers, DetectExternalIP(r, p)
        PROVE  \E w : IsWorld(w, L) /\ Becomes(w, cur, net)
    BY <1>2, <2>4, StatusKeeps DEF DetectExternalIP
  <2> QED
    BY <1>3, <2>1, <2>2, <2>3, <2>4
<1> QED
  BY <1>1, <1>3, BecomesKeeps

LEMMA SSUStart ==
  ASSUME SSUInit
  PROVE  SSUInv
<1>1. PICK c : c = CHOOSE h \in Hidden : TRUE
  OBVIOUS
<1>2. c \in Routers /\ c # Via /\ Via \in Routers
  BY <1>1, SSUAssumption
<1>3. PICK s1, s2 : s1 = Start(1, c, Via, Via) /\ s2 = Start(2, Via, c, Via)
  OBVIOUS
<1>4. /\ objs = [i \in Numbers |-> CASE i = 1 -> s1 [] i = 2 -> s2 [] OTHER -> NoSession]
      /\ table = [r \in Routers |-> [e \in Routers |->
           CASE r = c /\ e = Via -> 1 [] r = Via /\ e = c -> 2 [] OTHER -> 0]]
      /\ tests = [r \in Routers |-> NoTest] /\ cur = [r \in Routers |-> Idle]
      /\ net = {} /\ keys = 2 /\ proven = {<<1, 2>>}
  BY <1>1, <1>3 DEF SSUInit
<1>5. <<1, 2>> \in Real /\ <<1, 2>> \in Nat \X Nat
  BY DEF Real
<1>6. Good(s1, proven) /\ Good(s2, proven)
  <2>1. ASSUME NEW n, NEW r \in Routers, NEW e \in Routers
        PROVE  Good(Start(n, r, e, Via), proven)
    <3>1. PICK key : key = <<1, 2>>
      OBVIOUS
    <3>2. PICK tag \in BOOLEAN : tag = (Via # r)
      OBVIOUS
    <3>3. Start(n, r, e, Via) =
            [Session(r, e, Via, FALSE) EXCEPT !.state = "Established", !.key = key,
                                              !.timer = "term", !.tag = tag]
      BY <3>1, <3>2 DEF Start
    <3>4. Start(n, r, e, Via) =
            [owner |-> r, state |-> "Established", remote |-> e, router |-> Via, dh |-> 0,
             key |-> key, timer |-> "term", tag |-> tag, test |-> FALSE, kept |-> {}]
      BY <3>3 DEF Session
    <3>5. key \in proven /\ key \in Real /\ key \in Nat \X Nat
      BY <1>4, <1>5, <3>1
    <3> QED
      BY <1>2, <3>2, <3>4, <3>5 DEF Good, Sessions, Outgoing
  <2> QED
    BY <1>2, <1>3, <2>1
<1>7. {1, 2} \subseteq Numbers
  BY SSUAssumption DEF Numbers
<1>8. IsWorld(World, {1, 2})
  <2>1. \A j \in {1, 2} : Good(objs[j], proven)
    BY <1>4, <1>6, <1>7
  <2>2. table \in [Routers -> [Routers -> {1, 2} \cup {0}]]
    BY <1>4
  <2>3. DOMAIN objs = Numbers /\ DOMAIN tests = Routers /\ \A r \in Routers : tests[r].session = 0
    BY <1>4 DEF NoTest
  <2>4. keys \in Nat /\ proven \subseteq Real
    BY <1>4, <1>5
  <2>5. PICK w : w = World
    OBVIOUS
  <2>6. /\ w = WorldOf(objs, table, tests, status, keys, {}, proven)
        /\ w.objs = objs /\ w.table = table /\ w.tests = tests /\ w.keys = keys
        /\ w.proven = proven /\ w.status = status /\ w.out = {}
    BY <2>5, WorldFacts DEF World
  <2>7. IsWorld(w, {1, 2})
    BY <1>7, <2>1, <2>2, <2>3, <2>4, <2>6 DEF IsWorld
  <2> QED
    BY <2>5, <2>7
<1> QED
  BY <1>4, <1>7, <1>8 DEF SSUInv, Living, Idle

(* The inductive invariant: every session that may be pointed to, and every *)
(* datagram in flight, is good.                                             *)
LEMMA SSUInductive ==
  ASSUME SSUInv, [SSUNext]_ssuVars
  PROVE  SSUInv'
<1>1. PICK L \in SUBSET Numbers : Living(L)
  BY DEF SSUInv
<1>2. CASE UNCHANGED ssuVars
  <2>1. World' = World /\ proven' = proven /\ cur' = cur /\ objs' = objs /\ net' = net
    BY <1>2 DEF ssuVars, World
  <2>2. IsWorld(World, L)'
    <3>1. IsWorld(World, L)
      BY <1>1 DEF Living
    <3> QED
      BY <2>1, <3>1 DEF IsWorld
  <2> QED
    BY <1>1, <2>1, <2>2 DEF SSUInv, Living
<1>3. CASE SSUNext
  BY <1>1, <1>3, HandleReceivedPacketsStep, GetSessionStep, OtherSteps DEF SSUNext
<1> QED
  BY <1>2, <1>3

LEMMA SSUInvImplies ==
  ASSUME SSUInv
  PROVE  ClientAfterServer
<1>1. PICK L \in SUBSET Numbers : Living(L)
  BY DEF SSUInv
<1>2. SUFFICES ASSUME NEW i \in Numbers, objs[i] # NoSession, objs[i].state = "Established",
                      Outgoing(objs[i]), objs[i].dh = 0
               PROVE  objs[i].key \in proven
  BY DEF ClientAfterServer
<1>3. i \in L
  BY <1>1, <1>2 DEF Living
<1>4. PICK s : s = objs[i]
  OBVIOUS
<1>5. Good(s, proven)
  BY <1>1, <1>3, <1>4, WorldFacts DEF Living, IsWorld
<1> QED
  BY <1>2, <1>4, <1>5 DEF Good

(* An SSU client takes its session for established only when the server has *)
(* established one with the same key: whatever is lost, overtaken or sent   *)
(* again, and through introducers and peer tests too.                       *)
THEOREM SpecClientAfterServer == SSUSpec => []ClientAfterServer
<1>1. SSUInit => SSUInv
  BY SSUStart
<1>2. SSUInv /\ [SSUNext]_ssuVars => SSUInv'
  BY SSUInductive
<1>3. SSUInv => ClientAfterServer
  BY SSUInvImplies
<1> QED
  BY <1>1, <1>2, <1>3, PTL DEF SSUSpec

-----------------------------------------------------------------------------
(* NTCP: a session that is established or has messages queued reads.        *)
Fine(i, s, conns) ==
  /\ s = [op |-> s.op, open |-> s.open, timer |-> s.timer, terminated |-> s.terminated,
          established |-> s.established, ident |-> s.ident, sending |-> s.sending,
          sendQueue |-> s.sendQueue, received |-> s.received]
  /\ s.established \/ s.sendQueue # <<>> => s.op = "recv"
  /\ i[1] \notin conns => s.op = "none"

Moves(i) == sess[i].sendQueue # <<>> => sess[i].sending \/ MayFail(i) \/ ~sess[i].open

NTCPInv == DOMAIN sess = Ids /\ \A i \in Ids : Fine(i, sess[i], dialed) /\ Moves(i)

LEMMA PeerFacts ==
  ASSUME NEW i \in Ids
  PROVE  Peer(i) \in Ids /\ Peer(i) # i /\ Peer(Peer(i)) = i /\ Peer(i)[1] = i[1]
BY DEF Ids, Peer

(* A step of one session: it does not open it, and leaves nothing queued    *)
(* with no write outstanding.                                               *)
LEMMA OneSessionKeeps ==
  ASSUME NTCPInv, NEW i \in Ids, NEW s, Set(i, s), dialed' = dialed, broken \subseteq broken',
         Fine(i, s, dialed), s.open => sess[i].open,
         s.sendQueue # <<>> => s.sending \/ MayFail(i) \/ ~s.open
  PROVE  NTCPInv'
<1>1. DOMAIN sess' = Ids /\ sess'[i] = s /\ \A j \in Ids \ {i} : sess'[j] = sess[j]
  BY DEF Set, NTCPInv
<1>2. \A j \in Ids : MayFail(j) => MayFail(j)'
  BY <1>1, PeerFacts DEF MayFail
<1>3. ASSUME NEW j \in Ids
      PROVE  Fine(j, sess[j], dialed)' /\ Moves(j)'
  <2>1. CASE j = i
    BY <1>1, <1>2, <2>1 DEF Fine, Moves
  <2>2. CASE j # i
    <3>1. Fine(j, sess[j], dialed) /\ Moves(j)
      BY DEF NTCPInv
    <3> QED
      BY <1>1, <1>2, <2>2, <3>1 DEF Fine, Moves
  <2> QED
    BY <2>1, <2>2
<1> QED
  BY <1>1, <1>3 DEF NTCPInv

(* A closed session has nothing queued.                                     *)
LEMMA TerminateKeeps ==
  ASSUME NTCPInv, NEW i \in Ids, i[1] \in dialed, NEW s, Terminate(i, s), dialed' = dialed,
         broken' = broken
  PROVE  NTCPInv'
<1>1. PICK c : c = ClosedSession(s)
  OBVIOUS
<1>2. Fine(i, c, dialed) /\ c.sendQueue = <<>> /\ ~c.open
  BY <1>1 DEF ClosedSession, NewSession, Fine
<1>3. Set(i, c)
  BY <1>1 DEF Terminate, Set
<1> QED
  BY <1>2, <1>3, OneSessionKeeps

(* A handshake goes on to its next operation.                               *)
LEMMA OpKeeps ==
  ASSUME NTCPInv, NEW i \in Ids, sess[i].op \notin {"none", "recv"}, NEW op, Op(i, op),
         dialed' = dialed, broken' = broken
  PROVE  NTCPInv'
<1>1. PICK s : s = sess[i]
  OBVIOUS
<1>2. PICK t : t = [s EXCEPT !.op = op]
  OBVIOUS
<1>3. Fine(i, s, dialed) /\ s.op \notin {"none", "recv"}
  BY <1>1 DEF NTCPInv
<1>4. Fine(i, t, dialed) /\ t.sendQueue = <<>> /\ t.open = s.open
  BY <1>2, <1>3 DEF Fine
<1>5. Set(i, t)
  BY <1>1, <1>2 DEF Op
<1> QED
  BY <1>1, <1>4, <1>5, OneSessionKeeps

LEMMA ConnectedKeeps ==
  ASSUME NTCPInv, NEW i \in Ids, i[1] \in dialed, Connected(i), dialed' = dialed, broken' = broken
  PROVE  NTCPInv'
<1>1. PICK s : s = sess[i]
  OBVIOUS
<1>2. PICK t : t = [s EXCEPT !.established = TRUE, !.op = "recv", !.sending = TRUE,
                             !.sendQueue = Append(@, DbStore)]
  OBVIOUS
<1>3. Fine(i, s, dialed)
  BY <1>1 DEF NTCPInv
<1>4. Fine(i, t, dialed) /\ t.sending /\ t.open = s.open
  BY <1>2, <1>3 DEF Fine
<1>5. Set(i, t)
  BY <1>1, <1>2 DEF Connected
<1> QED
  BY <1>1, <1>4, <1>5, OneSessionKeeps

(* What an operation, an established session or a queue says of session i.  *)
LEMMA Dialed ==
  ASSUME NTCPInv, NEW i \in Ids, sess[i].op # "none" \/ sess[i].established
  PROVE  i[1] \in dialed
BY DEF NTCPInv, Fine

LEMMA ConnectNTCPKeeps ==
  ASSUME NTCPInv, NEW c \in Conns, ConnectNTCP(c)
  PROVE  NTCPInv'
<1>1. PICK i, n : i = <<c, "client">> /\ n = [NewSession("connect") EXCEPT !.ident = TRUE]
  OBVIOUS
<1>2. i \in Ids /\ i[1] = c
  BY <1>1 DEF Ids
<1>3. DOMAIN sess' = Ids /\ sess'[i] = n /\ \A j \in Ids \ {i} : sess'[j] = sess[j]
  BY <1>1, <1>2 DEF ConnectNTCP, Set, NTCPInv
<1>4. dialed' = dialed \cup {c} /\ broken' = broken /\ c \notin dialed
  BY DEF ConnectNTCP
<1>5. Fine(i, n, dialed') /\ n.sendQueue = <<>>
  BY <1>1, <1>2, <1>4 DEF Fine, NewSession
<1>6. ASSUME NEW j \in Ids
      PROVE  Fine(j, sess[j], dialed)' /\ Moves(j)'
  <2>1. CASE j = i
    BY <1>3, <1>5, <2>1 DEF Fine, Moves
  <2>2. CASE j # i
    <3>1. Fine(j, sess[j], dialed) /\ Moves(j) /\ sess'[j] = sess[j]
      BY <1>3, <2>2 DEF NTCPInv
    <3>2. Fine(j, sess[j], dialed)'
      BY <1>4, <3>1 DEF Fine
    <3>3. CASE j[1] = c
      BY <1>4, <3>1, <3>3 DEF Fine, Moves
    <3>4. CASE j[1] # c
      <4>1. sess'[Peer(j)] = sess[Peer(j)]
        BY <1>2, <1>3, <3>4, PeerFacts
      <4> QED
        BY <1>4, <3>1, <3>2, <4>1 DEF Moves, MayFail
    <3> QED
      BY <3>2, <3>3, <3>4
  <2> QED
    BY <2>1, <2>2
<1> QED
  BY <1>3, <1>6 DEF NTCPInv

LEMMA HandleConnectKeeps ==
  ASSUME NTCPInv, NEW i \in Ids, HandleConnect(i)
  PROVE  NTCPInv'
<1>1. i[1] \in dialed /\ dialed' = dialed /\ broken' = broken /\ sess[i].op = "connect"
  BY Dialed DEF HandleConnect
<1>2. CASE Terminate(i, [sess[i] EXCEPT !.op = "none"])
  BY <1>1, <1>2, TerminateKeeps
<1>3. CASE sess' = [sess EXCEPT ![i] = ScheduleTermination([@ EXCEPT !.op = "r2"]),
                                ![Peer(i)] = NewSession("accept")]
  <2>1. PICK t, n : t = ScheduleTermination([sess[i] EXCEPT !.op = "r2"]) /\ n = NewSession("accept")
    OBVIOUS
  <2>2. /\ DOMAIN sess' = Ids /\ sess'[i] = t /\ sess'[Peer(i)] = n
        /\ \A j \in Ids \ {i, Peer(i)} : sess'[j] = sess[j]
    BY <1>3, <2>1, PeerFacts DEF NTCPInv
  <2>3. Fine(i, sess[i], dialed) /\ sess[i].op # "recv"
    BY <1>1 DEF NTCPInv
  <2>4. Fine(i, t, dialed) /\ t.sendQueue = <<>>
    BY <1>1, <2>1, <2>3 DEF Fine, ScheduleTermination
  <2>5. Fine(Peer(i), n, dialed) /\ n.sendQueue = <<>>
    BY <1>1, <2>1, PeerFacts DEF Fine, NewSession
  <2>6. ASSUME NEW j \in Ids
        PROVE  Fine(j, sess[j], dialed)' /\ Moves(j)'
    <3>1. CASE j = i
      BY <1>1, <2>2, <2>4, <3>1 DEF Fine, Moves
    <3>2. CASE j = Peer(i)
      BY <1>1, <2>2, <2>5, <3>2 DEF Fine, Moves
    <3>3. CASE j \notin {i, Peer(i)}
      <4>1. sess'[j] = sess[j] /\ sess'[Peer(j)] = sess[Peer(j)]
        BY <2>2, <3>3, PeerFacts
      <4>2. Fine(j, sess[j], dialed) /\ Moves(j)
        BY DEF NTCPInv
      <4> QED
        BY <1>1, <4>1, <4>2 DEF Fine, Moves, MayFail
    <3> QED
      BY <3>1, <3>2, <3>3
  <2> QED
    BY <2>2, <2>6 DEF NTCPInv
<1> QED
  BY <1>2, <1>3 DEF HandleConnect

LEMMA HandleAcceptKeeps ==
  ASSUME NTCPInv, NEW i \in Ids, HandleAccept(i)
  PROVE  NTCPInv'
<1>1. PICK s : s = sess[i]
  OBVIOUS
<1>2. Fine(i, s, dialed) /\ s.op = "accept" /\ dialed' = dialed /\ broken' = broken
  BY <1>1 DEF NTCPInv, HandleAccept
<1>3. \/ Set(i, [s EXCEPT !.op = "none", !.open = FALSE])
      \/ Set(i, ScheduleTermination([s EXCEPT !.op = "r1"]))
  BY <1>1 DEF HandleAccept
<1>4. ASSUME NEW t, Set(i, t), t = [s EXCEPT !.op = "none", !.open = FALSE]
                               \/ t = ScheduleTermination([s EXCEPT !.op = "r1"])
      PROVE  NTCPInv'
  <2>1. Fine(i, t, dialed) /\ t.sendQueue = <<>> /\ (t.open => s.open)
    BY <1>2, <1>4 DEF Fine, ScheduleTermination
  <2> QED
    BY <1>1, <1>2, <1>4, <2>1, OneSessionKeeps
<1> QED
  BY <1>3, <1>4

LEMMA HandlePhase3ReceivedKeeps ==
  ASSUME NTCPInv, NEW i \in Ids, HandlePhase3Received(i)
  PROVE  NTCPInv'
<1>1. PICK s : s = sess[i]
  OBVIOUS
<1>2. Fine(i, s, dialed) /\ s.op = "r3" /\ dialed' = dialed /\ broken' = broken
  BY <1>1 DEF NTCPInv, HandlePhase3Received, Arrived
<1>3. PICK op \in {"r3x", "w4"} : op = IF Dialer[i[1]] \in LongIdents THEN "r3x" ELSE "w4"
  OBVIOUS
<1>4. PICK t : t = [s EXCEPT !.ident = TRUE, !.op = op]
  OBVIOUS
<1>5. PICK c : c = ClosedSession(t)
  OBVIOUS
<1>6. Fine(i, t, dialed) /\ t.sendQueue = <<>> /\ t.open = s.open
  BY <1>2, <1>3, <1>4 DEF Fine
<1>7. Fine(i, c, dialed) /\ c.sendQueue = <<>> /\ ~c.open
  <2>1. i[1] \in dialed
    BY <1>2 DEF Fine
  <2> QED
    BY <1>5, <2>1 DEF ClosedSession, NewSession, Fine
<1>8. Set(i, t) \/ Set(i, c)
  BY <1>1, <1>3, <1>4, <1>5 DEF HandlePhase3Received
<1> QED
  BY <1>1, <1>2, <1>6, <1>7, <1>8, OneSessionKeeps

LEMMA PostI2NPMessagesKeeps ==
  ASSUME NTCPInv, NEW i \in Ids, PostI2NPMessages(i)
  PROVE  NTCPInv'
<1>1. PICK s, m : s = sess[i] /\ m = Len(given[i]) + 1
  OBVIOUS
<1>2. Fine(i, s, dialed) /\ s.established /\ dialed' = dialed /\ broken' = broken
  BY <1>1 DEF NTCPInv, PostI2NPMessages
<1>3. \/ s.sending /\ Set(i, [s EXCEPT !.sendQueue = Append(@, m)])
      \/ Set(i, [s EXCEPT !.sending = TRUE])
  BY <1>1 DEF PostI2NPMessages
<1>4. ASSUME NEW t, Set(i, t), \/ s.sending /\ t = [s EXCEPT !.sendQueue = Append(@, m)]
                               \/ t = [s EXCEPT !.sending = TRUE]
      PROVE  NTCPInv'
  <2>1. Fine(i, t, dialed) /\ t.sending /\ t.open = s.open
    BY <1>2, <1>4 DEF Fine
  <2> QED
    BY <1>1, <1>2, <1>4, <2>1, OneSessionKeeps
<1> QED
  BY <1>3, <1>4

LEMMA HandleSentKeeps ==
  ASSUME NTCPInv, NEW i \in Ids, HandleSent(i)
  PROVE  NTCPInv'
<1>1. PICK s : s = sess[i]
  OBVIOUS
<1>2. Fine(i, s, dialed) /\ dialed' = dialed /\ broken' = broken
  BY <1>1 DEF NTCPInv, HandleSent
<1>3. \/ Set(i, AfterSent(s))
      \/ Set(i, [s EXCEPT !.sending = FALSE]) /\ (~s.open \/ MayFail(i))
  BY <1>1 DEF HandleSent
<1>4. CASE Set(i, AfterSent(s))
  <2>1. PICK t : t = AfterSent(s)
    OBVIOUS
  <2>2. Fine(i, t, dialed) /\ t.sendQueue = <<>> /\ t.open = s.open
    BY <1>2, <2>1 DEF Fine, AfterSent, ScheduleTermination
  <2> QED
    BY <1>1, <1>2, <1>4, <2>1, <2>2, OneSessionKeeps
<1>5. CASE Set(i, [s EXCEPT !.sending = FALSE]) /\ (~s.open \/ MayFail(i))
  <2>1. PICK t : t = [s EXCEPT !.sending = FALSE]
    OBVIOUS
  <2>2. Fine(i, t, dialed) /\ t.open = s.open
    BY <1>2, <2>1 DEF Fine
  <2> QED
    BY <1>1, <1>2, <1>5, <2>1, <2>2, OneSessionKeeps
<1> QED
  BY <1>3, <1>4, <1>5

LEMMA HandleReceivedKeeps ==
  ASSUME NTCPInv, NEW i \in Ids, NEW k, HandleReceived(i, k)
  PROVE  NTCPInv'
<1>1. PICK s : s = sess[i]
  OBVIOUS
<1>2. /\ Fine(i, s, dialed) /\ Moves(i) /\ s.op = "recv" /\ dialed' = dialed /\ broken' = broken
      /\ i[1] \in dialed
  BY <1>1, Dialed DEF NTCPInv, HandleReceived
<1>3. PICK t : t = [s EXCEPT !.received = TRUE]
  OBVIOUS
<1>4. \/ Set(i, ScheduleTermination(t)) \/ Terminate(i, [t EXCEPT !.op = "none"])
  BY <1>1, <1>3 DEF HandleReceived
<1>5. CASE Set(i, ScheduleTermination(t))
  <2>1. PICK u : u = ScheduleTermination(t)
    OBVIOUS
  <2>2. /\ Fine(i, u, dialed) /\ u.open = s.open /\ u.sending = s.sending
        /\ u.sendQueue = s.sendQueue
    BY <1>2, <1>3, <2>1 DEF Fine, ScheduleTermination
  <2> QED
    BY <1>1, <1>2, <1>5, <2>1, <2>2, OneSessionKeeps DEF Moves
<1>6. CASE Terminate(i, [t EXCEPT !.op = "none"])
  BY <1>2, <1>6, TerminateKeeps
<1> QED
  BY <1>4, <1>5, <1>6

LEMMA HandleTerminationTimerKeeps ==
  ASSUME NTCPInv, NEW i \in Ids, HandleTerminationTimer(i)
  PROVE  NTCPInv'
<1>1. PICK s, t : s = sess[i] /\ t = [s EXCEPT !.open = FALSE, !.timer = FALSE]
  OBVIOUS
<1>2. Fine(i, s, dialed) /\ dialed' = dialed /\ broken' = broken /\ Set(i, t)
  BY <1>1 DEF NTCPInv, HandleTerminationTimer
<1>3. Fine(i, t, dialed) /\ ~t.open
  BY <1>1, <1>2 DEF Fine
<1> QED
  BY <1>2, <1>3, OneSessionKeeps

(* The steps that end or go on with a session by Terminate or Op.           *)
LEMMA PlainSteps ==
  ASSUME NTCPInv, NEW i \in Ids,
         \/ HandlePhase1Received(i) \/ HandlePhase2Received(i) \/ HandlePhase3ExtraReceived(i)
         \/ HandlePhase4Sent(i) \/ HandlePhase4Received(i)
         \/ PhaseRefused(i) \/ PhaseFailed(i) \/ Aborted(i) \/ ReceiveFailed(i) \/ NTCPDone(i)
  PROVE  NTCPInv'
<1>1. i[1] \in dialed /\ dialed' = dialed /\ broken' = broken
  BY Dialed DEF HandlePhase1Received, HandlePhase2Received, HandlePhase3ExtraReceived, Arrived,
     HandlePhase4Sent, HandlePhase4Received, PhaseRefused, PhaseFailed, Aborted, ReceiveFailed, NTCPDone
<1>2. CASE HandlePhase1Received(i) \/ HandlePhase2Received(i) \/ HandlePhase3ExtraReceived(i)
  BY <1>1, <1>2, OpKeeps DEF HandlePhase1Received, HandlePhase2Received, HandlePhase3ExtraReceived, Arrived
<1>3. CASE HandlePhase4Sent(i) \/ HandlePhase4Received(i)
  BY <1>1, <1>3, ConnectedKeeps DEF HandlePhase4Sent, HandlePhase4Received
<1>4. CASE PhaseRefused(i) \/ PhaseFailed(i) \/ ReceiveFailed(i) \/ NTCPDone(i)
  BY <1>1, <1>4, TerminateKeeps DEF PhaseRefused, PhaseFailed, ReceiveFailed, NTCPDone
<1>5. CASE Aborted(i)
  BY <1>1, <1>5, TerminateKeeps, OpKeeps DEF Aborted
<1> QED
  BY <1>2, <1>3, <1>4, <1>5

LEMMA NTCPInductive ==
  ASSUME NTCPInv, [NTCPNext]_ntcpVars
  PROVE  NTCPInv'
<1>1. CASE sess' = sess /\ dialed' = dialed /\ broken \subseteq broken'
  BY <1>1 DEF NTCPInv, Fine, Moves, MayFail
<1>2. CASE UNCHANGED ntcpVars
  BY <1>1, <1>2 DEF ntcpVars
<1>3. ASSUME NEW c \in Conns, Cut(c)
      PROVE  NTCPInv'
  BY <1>1, <1>3 DEF Cut
<1>4. ASSUME NEW n \in Nodes, BanExpires(n)
      PROVE  NTCPInv'
  BY <1>1, <1>4 DEF BanExpires
<1> QED
  BY <1>2, <1>3, <1>4, ConnectNTCPKeeps, HandleConnectKeeps, HandleAcceptKeeps,
     HandlePhase3ReceivedKeeps, PostI2NPMessagesKeeps, HandleSentKeeps, HandleReceivedKeeps,
     HandleTerminationTimerKeeps, PlainSteps DEF NTCPNext

(* Messages in the send queue of an NTCP session are always on their way,   *)
(* or the session is about to be terminated.                                *)
THEOREM SpecSendQueueMoves == NTCPSpec => []SendQueueMoves
<1>1. NTCPInit => NTCPInv
  BY DEF NTCPInit, NTCPInv, Fine, Moves, NewSession
<1>2. NTCPInv /\ [NTCPNext]_ntcpVars => NTCPInv'
  BY NTCPInductive
<1>3. NTCPInv => SendQueueMoves
  BY DEF NTCPInv, Fine, Moves, SendQueueMoves
<1> QED
  BY <1>1, <1>2, <1>3, PTL DEF NTCPSpec

-----------------------------------------------------------------------------
(* Transports implements OrderedDelivery.  Messages for a router wait in    *)
(* two places, behind each other: its entry's delayedMessages and the tasks *)
(* posted to m_Service.  Each place is in order, all of the first is older  *)
(* than all of the second, and what was sent is older than both.            *)
LinkTypes == [to : Targets, kind : {"none", "NTCP", "SSU", "incoming"},
              state : {"dialing", "up", "done", "ended", "down"}]
Entries == [numAttempts : 0..2, router : BOOLEAN, sessions : SUBSET (1..MaxLinks),
            late : BOOLEAN, delayedMessages : Seq(Nat)]
Tasks == [type : {"messages"}, to : Targets, msg : Nat]
           \cup [type : {"connected", "disconnected"}, to : Idents, link : 1..MaxLinks]
           \cup [type : {"request", "resolve"}, to : Idents, found : BOOLEAN]
           \cup [type : {"close"}, to : Idents]

TypeInv ==
  /\ peers \in [Idents -> Entries \cup {NoPeer}]
  /\ service \in Seq(Tasks)
  /\ links \in [1..MaxLinks -> LinkTypes]
  /\ \A n \in 1..MaxLinks : links[n].state # "down" => links[n].to \in Idents
  /\ asked \subseteq {"request", "resolve"} \X Idents
  /\ accepted \in [Targets -> Nat]
  /\ sent \in [Targets -> Seq(Nat)]

Increasing(s) == \A j, k \in 1..Len(s) : j < k => s[j] < s[k]
Elements(s) == {s[k] : k \in 1..Len(s)}
Older(S, T) == \A x \in S, y \in T : x < y

(* s was sent, d is delayed, P is posted, and n messages were accepted.     *)
Ordered(s, d, P, n) ==
  /\ Increasing(s) /\ Increasing(d)
  /\ Older(Elements(s), Elements(d)) /\ Older(Elements(s), P) /\ Older(Elements(d), P)
  /\ Elements(s) \cup Elements(d) \cup P \subseteq 1..n

PostsInOrder(i) ==
  \A j, k \in PostsFor(i) : j < k => service[j].msg < service[k].msg
Posts(i) == {service[k].msg : k \in PostsFor(i)}

(* A peer with a session has no delayed message.                            *)
OrderInv ==
  /\ \A i \in Targets : /\ PostsInOrder(i)
                        /\ Ordered(sent[i], DelayedFor(i), Posts(i), accepted[i])
  /\ \A i \in Idents : peers[i] # NoPeer /\ peers[i].sessions # {}
                         => peers[i].delayedMessages = <<>>

IInv == TypeInv /\ OrderInv

-----------------------------------------------------------------------------
(* A step of OrderedDelivery for one channel, of n accepted messages, W     *)
(* waiting and s handed on, and what a step of Transports may be for it.    *)
New(s, s1) == (Len(s) + 1)..Len(s1)
Out(s, s1) == {s1[k] : k \in New(s, s1)}

StepOf(n, W, s, n1, W1, s1) ==
  LET all == W \cup (n + 1)..n1
  IN /\ n <= n1
     /\ Len(s) <= Len(s1)
     /\ \A k \in 1..Len(s) : s1[k] = s[k]
     /\ \A j, k \in New(s, s1) : j < k => s1[j] < s1[k]
     /\ Out(s, s1) \subseteq all
     /\ \A m \in all, x \in Out(s, s1) : m < x => m \in Out(s, s1)
     /\ W1 \subseteq all \ Out(s, s1)

Both(s, d, P, n, s1, d1, P1, n1) ==
  /\ Ordered(s1, d1, P1, n1)
  /\ StepOf(n, Elements(d) \cup P, s, n1, Elements(d1) \cup P1, s1)

LEMMA NothingNew ==
  ASSUME NEW s \in Seq(Nat)
  PROVE  New(s, s) = {} /\ Out(s, s) = {}
<1>1. New(s, s) = {}
  BY DEF New
<1> QED
  BY <1>1 DEF Out

(* A step that accepts nothing.                                             *)
LEMMA StepIf ==
  ASSUME NEW n \in Nat, NEW s \in Seq(Nat), NEW t \in Seq(Nat), NEW W, NEW W1,
         Len(s) <= Len(t), \A k \in 1..Len(s) : t[k] = s[k],
         \A j, k \in New(s, t) : j < k => t[j] < t[k],
         Out(s, t) \subseteq W,
         \A m \in W, x \in Out(s, t) : m < x => m \in Out(s, t),
         W1 \subseteq W \ Out(s, t)
  PROVE  StepOf(n, W, s, n, W1, t)
<1>1. W \cup (n + 1)..n = W
  OBVIOUS
<1> QED
  BY <1>1 DEF StepOf

LEMMA ElementsEmpty == Elements(<<>>) = {} /\ Increasing(<<>>)
BY DEF Elements, Increasing

(* What a sequence has that is made of another one and more at its end.     *)
LEMMA Extended ==
  ASSUME NEW s \in Seq(Nat), NEW t \in Seq(Nat), Len(s) <= Len(t),
         \A k \in 1..Len(s) : t[k] = s[k]
  PROVE  /\ Elements(t) = Elements(s) \cup Out(s, t)
         /\ Increasing(s) /\ Older(Elements(s), Out(s, t))
              /\ (\A j, k \in New(s, t) : j < k => t[j] < t[k])
            => Increasing(t)
<1>1. \A k \in 1..Len(t) : k \in 1..Len(s) \/ k \in New(s, t)
  BY DEF New
<1>2. /\ \A k \in 1..Len(s) : k \in 1..Len(t)
      /\ \A k \in New(s, t) : k \in 1..Len(t) /\ k \in Nat /\ k > Len(s)
  BY DEF New
<1>3. \A x \in Elements(t) : x \in Elements(s) \cup Out(s, t)
  <2> SUFFICES ASSUME NEW k \in 1..Len(t) PROVE t[k] \in Elements(s) \cup Out(s, t)
    BY DEF Elements
  <2>1. CASE k \in 1..Len(s)
    BY <2>1 DEF Elements
  <2>2. CASE k \in New(s, t)
    BY <2>2 DEF Out
  <2> QED
    BY <1>1, <2>1, <2>2
<1>4. \A x \in Elements(s) \cup Out(s, t) : x \in Elements(t)
  BY <1>2 DEF Elements, Out
<1>5. ASSUME Increasing(s), Older(Elements(s), Out(s, t)),
             \A j, k \in New(s, t) : j < k => t[j] < t[k]
      PROVE  Increasing(t)
  <2> SUFFICES ASSUME NEW j \in 1..Len(t), NEW k \in 1..Len(t), j < k PROVE t[j] < t[k]
    BY DEF Increasing
  <2>1. CASE k \in 1..Len(s)
    <3>1. j \in 1..Len(s)
      BY <2>1
    <3> QED
      BY <1>5, <2>1, <3>1 DEF Increasing
  <2>2. CASE k \in New(s, t) /\ j \in 1..Len(s)
    <3>1. t[j] \in Elements(s) /\ t[k] \in Out(s, t)
      BY <2>2 DEF Elements, Out
    <3> QED
      BY <1>5, <3>1 DEF Older
  <2>3. CASE k \in New(s, t) /\ j \in New(s, t)
    BY <1>5, <2>3
  <2> QED
    BY <1>1, <2>1, <2>2, <2>3
<1> QED
  BY <1>3, <1>4, <1>5

LEMMA Appended ==
  ASSUME NEW s \in Seq(Nat), NEW m \in Nat
  PROVE  LET t == Append(s, m)
         IN /\ t \in Seq(Nat) /\ Len(s) <= Len(t)
            /\ \A k \in 1..Len(s) : t[k] = s[k]
            /\ \A j, k \in New(s, t) : j < k => t[j] < t[k]
            /\ Out(s, t) = {m}
<1> DEFINE t == Append(s, m)
<1>1. /\ t \in Seq(Nat) /\ Len(t) = Len(s) + 1 /\ t[Len(s) + 1] = m
      /\ \A k \in 1..Len(s) : t[k] = s[k]
  OBVIOUS
<1> HIDE DEF t
<1>2. New(s, t) = {Len(s) + 1}
  BY <1>1 DEF New
<1>3. Out(s, t) = {m}
  BY <1>1, <1>2 DEF Out
<1> QED
  BY <1>1, <1>2, <1>3 DEF t

(* Nothing is sent; what waits stays or is lost.                            *)
LEMMA Lose ==
  ASSUME NEW s \in Seq(Nat), NEW d \in Seq(Nat), NEW P \in SUBSET Nat, NEW n \in Nat,
         Ordered(s, d, P, n), NEW d1 \in {d, <<>>}, NEW P1 \in SUBSET P
  PROVE  Both(s, d, P, n, s, d1, P1, n)
<1>1. Elements(d1) \subseteq Elements(d) /\ Increasing(d1)
  BY ElementsEmpty DEF Ordered
<1>2. Ordered(s, d1, P1, n)
  BY <1>1 DEF Ordered, Older
<1>3. StepOf(n, Elements(d) \cup P, s, n, Elements(d1) \cup P1, s)
  <2>1. Out(s, s) = {} /\ New(s, s) = {}
    BY NothingNew
  <2>2. Elements(d1) \cup P1 \subseteq (Elements(d) \cup P) \ Out(s, s)
    BY <1>1, <2>1
  <2> QED
    BY <2>1, <2>2, StepIf
<1> QED
  BY <1>2, <1>3 DEF Both

(* A message is accepted and posted.                                        *)
LEMMA Accept ==
  ASSUME NEW s \in Seq(Nat), NEW d \in Seq(Nat), NEW P \in SUBSET Nat, NEW n \in Nat,
         Ordered(s, d, P, n)
  PROVE  Both(s, d, P, n, s, d, P \cup {n + 1}, n + 1)
<1>1. (n + 1)..(n + 1) = {n + 1}
  OBVIOUS
<1>2. Ordered(s, d, P \cup {n + 1}, n + 1)
  <2>1. Elements(s) \cup Elements(d) \cup P \subseteq 1..n
    BY DEF Ordered
  <2>2. Older(Elements(s), {n + 1}) /\ Older(Elements(d), {n + 1})
    BY <2>1 DEF Older
  <2>3. Elements(s) \cup Elements(d) \cup (P \cup {n + 1}) \subseteq 1..(n + 1)
    BY <2>1
  <2> QED
    BY <2>2, <2>3 DEF Ordered, Older
<1>3. StepOf(n, Elements(d) \cup P, s, n + 1, Elements(d) \cup (P \cup {n + 1}), s)
  BY <1>1, NothingNew DEF StepOf
<1> QED
  BY <1>2, <1>3 DEF Both

(* The oldest posted message joins the delayed ones.                        *)
LEMMA Delay ==
  ASSUME NEW s \in Seq(Nat), NEW d \in Seq(Nat), NEW P \in SUBSET Nat, NEW n \in Nat,
         NEW m \in Nat, Older({m}, P), Ordered(s, d, P \cup {m}, n)
  PROVE  Both(s, d, P \cup {m}, n, s, Append(d, m), P, n)
<1> DEFINE d1 == Append(d, m)
<1>1. /\ d1 \in Seq(Nat) /\ Len(d) <= Len(d1) /\ \A k \in 1..Len(d) : d1[k] = d[k]
      /\ \A j, k \in New(d, d1) : j < k => d1[j] < d1[k]
      /\ Out(d, d1) = {m}
  BY Appended
<1> HIDE DEF d1
<1>2. Increasing(d) /\ Older(Elements(d), {m})
  BY DEF Ordered, Older
<1>3. Elements(d1) = Elements(d) \cup {m} /\ Increasing(d1)
  BY <1>1, <1>2, Extended
<1>4. Ordered(s, d1, P, n)
  BY <1>3 DEF Ordered, Older
<1>5. StepOf(n, Elements(d) \cup (P \cup {m}), s, n, Elements(d1) \cup P, s)
  BY <1>3, NothingNew, StepIf
<1> QED
  BY <1>4, <1>5 DEF Both, d1

(* The delayed messages are sent, oldest first.                             *)
LEMMA Flush ==
  ASSUME NEW s \in Seq(Nat), NEW d \in Seq(Nat), NEW P \in SUBSET Nat, NEW n \in Nat,
         Ordered(s, d, P, n)
  PROVE  Both(s, d, P, n, s \o d, <<>>, P, n)
<1> DEFINE t == s \o d
<1>1. /\ t \in Seq(Nat) /\ Len(t) = Len(s) + Len(d) /\ Len(s) <= Len(t)
      /\ \A k \in 1..Len(s) : t[k] = s[k]
      /\ \A k \in (Len(s) + 1)..Len(t) : t[k] = d[k - Len(s)] /\ k - Len(s) \in 1..Len(d)
      /\ \A k \in 1..Len(d) : t[Len(s) + k] = d[k] /\ Len(s) + k \in (Len(s) + 1)..Len(t)
  OBVIOUS
<1> HIDE DEF t
<1>2. Out(s, t) = Elements(d)
  <2>1. \A k \in New(s, t) : t[k] \in Elements(d)
    BY <1>1 DEF New, Elements
  <2>2. \A k \in 1..Len(d) : d[k] \in Out(s, t)
    <3> SUFFICES ASSUME NEW k \in 1..Len(d) PROVE d[k] \in Out(s, t)
      OBVIOUS
    <3>1. Len(s) + k \in New(s, t) /\ t[Len(s) + k] = d[k]
      BY <1>1 DEF New
    <3> QED
      BY <3>1 DEF Out
  <2> QED
    BY <2>1, <2>2 DEF Out, Elements
<1>3. \A j, k \in New(s, t) : j < k => t[j] < t[k]
  <2> SUFFICES ASSUME NEW j \in New(s, t), NEW k \in New(s, t), j < k PROVE t[j] < t[k]
    OBVIOUS
  <2>1. /\ t[j] = d[j - Len(s)] /\ j - Len(s) \in 1..Len(d)
        /\ t[k] = d[k - Len(s)] /\ k - Len(s) \in 1..Len(d)
    BY <1>1 DEF New
  <2>2. j - Len(s) < k - Len(s)
    BY DEF New
  <2> QED
    BY <2>1, <2>2 DEF Ordered, Increasing
<1>4. Elements(t) = Elements(s) \cup Elements(d) /\ Increasing(t)
  BY <1>1, <1>2, <1>3, Extended, ZenonT(60) DEF Ordered
<1>5. Ordered(t, <<>>, P, n)
  BY <1>4, ElementsEmpty DEF Ordered, Older
<1>6. StepOf(n, Elements(d) \cup P, s, n, Elements(<<>>) \cup P, t)
  <2>1. Elements(d) \subseteq 1..n /\ P \subseteq 1..n /\ Older(Elements(d), P)
    BY DEF Ordered
  <2>2. \A x \in Elements(d), m \in P : ~(m < x) /\ m # x
    BY <2>1 DEF Older
  <2> QED
    BY <1>1, <1>2, <1>3, <2>2, ElementsEmpty, StepIf
<1> QED
  BY <1>5, <1>6 DEF Both, t

(* With none delayed, the oldest posted message is sent.                    *)
LEMMA Send ==
  ASSUME NEW s \in Seq(Nat), NEW P \in SUBSET Nat, NEW n \in Nat,
         NEW m \in Nat, Older({m}, P), Ordered(s, <<>>, P \cup {m}, n)
  PROVE  Both(s, <<>>, P \cup {m}, n, Append(s, m), <<>>, P, n)
<1> DEFINE t == Append(s, m)
<1>1. /\ t \in Seq(Nat) /\ Len(s) <= Len(t) /\ \A k \in 1..Len(s) : t[k] = s[k]
      /\ \A j, k \in New(s, t) : j < k => t[j] < t[k]
      /\ Out(s, t) = {m}
  BY Appended
<1> HIDE DEF t
<1>2. Increasing(s) /\ Older(Elements(s), {m})
  BY DEF Ordered, Older
<1>3. Elements(t) = Elements(s) \cup {m} /\ Increasing(t)
  BY <1>1, <1>2, Extended
<1>4. Ordered(t, <<>>, P, n)
  BY <1>3, ElementsEmpty DEF Ordered, Older
<1>5. StepOf(n, Elements(<<>>) \cup (P \cup {m}), s, n, Elements(<<>>) \cup P, t)
  <2>1. \A x \in P : ~(x < m) /\ x # m
    BY DEF Older
  <2> QED
    BY <1>1, <2>1, ElementsEmpty, StepIf
<1> QED
  BY <1>4, <1>5 DEF Both, t

-----------------------------------------------------------------------------
(* The tasks posted to m_Service.                                           *)

LEMMA TaskFacts ==
  ASSUME NEW t \in Tasks
  PROVE  /\ t.type = "messages" => t.to \in Targets /\ t.msg \in Nat
         /\ t.type # "messages" => t.to \in Idents
         /\ t.type \in {"connected", "disconnected"} => t.link \in 1..MaxLinks
BY DEF Tasks

LEMMA PostsFacts ==
  ASSUME TypeInv, NEW i \in Targets
  PROVE  /\ Posts(i) \in SUBSET Nat
         /\ PostsFor(i) \subseteq 1..Len(service)
         /\ \A k \in PostsFor(i) : service[k].msg \in Nat
<1>1. \A k \in 1..Len(service) : service[k] \in Tasks
  BY DEF TypeInv
<1>2. PostsFor(i) \subseteq 1..Len(service)
  BY DEF PostsFor, TypeInv
<1>3. \A k \in PostsFor(i) : service[k].msg \in Nat
  BY <1>1, <1>2, TaskFacts DEF PostsFor, IsPost
<1> QED
  BY <1>2, <1>3 DEF Posts

(* A task is posted at the end.                                             *)
LEMMA PostedFacts ==
  ASSUME TypeInv, NEW t \in Tasks, Posted(t), NEW i \in Targets, PostsInOrder(i)
  PROVE  /\ service' \in Seq(Tasks)
         /\ ~IsPost(t, i) => PostsInOrder(i)' /\ Posts(i)' = Posts(i)
         /\ IsPost(t, i) /\ Older(Posts(i), {t.msg})
              => PostsInOrder(i)' /\ Posts(i)' = Posts(i) \cup {t.msg}
<1> DEFINE n == Len(service) + 1
           new == service'
<1>1. /\ new \in Seq(Tasks) /\ Len(new) = n /\ new[n] = t /\ service \in Seq(Tasks)
      /\ n \in Nat /\ \A k \in 1..Len(service) : new[k] = service[k]
  BY DEF Posted, TypeInv
<1>2. /\ DOMAIN new = 1..n /\ DOMAIN service = 1..Len(service)
      /\ 1..n = 1..Len(service) \cup {n} /\ n \notin 1..Len(service)
  BY <1>1
<1>3. PostsFor(i)' = {k \in DOMAIN new : IsPost(new[k], i)}
  BY DEF PostsFor
<1>4. Posts(i)' = {new[k].msg : k \in PostsFor(i)'}
  BY DEF Posts
<1>5. PostsInOrder(i)' <=> \A j, k \in PostsFor(i)' : j < k => new[j].msg < new[k].msg
  BY DEF PostsInOrder
<1> DEFINE posts == PostsFor(i)'
<1> HIDE DEF new, n, posts
<1>6. \A k \in PostsFor(i) : k \in 1..Len(service) /\ new[k] = service[k] /\ k < n
  BY <1>1, <1>2 DEF PostsFor, n
<1>7. ASSUME ~IsPost(t, i)
      PROVE  PostsInOrder(i)' /\ Posts(i)' = Posts(i)
  <2>1. posts = PostsFor(i)
    BY <1>1, <1>2, <1>3, <1>7 DEF PostsFor, posts
  <2>2. \A k \in posts : new[k] = service[k]
    BY <1>6, <2>1
  <2>3. {new[k].msg : k \in posts} = {service[k].msg : k \in PostsFor(i)}
    BY <2>1, <2>2
  <2> QED
    BY <1>4, <1>5, <2>1, <2>2, <2>3 DEF posts, Posts, PostsInOrder
<1>8. ASSUME IsPost(t, i), Older(Posts(i), {t.msg})
      PROVE  PostsInOrder(i)' /\ Posts(i)' = Posts(i) \cup {t.msg}
  <2>1. posts = PostsFor(i) \cup {n}
    BY <1>1, <1>2, <1>3, <1>8 DEF PostsFor, posts
  <2>2. \A k \in PostsFor(i) : new[k] = service[k] /\ service[k].msg \in Posts(i)
    BY <1>6 DEF Posts
  <2>3. {new[k].msg : k \in posts} = {service[k].msg : k \in PostsFor(i)} \cup {t.msg}
    BY <1>1, <2>1, <2>2
  <2>4. ASSUME NEW j \in posts, NEW k \in posts, j < k
        PROVE  new[j].msg < new[k].msg
    <3>1. CASE k \in PostsFor(i)
      <4>1. j # n
        BY <1>1, <1>6, <2>4, <3>1
      <4>2. j \in PostsFor(i)
        BY <2>1, <4>1
      <4> QED
        BY <2>2, <2>4, <3>1, <4>2 DEF PostsInOrder
    <3>2. CASE k = n
      <4>1. j \in PostsFor(i)
        BY <1>1, <2>1, <2>4, <3>2
      <4> QED
        BY <1>1, <1>8, <2>2, <3>2, <4>1 DEF Older
    <3> QED
      BY <2>1, <3>1, <3>2
  <2> QED
    BY <1>4, <1>5, <2>3, <2>4 DEF posts, Posts
<1> QED
  BY <1>1, <1>7, <1>8 DEF new

(* The oldest task is taken.                                                *)
LEMMA TakenFacts ==
  ASSUME TypeInv, service # <<>>, service' = Tail(service), NEW i \in Targets, PostsInOrder(i)
  PROVE  /\ Head(service) \in Tasks /\ service' \in Seq(Tasks)
         /\ PostsInOrder(i)'
         /\ ~IsPost(Head(service), i) => Posts(i)' = Posts(i)
         /\ IsPost(Head(service), i) =>
              /\ Posts(i) = Posts(i)' \cup {Head(service).msg}
              /\ Older({Head(service).msg}, Posts(i)')
<1> DEFINE new == service'
           n == Len(service)
           m == Head(service).msg
<1>1. /\ service \in Seq(Tasks) /\ n \in Nat /\ n > 0
      /\ new \in Seq(Tasks) /\ Len(new) = n - 1
      /\ \A k \in 1..Len(new) : new[k] = service[k + 1]
      /\ Head(service) = service[1] /\ Head(service) \in Tasks
  BY DEF TypeInv
<1>2. DOMAIN new = 1..(n - 1) /\ DOMAIN service = 1..n
  BY <1>1
<1>3. PostsFor(i)' = {k \in DOMAIN new : IsPost(new[k], i)}
  BY DEF PostsFor
<1>4. Posts(i)' = {new[k].msg : k \in PostsFor(i)'}
  BY DEF Posts
<1>5. PostsInOrder(i)' <=> \A j, k \in PostsFor(i)' : j < k => new[j].msg < new[k].msg
  BY DEF PostsInOrder
<1> DEFINE posts == PostsFor(i)'
<1> HIDE DEF new, n, posts
<1>6. \A k \in posts : /\ k \in Nat /\ k \in 1..(n - 1)
                       /\ new[k] = service[k + 1] /\ k + 1 \in PostsFor(i)
  <2> SUFFICES ASSUME NEW k \in posts
               PROVE  k \in 1..(n - 1) /\ new[k] = service[k + 1] /\ k + 1 \in PostsFor(i)
    OBVIOUS
  <2>1. k \in 1..(n - 1) /\ IsPost(new[k], i) /\ new[k] = service[k + 1]
    BY <1>1, <1>2, <1>3 DEF posts
  <2>2. k + 1 \in 1..n
    BY <1>1, <2>1
  <2> QED
    BY <1>2, <2>1, <2>2 DEF PostsFor
<1>7. \A k \in PostsFor(i) : k = 1 \/ (k - 1 \in posts /\ service[k] = new[k - 1])
  <2> SUFFICES ASSUME NEW k \in PostsFor(i), k # 1
               PROVE  k - 1 \in posts /\ service[k] = new[k - 1]
    OBVIOUS
  <2>1. k \in 1..n /\ IsPost(service[k], i)
    BY <1>2 DEF PostsFor
  <2>2. k - 1 \in 1..(n - 1) /\ (k - 1) + 1 = k
    BY <1>1, <2>1
  <2>3. new[k - 1] = service[k]
    BY <1>1, <2>2
  <2> QED
    BY <1>2, <1>3, <2>1, <2>2, <2>3 DEF posts
<1>8. PostsInOrder(i)'
  <2> SUFFICES ASSUME NEW j \in posts, NEW k \in posts, j < k PROVE new[j].msg < new[k].msg
    BY <1>5 DEF posts
  <2>1. j + 1 < k + 1 /\ j + 1 \in PostsFor(i) /\ k + 1 \in PostsFor(i)
    BY <1>6
  <2>2. service[j + 1].msg < service[k + 1].msg
    BY <2>1 DEF PostsInOrder
  <2> QED
    BY <1>6, <2>2
<1>9. \A x \in Posts(i)' : x \in Posts(i)
  BY <1>4, <1>6 DEF Posts, posts
<1>10. \A x \in Posts(i) : x \in Posts(i)' \/ (1 \in PostsFor(i) /\ x = m)
  <2> SUFFICES ASSUME NEW k \in PostsFor(i)
               PROVE  service[k].msg \in Posts(i)' \/ (k = 1 /\ service[k].msg = m)
    BY DEF Posts
  <2> QED
    BY <1>1, <1>4, <1>7 DEF posts
<1>11. 1 \in PostsFor(i) <=> IsPost(Head(service), i)
  BY <1>1, <1>2 DEF PostsFor
<1>12. ASSUME IsPost(Head(service), i)
       PROVE  Older({m}, Posts(i)') /\ m \in Posts(i)
  <2>1. 1 \in PostsFor(i) /\ service[1].msg = m
    BY <1>1, <1>11, <1>12
  <2>2. \A k \in posts : m < new[k].msg
    <3> SUFFICES ASSUME NEW k \in posts PROVE m < new[k].msg
      OBVIOUS
    <3>1. k + 1 \in PostsFor(i) /\ 1 < k + 1 /\ new[k] = service[k + 1]
      BY <1>6
    <3> QED
      BY <2>1, <3>1 DEF PostsInOrder
  <2> QED
    BY <1>4, <2>1, <2>2 DEF Older, Posts, posts
<1> QED
  BY <1>1, <1>8, <1>9, <1>10, <1>11, <1>12 DEF new

-----------------------------------------------------------------------------
(* One router's messages in a step of Transports.                           *)

ChannelStep(i) ==
  /\ PostsInOrder(i)'
  /\ Both(sent[i], DelayedFor(i), Posts(i), accepted[i],
          sent'[i], DelayedFor(i)', Posts(i)', accepted'[i])

SessionInv == \A i \in Idents : peers[i] # NoPeer /\ peers[i].sessions # {}
                                  => peers[i].delayedMessages = <<>>

LEMMA ChannelFacts ==
  ASSUME TypeInv, NEW i \in Targets
  PROVE  /\ sent[i] \in Seq(Nat) /\ DelayedFor(i) \in Seq(Nat) /\ Posts(i) \in SUBSET Nat
         /\ accepted[i] \in Nat
         /\ Waiting(i) = Elements(DelayedFor(i)) \cup Posts(i)
<1>1. DelayedFor(i) \in Seq(Nat)
  <2>1. CASE i = Self \/ peers[i] = NoPeer
    BY <2>1 DEF DelayedFor
  <2>2. CASE ~(i = Self \/ peers[i] = NoPeer)
    <3>1. i \in Idents /\ peers[i] \in Entries
      BY <2>2 DEF TypeInv, Targets
    <3>2. peers[i].delayedMessages \in Seq(Nat)
      BY <3>1 DEF Entries
    <3> QED
      BY <2>2, <3>2 DEF DelayedFor
  <2> QED
    BY <2>1, <2>2
<1>2. DOMAIN DelayedFor(i) = 1..Len(DelayedFor(i))
  BY <1>1
<1> QED
  BY <1>1, <1>2, PostsFacts DEF TypeInv, Waiting, Elements, Posts

LEMMA WaitingNext ==
  TypeInv' => (\A i \in Targets : Waiting(i) = Elements(DelayedFor(i)) \cup Posts(i))'
<1>1. TypeInv => \A i \in Targets : Waiting(i) = Elements(DelayedFor(i)) \cup Posts(i)
  BY ChannelFacts
<1> QED
  BY <1>1, PTL

(* Steps that send nothing to router i and accept nothing for it.           *)
LEMMA LosingStep ==
  ASSUME IInv, NEW i \in Targets, PostsInOrder(i)', Posts(i)' \subseteq Posts(i),
         sent'[i] = sent[i], accepted'[i] = accepted[i],
         DelayedFor(i)' \in {DelayedFor(i), <<>>}
  PROVE  ChannelStep(i)
<1>1. Ordered(sent[i], DelayedFor(i), Posts(i), accepted[i])
  BY DEF IInv, OrderInv
<1>2. /\ sent[i] \in Seq(Nat) /\ DelayedFor(i) \in Seq(Nat) /\ Posts(i) \in SUBSET Nat
      /\ accepted[i] \in Nat
  BY ChannelFacts DEF IInv
<1>3. Posts(i)' \in SUBSET Posts(i)
  OBVIOUS
<1> QED
  BY <1>1, <1>2, <1>3, Lose DEF ChannelStep

(* One that accepts a message for it.                                       *)
LEMMA AcceptingStep ==
  ASSUME IInv, NEW i \in Targets, PostsInOrder(i)',
         Posts(i)' = Posts(i) \cup {accepted[i] + 1}, sent'[i] = sent[i],
         accepted'[i] = accepted[i] + 1, DelayedFor(i)' = DelayedFor(i)
  PROVE  ChannelStep(i)
<1>1. Ordered(sent[i], DelayedFor(i), Posts(i), accepted[i])
  BY DEF IInv, OrderInv
<1>2. /\ sent[i] \in Seq(Nat) /\ DelayedFor(i) \in Seq(Nat) /\ Posts(i) \in SUBSET Nat
      /\ accepted[i] \in Nat
  BY ChannelFacts DEF IInv
<1> QED
  BY <1>1, <1>2, Accept DEF ChannelStep

(* One that gives its delayed messages to a session.                        *)
LEMMA FlushingStep ==
  ASSUME IInv, NEW i \in Targets, PostsInOrder(i)', Posts(i)' = Posts(i),
         sent'[i] = sent[i] \o DelayedFor(i), accepted'[i] = accepted[i],
         DelayedFor(i)' = <<>>
  PROVE  ChannelStep(i)
<1>1. Ordered(sent[i], DelayedFor(i), Posts(i), accepted[i])
  BY DEF IInv, OrderInv
<1>2. /\ sent[i] \in Seq(Nat) /\ DelayedFor(i) \in Seq(Nat) /\ Posts(i) \in SUBSET Nat
      /\ accepted[i] \in Nat
  BY ChannelFacts DEF IInv
<1> QED
  BY <1>1, <1>2, Flush DEF ChannelStep

(* One that takes its oldest posted message, to delay, send or drop it.     *)
LEMMA TakingStep ==
  ASSUME IInv, NEW i \in Targets, NEW m \in Nat, PostsInOrder(i)',
         Posts(i) = Posts(i)' \cup {m}, Older({m}, Posts(i)'), accepted'[i] = accepted[i],
         \/ sent'[i] = sent[i] /\ DelayedFor(i)' = Append(DelayedFor(i), m)
         \/ /\ DelayedFor(i) = <<>> /\ DelayedFor(i)' = <<>>
            /\ sent'[i] = Append(sent[i], m)
         \/ sent'[i] = sent[i] /\ DelayedFor(i)' \in {DelayedFor(i), <<>>}
  PROVE  ChannelStep(i)
<1> DEFINE P == Posts(i)'
<1>1. Ordered(sent[i], DelayedFor(i), P \cup {m}, accepted[i]) /\ Older({m}, P)
  BY DEF IInv, OrderInv
<1>2. /\ sent[i] \in Seq(Nat) /\ DelayedFor(i) \in Seq(Nat) /\ P \in SUBSET Nat
      /\ P \in SUBSET (P \cup {m}) /\ P \cup {m} \in SUBSET Nat /\ accepted[i] \in Nat
  BY ChannelFacts DEF IInv
<1>3. Posts(i) = P \cup {m}
  OBVIOUS
<1> HIDE DEF P
<1>4. CASE sent'[i] = sent[i] /\ DelayedFor(i)' = Append(DelayedFor(i), m)
  BY <1>1, <1>2, <1>3, <1>4, Delay DEF ChannelStep, P
<1>5. CASE /\ DelayedFor(i) = <<>> /\ DelayedFor(i)' = <<>>
           /\ sent'[i] = Append(sent[i], m)
  BY <1>1, <1>2, <1>3, <1>5, Send DEF ChannelStep, P
<1>6. CASE sent'[i] = sent[i] /\ DelayedFor(i)' \in {DelayedFor(i), <<>>}
  BY <1>1, <1>2, <1>3, <1>6, Lose DEF ChannelStep, P
<1> QED
  BY <1>4, <1>5, <1>6

(* What a step leaves as it is.                                             *)
LEMMA KeptFacts ==
  ASSUME NEW i \in Targets
  PROVE  /\ service' = service => /\ Posts(i)' = Posts(i)
                                  /\ PostsInOrder(i) => PostsInOrder(i)'
         /\ i = Self \/ peers'[i] = NoPeer => DelayedFor(i)' = <<>>
         /\ i = Self \/ peers'[i] = peers[i] => DelayedFor(i)' = DelayedFor(i)
         /\ i # Self /\ peers'[i] # NoPeer => DelayedFor(i)' = peers'[i].delayedMessages
         /\ i # Self /\ peers[i] # NoPeer => DelayedFor(i) = peers[i].delayedMessages
         /\ i # Self /\ peers[i] = NoPeer => DelayedFor(i) = <<>>
         /\ i # Self => i \in Idents
BY DEF Posts, PostsInOrder, PostsFor, DelayedFor, Targets

(* The invariant and the step of OrderedDelivery, from each router's.       *)
LEMMA AllChannels ==
  ASSUME IInv, TypeInv', SessionInv', \A i \in Targets : ChannelStep(i)
  PROVE  IInv' /\ Delivery!Next
<1>1. OrderInv'
  BY DEF OrderInv, SessionInv, ChannelStep, Both
<1>2. ASSUME NEW i \in Targets
      PROVE  Delivery!Step(i)
  <2>1. Waiting(i) = Elements(DelayedFor(i)) \cup Posts(i)
    BY ChannelFacts DEF IInv
  <2>2. Waiting(i)' = Elements(DelayedFor(i)') \cup Posts(i)'
    BY WaitingNext
  <2>3. StepOf(accepted[i], Waiting(i), sent[i], accepted'[i], Waiting(i)', sent'[i])
    BY <2>1, <2>2 DEF ChannelStep, Both
  <2> QED
    BY <2>3 DEF Delivery!Step, StepOf, New, Out
<1> QED
  BY <1>1, <1>2 DEF IInv, Delivery!Next

-----------------------------------------------------------------------------
(* Sessions and entries.                                                    *)

LinkTo(l) == l \in LinkTypes /\ (l.state # "down" => l.to \in Idents)

LEMMA NoLinkFacts == NoLink \in LinkTypes /\ NoLink.state = "down" /\ LinkTo(NoLink)
BY DEF NoLink, LinkTypes, Targets, LinkTo

LEMMA NewLinkFacts ==
  ASSUME NEW i \in Idents
  PROVE  /\ LinkTo(Link(i, "NTCP", "dialing")) /\ LinkTo(Link(i, "SSU", "dialing"))
         /\ LinkTo(Link(i, "incoming", "up"))
BY DEF Link, LinkTypes, Targets, LinkTo

(* Any of a session's changes leaves the others as they are.                *)
LEMMA SetLinkFacts ==
  ASSUME TypeInv, NEW n, NEW l, LinkTo(l), links' = [links EXCEPT ![n] = l]
  PROVE  /\ links' \in [1..MaxLinks -> LinkTypes]
         /\ \A k \in 1..MaxLinks : links'[k].state # "down" => links'[k].to \in Idents
BY DEF TypeInv, LinkTo

LEMMA StateFacts ==
  ASSUME TypeInv, NEW n \in 1..MaxLinks, links[n].state # "down",
         NEW s \in {"up", "done", "ended"}
  PROVE  LinkTo([links[n] EXCEPT !.state = s]) /\ links[n].to \in Idents
BY DEF TypeInv, LinkTo, LinkTypes

LEMMA MadeFacts ==
  ASSUME TypeInv, NEW l, LinkTo(l), links' = Made(l)
  PROVE  /\ links' \in [1..MaxLinks -> LinkTypes]
         /\ \A k \in 1..MaxLinks : links'[k].state # "down" => links'[k].to \in Idents
<1>1. CASE l = NoLink
  BY <1>1 DEF Made, TypeInv
<1>2. CASE l # NoLink
  BY <1>2, SetLinkFacts DEF Made
<1> QED
  BY <1>1, <1>2

LEMMA DoneFacts ==
  ASSUME TypeInv, NEW p, links' = Done(p)
  PROVE  /\ links' \in [1..MaxLinks -> LinkTypes]
         /\ \A k \in 1..MaxLinks : links'[k].state # "down" => links'[k].to \in Idents
<1> DEFINE told == {n \in 1..MaxLinks : n \in p.sessions /\ links[n].state = "up"}
<1>1. links' = [n \in 1..MaxLinks |-> IF n \in told THEN [links[n] EXCEPT !.state = "done"]
                                                    ELSE links[n]]
  BY DEF Done, TypeInv
<1>2. \A n \in told : LinkTo([links[n] EXCEPT !.state = "done"])
  BY StateFacts
<1>3. \A n \in 1..MaxLinks : LinkTo(links[n])
  BY DEF TypeInv, LinkTo
<1> HIDE DEF told
<1>4. \A n \in 1..MaxLinks : LinkTo(links'[n])
  BY <1>1, <1>2, <1>3
<1> QED
  BY <1>1, <1>4 DEF LinkTo

LEMMA FlushFacts ==
  ASSUME NEW p \in Entries, NEW n \in 1..MaxLinks
  PROVE  AfterFlush(p, n) \in Entries /\ AfterFlush(p, n).delayedMessages = <<>>
<1> DEFINE s == p.sessions \cup {n}
<1>1. s \in SUBSET (1..MaxLinks) /\ <<>> \in Seq(Nat)
  BY DEF Entries
<1>2. AfterFlush(p, n) = [p EXCEPT !.sessions = s, !.delayedMessages = <<>>]
  BY DEF AfterFlush
<1> HIDE DEF s
<1> QED
  BY <1>1, <1>2 DEF Entries

LEMMA DelayedFacts ==
  ASSUME NEW p \in Entries, NEW m \in Nat
  PROVE  /\ Delayed(p, m) \in Entries /\ Delayed(p, m).sessions = p.sessions
         /\ Delayed(p, m).delayedMessages = Append(p.delayedMessages, m)
<1> DEFINE d == Append(p.delayedMessages, m)
<1>1. d \in Seq(Nat)
  BY DEF Entries
<1>2. Delayed(p, m) = [p EXCEPT !.delayedMessages = d]
  BY DEF Delayed
<1> HIDE DEF d
<1>3. Delayed(p, m) \in Entries /\ Delayed(p, m).sessions = p.sessions
      /\ Delayed(p, m).delayedMessages = d
  BY <1>1, <1>2 DEF Entries
<1> QED
  BY <1>3 DEF d

LEMMA NewFacts ==
  ASSUME NEW router \in BOOLEAN, NEW first \in SUBSET (1..MaxLinks)
  PROVE  LET p == NewPeer(router, first)
         IN p \in Entries /\ p.sessions = first /\ p.delayedMessages = <<>>
<1>1. <<>> \in Seq(Nat)
  OBVIOUS
<1> QED
  BY <1>1 DEF NewPeer, Entries

(* ConnectToPeer leaves the sessions and the delayed messages of an entry   *)
(* as they are, or erases it.                                               *)
Tried(r, p) ==
  /\ \/ r.peer = NoPeer
     \/ /\ r.peer \in Entries /\ r.peer.sessions = p.sessions
        /\ r.peer.delayedMessages = p.delayedMessages
  /\ LinkTo(r.new)
  /\ r.ask \subseteq {"request", "resolve"} \X Idents
  /\ r.ok => /\ r.peer \in Entries /\ r.peer.sessions = p.sessions
             /\ r.peer.delayedMessages = p.delayedMessages

LEMMA ConnectFacts ==
  ASSUME NEW i \in Idents, NEW p \in Entries, NEW r \in ConnectToPeer(i, p)
  PROVE  Tried(r, p)
<1>1. /\ LinkTo(Link(i, "NTCP", "dialing")) /\ LinkTo(Link(i, "SSU", "dialing"))
      /\ LinkTo(NoLink)
      /\ {<<"request", i>>} \subseteq {"request", "resolve"} \X Idents
      /\ {<<"resolve", i>>} \subseteq {"request", "resolve"} \X Idents
  BY NewLinkFacts, NoLinkFacts
<1>2. ASSUME NEW k \in {1, 2}
      PROVE  LET q == [p EXCEPT !.numAttempts = k]
             IN /\ q \in Entries /\ q.sessions = p.sessions
                /\ q.delayedMessages = p.delayedMessages
  BY DEF Entries
<1>3. ASSUME NEW e, NEW l, NEW a, NEW ok,
             e = NoPeer \/ (e \in Entries /\ e.sessions = p.sessions
                            /\ e.delayedMessages = p.delayedMessages),
             LinkTo(l), a \subseteq {"request", "resolve"} \X Idents,
             \/ ok = FALSE
             \/ e \in Entries /\ e.sessions = p.sessions
                /\ e.delayedMessages = p.delayedMessages
      PROVE  Tried(Outcome(e, l, a, ok), p)
  BY <1>3, Zenon DEF Tried, Outcome
<1>4. \/ r \in TryNTCP(i, p) \/ r \in TrySSU(i, p)
      \/ r = Outcome(p, NoLink, {<<"request", i>>}, TRUE)
      \/ r = Outcome(NoPeer, NoLink, {}, FALSE)
  <2>1. p.numAttempts \in 0..2 /\ p.router \in BOOLEAN
    BY DEF Entries
  <2> QED
    BY <2>1, Zenon DEF ConnectToPeer
<1>5. CASE r \in TryNTCP(i, p)
  <2> DEFINE q == [p EXCEPT !.numAttempts = 1]
  <2>1. q \in Entries /\ q.sessions = p.sessions /\ q.delayedMessages = p.delayedMessages
    BY <1>2
  <2>2. \/ r = Outcome(q, Link(i, "NTCP", "dialing"), {}, TRUE)
        \/ r = Outcome(q, NoLink, {<<"resolve", i>>}, TRUE)
        \/ r = Outcome(NoPeer, NoLink, {}, FALSE)
    BY <1>5, Zenon DEF TryNTCP
  <2> HIDE DEF q
  <2> QED
    BY <1>1, <1>3, <2>1, <2>2, Zenon
<1>6. CASE r \in TrySSU(i, p)
  <2> DEFINE q == [p EXCEPT !.numAttempts = 2]
  <2>1. q \in Entries /\ q.sessions = p.sessions /\ q.delayedMessages = p.delayedMessages
    BY <1>2
  <2>2. \/ r = Outcome(q, Link(i, "SSU", "dialing"), {}, TRUE)
        \/ r = Outcome(q, NoLink, {}, TRUE)
        \/ r = Outcome(NoPeer, NoLink, {}, FALSE)
    BY <1>6, Zenon DEF TrySSU
  <2> HIDE DEF q
  <2> QED
    BY <1>1, <1>3, <2>1, <2>2, Zenon
<1> QED
  BY <1>1, <1>3, <1>4, <1>5, <1>6, Zenon

-----------------------------------------------------------------------------
(* One lemma per action.  Those of other threads post a task.               *)

Stepped == TypeInv' /\ SessionInv' /\ \A i \in Targets : ChannelStep(i)

LEMMA SessionFacts == IInv => SessionInv
BY DEF IInv, OrderInv, SessionInv

(* A message is posted behind all others for the same router.               *)
LEMMA SendMessagesStep ==
  ASSUME IInv, NEW i \in Targets, SendMessages(i)
  PROVE  Stepped
<1> DEFINE m == accepted[i] + 1
           t == [type |-> "messages", to |-> i, msg |-> m]
<1>1. /\ accepted' = [accepted EXCEPT ![i] = m] /\ Posted(t)
      /\ UNCHANGED <<peers, links, asked, opened, sent>>
  BY DEF SendMessages
<1>2. accepted \in [Targets -> Nat] /\ m \in Nat
  BY DEF IInv, TypeInv
<1>3. t \in Tasks /\ \A j \in Targets : IsPost(t, j) <=> j = i
  BY <1>2 DEF Tasks, IsPost
<1>4. t.msg = m
  OBVIOUS
<1> HIDE DEF t
<1>5. TypeInv'
  BY <1>1, <1>2, <1>3, PostedFacts DEF IInv, TypeInv, OrderInv
<1>6. SessionInv'
  BY <1>1, SessionFacts DEF SessionInv
<1>7. ASSUME NEW j \in Targets
      PROVE  ChannelStep(j)
  <2>1. /\ PostsInOrder(j) /\ Ordered(sent[j], DelayedFor(j), Posts(j), accepted[j])
        /\ DelayedFor(j)' = DelayedFor(j)
    BY <1>1, KeptFacts DEF IInv, OrderInv
  <2>2. CASE j # i
    <3>1. PostsInOrder(j)' /\ Posts(j)' = Posts(j)
      BY <1>1, <1>3, <2>1, <2>2, PostedFacts DEF IInv
    <3>2. accepted'[j] = accepted[j] /\ sent'[j] = sent[j]
      BY <1>1, <1>2, <2>2
    <3> QED
      BY <2>1, <3>1, <3>2, LosingStep
  <2>3. CASE j = i
    <3>1. Older(Posts(i), {m})
      <4>1. Posts(i) \subseteq 1..accepted[i]
        BY <2>1, <2>3 DEF Ordered
      <4> QED
        BY <1>2, <4>1 DEF Older
    <3>2. PostsInOrder(i)' /\ Posts(i)' = Posts(i) \cup {m}
      BY <1>1, <1>3, <1>4, <2>1, <2>3, <3>1, PostedFacts DEF IInv
    <3>3. accepted'[i] = accepted[i] + 1 /\ sent'[i] = sent[i]
      BY <1>1, <1>2
    <3> QED
      BY <2>1, <2>3, <3>2, <3>3, AcceptingStep
  <2> QED
    BY <2>2, <2>3
<1> QED
  BY <1>5, <1>6, <1>7 DEF Stepped

(* Another task is posted, and no entry changes.                            *)
LEMMA PostOther ==
  ASSUME IInv, NEW t \in Tasks, t.type # "messages", Posted(t),
         UNCHANGED <<peers, accepted, sent>>,
         links' \in [1..MaxLinks -> LinkTypes],
         \A k \in 1..MaxLinks : links'[k].state # "down" => links'[k].to \in Idents,
         asked' \subseteq asked
  PROVE  Stepped
<1>1. \A i \in Targets : ~IsPost(t, i) /\ PostsInOrder(i)
  BY DEF IsPost, IInv, OrderInv
<1>2. TypeInv'
  <2>1. service' \in Seq(Tasks)
    <3>1. Self \in Targets
      BY DEF Targets
    <3> QED
      BY <1>1, <3>1, PostedFacts DEF IInv
  <2> QED
    BY <2>1 DEF IInv, TypeInv
<1>3. SessionInv'
  BY SessionFacts DEF SessionInv
<1>4. ASSUME NEW i \in Targets
      PROVE  ChannelStep(i)
  BY <1>1, PostedFacts, KeptFacts, LosingStep DEF IInv
<1> QED
  BY <1>2, <1>3, <1>4 DEF Stepped

LEMMA OtherThreadsStep ==
  ASSUME IInv,
         \/ \E i \in Idents : CloseSession(i) \/ LinkAccepted(i)
         \/ \E a \in asked, found \in BOOLEAN : Answer(a, found)
         \/ \E n \in DOMAIN links : LinkUp(n) \/ LinkDown(n)
  PROVE  Stepped
<1>0. /\ links \in [1..MaxLinks -> LinkTypes]
      /\ \A k \in 1..MaxLinks : links[k].state # "down" => links[k].to \in Idents
  BY DEF IInv, TypeInv
<1>1. ASSUME NEW i \in Idents, CloseSession(i)
      PROVE  Stepped
  <2> DEFINE t == [type |-> "close", to |-> i]
  <2>1. t \in Tasks /\ t.type # "messages"
    BY DEF Tasks
  <2>2. Posted(t) /\ UNCHANGED <<peers, links, asked, opened, accepted, sent>>
    BY <1>1 DEF CloseSession
  <2> HIDE DEF t
  <2> QED
    BY <1>0, <2>1, <2>2, PostOther
<1>2. ASSUME NEW i \in Idents, LinkAccepted(i)
      PROVE  Stepped
  <2> DEFINE t == [type |-> "connected", to |-> i, link |-> FreeLink]
  <2>1. FreeLink \in 1..MaxLinks
    BY <1>2 DEF LinkAccepted, CanLink, FreeLinks, FreeLink, IInv, TypeInv
  <2>2. t \in Tasks /\ t.type # "messages"
    BY <2>1 DEF Tasks
  <2>3. Posted(t) /\ UNCHANGED <<peers, asked, accepted, sent>>
        /\ links' = Made(Link(i, "incoming", "up"))
    BY <1>2 DEF LinkAccepted
  <2> HIDE DEF t
  <2> QED
    BY <2>2, <2>3, NewLinkFacts, MadeFacts, PostOther DEF IInv
<1>3. ASSUME NEW a \in asked, NEW found \in BOOLEAN, Answer(a, found)
      PROVE  Stepped
  <2> DEFINE t == [type |-> a[1], to |-> a[2], found |-> found]
  <2>1. a[1] \in {"request", "resolve"} /\ a[2] \in Idents
    BY DEF IInv, TypeInv
  <2>2. t \in Tasks /\ t.type # "messages"
    <3>1. t \in [type : {"request", "resolve"}, to : Idents, found : BOOLEAN]
      BY <2>1
    <3>2. t.type = a[1]
      OBVIOUS
    <3> QED
      BY <2>1, <3>1, <3>2, Zenon DEF Tasks
  <2>3. Posted(t) /\ UNCHANGED <<peers, links, opened, accepted, sent>> /\ asked' = asked \ {a}
    BY <1>3, Zenon DEF Answer
  <2> HIDE DEF t
  <2> QED
    BY <1>0, <2>2, <2>3, PostOther
<1>4. ASSUME NEW n \in DOMAIN links, LinkUp(n) \/ LinkDown(n)
      PROVE  Stepped
  <2>1. PICK s \in {"up", "ended"}, type \in {"connected", "disconnected"} :
          /\ links[n].state # "down"
          /\ links' = [links EXCEPT ![n].state = s]
          /\ Posted([type |-> type, to |-> links[n].to, link |-> n])
          /\ UNCHANGED <<peers, asked, opened, accepted, sent>>
    BY <1>4 DEF LinkUp, LinkDown
  <2> DEFINE t == [type |-> type, to |-> links[n].to, link |-> n]
  <2>2. n \in 1..MaxLinks
    BY <1>0
  <2>3. LinkTo([links[n] EXCEPT !.state = s]) /\ links[n].to \in Idents
    BY <2>1, <2>2, StateFacts DEF IInv
  <2>4. t \in Tasks /\ t.type # "messages"
    BY <2>2, <2>3 DEF Tasks
  <2>5. Posted(t)
    BY <2>1
  <2>6. links' = [links EXCEPT ![n] = [links[n] EXCEPT !.state = s]]
    BY <2>1
  <2> HIDE DEF t
  <2> QED
    BY <2>1, <2>3, <2>4, <2>5, <2>6, SetLinkFacts, PostOther DEF IInv
<1> QED
  BY <1>1, <1>2, <1>3, <1>4

(* Time passes, and late peers without a session are given up.              *)
LEMMA TimerStep ==
  ASSUME IInv, HandlePeerCleanupTimer \/ \E i \in Idents : PeerLate(i)
  PROVE  Stepped
<1>1. UNCHANGED <<service, links, asked, accepted, sent>>
  BY DEF HandlePeerCleanupTimer, PeerLate
<1>2. /\ peers' \in [Idents -> Entries \cup {NoPeer}]
      /\ \A i \in Idents :
           \/ peers'[i] = NoPeer
           \/ /\ peers[i] # NoPeer /\ peers'[i].sessions = peers[i].sessions
              /\ peers'[i].delayedMessages = peers[i].delayedMessages
  <2>1. CASE HandlePeerCleanupTimer
    <3>1. peers' = [i \in Idents |-> IF GivenUp(peers[i]) THEN NoPeer ELSE peers[i]]
      BY <2>1 DEF HandlePeerCleanupTimer
    <3> QED
      BY <3>1 DEF IInv, TypeInv
  <2>2. ASSUME NEW i \in Idents, PeerLate(i)
        PROVE  <1>2!1 /\ <1>2!2
    <3> DEFINE p == [peers[i] EXCEPT !.late = TRUE]
    <3>1. peers[i] # NoPeer /\ peers' = [peers EXCEPT ![i] = p]
      BY <2>2 DEF PeerLate
    <3>2. peers[i] \in Entries
      BY <3>1 DEF IInv, TypeInv
    <3>3. /\ p \in Entries /\ p.sessions = peers[i].sessions
          /\ p.delayedMessages = peers[i].delayedMessages
      BY <3>2 DEF Entries
    <3> HIDE DEF p
    <3> QED
      BY <3>1, <3>3 DEF IInv, TypeInv
  <2> QED
    BY <2>1, <2>2
<1>3. TypeInv'
  BY <1>1, <1>2 DEF IInv, TypeInv
<1>4. SessionInv'
  BY <1>2, SessionFacts DEF SessionInv
<1>5. ASSUME NEW i \in Targets
      PROVE  ChannelStep(i)
  <2>1. DelayedFor(i)' \in {DelayedFor(i), <<>>}
    BY <1>2, KeptFacts
  <2>2. PostsInOrder(i)' /\ Posts(i)' = Posts(i)
    BY <1>1, KeptFacts DEF IInv, OrderInv
  <2> QED
    BY <1>1, <2>1, <2>2, LosingStep
<1> QED
  BY <1>3, <1>4, <1>5 DEF Stepped

-----------------------------------------------------------------------------
(* The thread takes a task that is no message: nothing is sent, and an      *)
(* entry is left, loses its sessions or is erased.                          *)
LEMMA TaskTaken ==
  ASSUME IInv, service # <<>>, Head(service).type # "messages",
         \/ service' = Tail(service)
         \/ \E t \in Tasks : /\ t.type # "messages"
                             /\ service' = Append(Tail(service), t)
  PROVE  /\ service' \in Seq(Tasks)
         /\ \A j \in Targets : PostsInOrder(j)' /\ Posts(j)' = Posts(j)
<1>1. \A j \in Targets : PostsInOrder(j)
  BY DEF IInv, OrderInv
<1>2. Self \in Targets
  BY DEF Targets
<1>3. \A t : t.type # "messages" => \A j \in Targets : ~IsPost(t, j)
  BY DEF IsPost
<1>4. CASE service' = Tail(service)
  BY <1>1, <1>2, <1>3, <1>4, TakenFacts DEF IInv
<1>5. ASSUME NEW t \in Tasks, t.type # "messages", service' = Append(Tail(service), t)
      PROVE  /\ service' \in Seq(Tasks)
             /\ \A j \in Targets : PostsInOrder(j)' /\ Posts(j)' = Posts(j)
  <2> DEFINE n == Len(service)
             new == service'
  <2>1. service \in Seq(Tasks) /\ n \in Nat \ {0} /\ Head(service) = service[1]
    BY DEF IInv, TypeInv
  <2>2. /\ new \in Seq(Tasks) /\ Len(new) = n /\ new[n] = t
        /\ \A k \in 1..(n - 1) : new[k] = service[k + 1]
    BY <1>5, <2>1
  <2>3. DOMAIN new = 1..n /\ DOMAIN service = 1..n
    BY <2>1, <2>2
  <2> HIDE DEF n, new
  <2>4. ASSUME NEW j \in Targets
        PROVE  PostsInOrder(j)' /\ Posts(j)' = Posts(j)
    <3> DEFINE posts == {k \in DOMAIN new : IsPost(new[k], j)}
    <3>1. ~IsPost(t, j) /\ ~IsPost(service[1], j)
      BY <1>3, <1>5, <2>1
    <3>2. \A k \in 1..n : /\ k \in posts => k \in 1..(n - 1) /\ k + 1 \in PostsFor(j)
                                            /\ new[k] = service[k + 1]
                          /\ k \in PostsFor(j) => k - 1 \in posts /\ new[k - 1] = service[k]
      <4> SUFFICES ASSUME NEW k \in 1..n
                   PROVE  /\ k \in posts => k \in 1..(n - 1) /\ k + 1 \in PostsFor(j)
                                            /\ new[k] = service[k + 1]
                          /\ k \in PostsFor(j) => k - 1 \in posts /\ new[k - 1] = service[k]
        OBVIOUS
      <4>1. ASSUME k \in posts
            PROVE  k \in 1..(n - 1) /\ k + 1 \in PostsFor(j) /\ new[k] = service[k + 1]
        <5>1. k # n
          BY <2>2, <3>1, <4>1
        <5>2. k \in 1..(n - 1) /\ k + 1 \in 1..n
          BY <2>1, <5>1
        <5> QED
          BY <2>2, <2>3, <4>1, <5>2 DEF PostsFor
      <4>2. ASSUME k \in PostsFor(j)
            PROVE  k - 1 \in posts /\ new[k - 1] = service[k]
        <5>1. k # 1
          BY <3>1, <4>2 DEF PostsFor
        <5>2. k - 1 \in 1..(n - 1) /\ (k - 1) + 1 = k /\ k - 1 \in 1..n
          BY <2>1, <5>1
        <5> QED
          BY <2>2, <2>3, <4>2, <5>2 DEF PostsFor
      <4> QED
        BY <4>1, <4>2
    <3>3. PostsFor(j)' = posts
      BY DEF PostsFor, new
    <3>4. /\ Posts(j)' = {new[k].msg : k \in posts}
          /\ PostsInOrder(j)' <=> \A h, k \in posts : h < k => new[h].msg < new[k].msg
      BY <3>3, Zenon DEF Posts, PostsInOrder, new
    <3>5. \A k \in posts : k \in 1..n
      BY <2>3
    <3>6. \A k \in PostsFor(j) : k \in 1..n
      BY <2>3 DEF PostsFor
    <3> HIDE DEF posts
    <3>7. Posts(j)' = Posts(j)
      <4>1. ASSUME NEW x \in Posts(j)'
            PROVE  x \in Posts(j)
        <5>1. PICK k \in posts : x = new[k].msg
          BY <3>4
        <5>2. k + 1 \in PostsFor(j) /\ x = service[k + 1].msg
          BY <3>2, <3>5, <5>1
        <5> QED
          BY <5>2 DEF Posts
      <4>2. ASSUME NEW x \in Posts(j)
            PROVE  x \in Posts(j)'
        <5>1. PICK k \in PostsFor(j) : x = service[k].msg
          BY DEF Posts
        <5>2. k - 1 \in posts /\ x = new[k - 1].msg
          BY <3>2, <3>6, <5>1
        <5> QED
          BY <3>4, <5>2
      <4> QED
        BY <4>1, <4>2
    <3>8. ASSUME NEW h \in posts, NEW k \in posts, h < k
          PROVE  new[h].msg < new[k].msg
      <4>1. h \in Nat /\ k \in Nat /\ h + 1 < k + 1
        BY <2>1, <3>5, <3>8
      <4>2. h + 1 \in PostsFor(j) /\ k + 1 \in PostsFor(j)
            /\ new[h] = service[h + 1] /\ new[k] = service[k + 1]
        BY <3>2, <3>5
      <4>3. service[h + 1].msg < service[k + 1].msg
        BY <1>1, <4>1, <4>2 DEF PostsInOrder
      <4> QED
        BY <4>2, <4>3
    <3> QED
      BY <3>4, <3>7, <3>8
  <2> QED
    BY <2>2, <2>4 DEF new
<1> QED
  BY <1>4, <1>5

(* Entry i after it: as it was, without some sessions or with a router, or  *)
(* erased.                                                                  *)
Kept(i, p) ==
  \/ p = NoPeer
  \/ /\ p \in Entries /\ peers[i] # NoPeer
     /\ p.sessions \subseteq peers[i].sessions
     /\ p.delayedMessages = peers[i].delayedMessages

LEMMA OtherTask ==
  ASSUME IInv, service # <<>>, Head(service).type # "messages",
         \/ service' = Tail(service)
         \/ \E t \in Tasks : /\ t.type # "messages"
                             /\ service' = Append(Tail(service), t),
         \/ peers' = peers
         \/ \E p : peers' = [peers EXCEPT ![Head(service).to] = p]
                   /\ Kept(Head(service).to, p),
         links' \in [1..MaxLinks -> LinkTypes],
         \A k \in 1..MaxLinks : links'[k].state # "down" => links'[k].to \in Idents,
         asked' \subseteq {"request", "resolve"} \X Idents,
         UNCHANGED <<accepted, sent>>
  PROVE  Stepped
<1>1. /\ service' \in Seq(Tasks)
      /\ \A j \in Targets : PostsInOrder(j)' /\ Posts(j)' = Posts(j)
  BY TaskTaken
<1>2. \A j \in Idents : peers'[j] = peers[j] \/ Kept(j, peers'[j])
  BY DEF IInv, TypeInv
<1>3. peers' \in [Idents -> Entries \cup {NoPeer}]
  BY DEF IInv, TypeInv, Kept
<1>4. TypeInv'
  BY <1>1, <1>3 DEF IInv, TypeInv
<1>5. SessionInv'
  BY <1>2, SessionFacts DEF SessionInv, Kept
<1>6. ASSUME NEW j \in Targets
      PROVE  ChannelStep(j)
  <2>1. DelayedFor(j)' \in {DelayedFor(j), <<>>}
    BY <1>2, KeptFacts DEF Kept
  <2> QED
    BY <1>1, <2>1, LosingStep
<1> QED
  BY <1>4, <1>5, <1>6 DEF Stepped

(* What ConnectToPeer does for an entry that keeps its delayed messages.    *)
LEMMA TriedKept ==
  ASSUME IInv, NEW i \in Idents, NEW p, NEW r, Tried(r, p), peers[i] # NoPeer,
         p.sessions \subseteq peers[i].sessions,
         p.delayedMessages = peers[i].delayedMessages
  PROVE  /\ Kept(i, r.peer)
         /\ asked \cup r.ask \subseteq {"request", "resolve"} \X Idents
BY DEF Kept, Tried, IInv, TypeInv

LEMMA HeadFacts ==
  ASSUME TypeInv, NEW type, Task(type), type # "messages"
  PROVE  /\ service # <<>> /\ Head(service).type # "messages"
         /\ Head(service).to \in Idents
         /\ type \in {"connected", "disconnected"} => Head(service).link \in 1..MaxLinks
<1>1. service # <<>> /\ Head(service).type = type
  BY DEF Task
<1>2. Head(service) \in Tasks
  BY <1>1 DEF TypeInv
<1> QED
  BY <1>1, <1>2, TaskFacts

LEMMA RequestStep ==
  ASSUME IInv, HandleRequestComplete
  PROVE  Stepped
<1> DEFINE i == Head(service).to
           p == [peers[i] EXCEPT !.router = TRUE]
<1>1. /\ service # <<>> /\ Head(service).type # "messages" /\ i \in Idents
  BY HeadFacts DEF HandleRequestComplete, IInv
<1>2. service' = Tail(service) /\ UNCHANGED <<accepted, sent>>
  BY DEF HandleRequestComplete
<1>3. /\ links \in [1..MaxLinks -> LinkTypes]
      /\ \A k \in 1..MaxLinks : links[k].state # "down" => links[k].to \in Idents
      /\ asked \subseteq {"request", "resolve"} \X Idents
  BY DEF IInv, TypeInv
<1>4. Kept(i, NoPeer)
  BY DEF Kept
<1>5. \/ UNCHANGED <<peers, links, asked>>
      \/ peers[i] # NoPeer /\ \E r \in ConnectToPeer(i, p) : Connecting(i, p, r)
      \/ peers' = [peers EXCEPT ![i] = NoPeer] /\ UNCHANGED <<links, asked>>
  BY DEF HandleRequestComplete
<1> HIDE DEF i
<1>6. ASSUME peers[i] # NoPeer, NEW r \in ConnectToPeer(i, p), Connecting(i, p, r)
      PROVE  Stepped
  <2>1. peers[i] \in Entries
    BY <1>1, <1>6 DEF IInv, TypeInv
  <2>2. /\ p \in Entries /\ p.sessions \subseteq peers[i].sessions
        /\ p.delayedMessages = peers[i].delayedMessages
    BY <1>6, <2>1 DEF Entries
  <2>3. Tried(r, p)
    BY <1>1, <2>2, ConnectFacts
  <2>4. Kept(i, r.peer) /\ asked \cup r.ask \subseteq {"request", "resolve"} \X Idents
    BY <1>1, <1>6, <2>2, <2>3, TriedKept
  <2>5. /\ peers' = [peers EXCEPT ![i] = r.peer]
        /\ links' = Made(r.new) \/ links' = Done(p)
        /\ asked' = asked \cup r.ask
    BY <1>6, Zenon DEF Connecting
  <2>6. /\ links' \in [1..MaxLinks -> LinkTypes]
        /\ \A k \in 1..MaxLinks : links'[k].state # "down" => links'[k].to \in Idents
    BY <2>3, <2>5, MadeFacts, DoneFacts DEF Tried, IInv
  <2> QED
    BY <1>1, <1>2, <2>4, <2>5, <2>6, OtherTask DEF i
<1> QED
  BY <1>1, <1>2, <1>3, <1>4, <1>5, <1>6, OtherTask DEF i

LEMMA ResolveStep ==
  ASSUME IInv, HandleNTCPResolve
  PROVE  Stepped
<1> DEFINE i == Head(service).to
<1>1. /\ service # <<>> /\ Head(service).type # "messages" /\ i \in Idents
  BY HeadFacts DEF HandleNTCPResolve, IInv
<1>2. service' = Tail(service) /\ UNCHANGED <<asked, accepted, sent>>
  BY DEF HandleNTCPResolve
<1>3. /\ links \in [1..MaxLinks -> LinkTypes]
      /\ \A k \in 1..MaxLinks : links[k].state # "down" => links[k].to \in Idents
      /\ asked \subseteq {"request", "resolve"} \X Idents
  BY DEF IInv, TypeInv
<1>4. Kept(i, NoPeer)
  BY DEF Kept
<1>5. \/ UNCHANGED <<peers, links>>
      \/ links' = Made(Link(i, "NTCP", "dialing")) /\ UNCHANGED peers
      \/ peers' = [peers EXCEPT ![i] = NoPeer] /\ UNCHANGED links
  BY DEF HandleNTCPResolve
<1>6. CASE links' = Made(Link(i, "NTCP", "dialing")) /\ UNCHANGED peers
  <2>1. /\ links' \in [1..MaxLinks -> LinkTypes]
        /\ \A k \in 1..MaxLinks : links'[k].state # "down" => links'[k].to \in Idents
    BY <1>1, <1>6, NewLinkFacts, MadeFacts DEF IInv
  <2> QED
    BY <1>1, <1>2, <1>3, <1>6, <2>1, OtherTask
<1> QED
  BY <1>1, <1>2, <1>3, <1>4, <1>5, <1>6, OtherTask

LEMMA DisconnectedStep ==
  ASSUME IInv, PeerDisconnected
  PROVE  Stepped
<1> DEFINE i == Head(service).to
           n == Head(service).link
           p == [peers[i] EXCEPT !.sessions = @ \ {n}]
<1>1. /\ service # <<>> /\ Head(service).type # "messages" /\ i \in Idents
      /\ n \in 1..MaxLinks
  BY HeadFacts DEF PeerDisconnected, IInv
<1>2. service' = Tail(service) /\ UNCHANGED <<accepted, sent>>
  BY DEF PeerDisconnected
<1>3. /\ links \in [1..MaxLinks -> LinkTypes]
      /\ \A k \in 1..MaxLinks : links[k].state # "down" => links[k].to \in Idents
      /\ asked \subseteq {"request", "resolve"} \X Idents
  BY DEF IInv, TypeInv
<1>4. Kept(i, NoPeer)
  BY DEF Kept
<1>5. \/ /\ links' = [links EXCEPT ![n] = NoLink] /\ asked' = asked
         /\ \/ peers' = peers
            \/ peers[i] # NoPeer /\ peers' = [peers EXCEPT ![i] = p]
            \/ peers' = [peers EXCEPT ![i] = NoPeer]
      \/ peers[i] # NoPeer /\ \E r \in ConnectToPeer(i, p) :
                /\ peers' = [peers EXCEPT ![i] = r.peer]
                /\ links' = [links EXCEPT ![n] = r.new]
                /\ asked' = asked \cup r.ask
  BY DEF PeerDisconnected
<1>6. peers[i] # NoPeer => /\ p \in Entries /\ p.sessions \subseteq peers[i].sessions
                           /\ p.delayedMessages = peers[i].delayedMessages
  <2>1. peers[i] # NoPeer => peers[i] \in Entries
    BY <1>1 DEF IInv, TypeInv
  <2> QED
    BY <2>1 DEF Entries
<1> HIDE DEF i, n, p
<1>7. CASE /\ links' = [links EXCEPT ![n] = NoLink] /\ asked' = asked
           /\ \/ peers' = peers
              \/ peers[i] # NoPeer /\ peers' = [peers EXCEPT ![i] = p]
              \/ peers' = [peers EXCEPT ![i] = NoPeer]
  <2>1. /\ links' \in [1..MaxLinks -> LinkTypes]
        /\ \A k \in 1..MaxLinks : links'[k].state # "down" => links'[k].to \in Idents
    BY <1>1, <1>7, NoLinkFacts, SetLinkFacts DEF IInv
  <2>2. peers' = peers \/ \E q : peers' = [peers EXCEPT ![i] = q] /\ Kept(i, q)
    BY <1>4, <1>6, <1>7 DEF Kept
  <2> QED
    BY <1>1, <1>2, <1>3, <1>7, <2>1, <2>2, OtherTask DEF i
<1>8. ASSUME peers[i] # NoPeer, NEW r \in ConnectToPeer(i, p),
             peers' = [peers EXCEPT ![i] = r.peer], links' = [links EXCEPT ![n] = r.new],
             asked' = asked \cup r.ask
      PROVE  Stepped
  <2>1. Tried(r, p)
    BY <1>1, <1>6, <1>8, ConnectFacts
  <2>2. Kept(i, r.peer) /\ asked \cup r.ask \subseteq {"request", "resolve"} \X Idents
    BY <1>1, <1>6, <1>8, <2>1, TriedKept
  <2>3. /\ links' \in [1..MaxLinks -> LinkTypes]
        /\ \A k \in 1..MaxLinks : links'[k].state # "down" => links'[k].to \in Idents
    BY <1>1, <1>8, <2>1, SetLinkFacts DEF Tried, IInv
  <2> QED
    BY <1>1, <1>2, <1>8, <2>2, <2>3, OtherTask DEF i
<1> QED
  BY <1>5, <1>7, <1>8

LEMMA CloseStep ==
  ASSUME IInv, PostCloseSession
  PROVE  Stepped
<1>1. service # <<>> /\ Head(service).type # "messages"
  BY HeadFacts DEF PostCloseSession, IInv
<1>2. UNCHANGED <<peers, asked, accepted, sent>>
  BY DEF PostCloseSession
<1>3. /\ links \in [1..MaxLinks -> LinkTypes]
      /\ \A k \in 1..MaxLinks : links[k].state # "down" => links[k].to \in Idents
      /\ asked \subseteq {"request", "resolve"} \X Idents
  BY DEF IInv, TypeInv
<1>4. CASE service' = Tail(service) /\ UNCHANGED links
  BY <1>1, <1>2, <1>3, <1>4, OtherTask
<1>5. ASSUME NEW n \in DOMAIN links, links[n].state \in {"dialing", "up", "done"},
             links' = [links EXCEPT ![n].state = "ended"],
             service' = Append(Tail(service),
                          [type |-> "disconnected", to |-> links[n].to, link |-> n])
      PROVE  Stepped
  <2> DEFINE t == [type |-> "disconnected", to |-> links[n].to, link |-> n]
  <2>1. n \in 1..MaxLinks /\ links[n].state # "down"
    BY <1>3, <1>5
  <2>2. LinkTo([links[n] EXCEPT !.state = "ended"]) /\ links[n].to \in Idents
    BY <2>1, StateFacts DEF IInv
  <2>3. t \in Tasks /\ t.type # "messages"
    BY <2>1, <2>2 DEF Tasks
  <2>4. links' = [links EXCEPT ![n] = [links[n] EXCEPT !.state = "ended"]]
    BY <1>5
  <2>5. /\ links' \in [1..MaxLinks -> LinkTypes]
        /\ \A k \in 1..MaxLinks : links'[k].state # "down" => links'[k].to \in Idents
    BY <2>2, <2>4, SetLinkFacts DEF IInv
  <2>6. service' = Append(Tail(service), t)
    BY <1>5
  <2> HIDE DEF t
  <2> QED
    BY <1>1, <1>2, <1>3, <2>3, <2>5, <2>6, OtherTask
<1> QED
  BY <1>4, <1>5 DEF PostCloseSession

(* The first session takes all that waits in the entry.                     *)
LEMMA ConnectedStep ==
  ASSUME IInv, PeerConnected
  PROVE  Stepped
<1>0. PICK i \in Idents, n \in 1..MaxLinks : i = Head(service).to /\ n = Head(service).link
  BY HeadFacts DEF PeerConnected, IInv
<1>1. /\ service # <<>> /\ Head(service).type # "messages" /\ i \in Idents
      /\ n \in 1..MaxLinks
  BY HeadFacts DEF PeerConnected, IInv
<1>2. service' = Tail(service) /\ UNCHANGED <<links, asked, accepted>>
  BY DEF PeerConnected
<1>3. \/ /\ peers[i] # NoPeer
         /\ peers' = [peers EXCEPT ![i] = AfterFlush(@, n)]
         /\ sent' = [sent EXCEPT ![i] = @ \o peers[i].delayedMessages]
      \/ /\ peers[i] = NoPeer
         /\ peers' = [peers EXCEPT ![i] = NewPeer(FALSE, {n})]
         /\ sent' = sent
  BY <1>0 DEF PeerConnected
<1>4. /\ service' \in Seq(Tasks)
      /\ \A j \in Targets : PostsInOrder(j)' /\ Posts(j)' = Posts(j)
  BY <1>1, <1>2, TaskTaken
<1>5. /\ peers \in [Idents -> Entries \cup {NoPeer}] /\ sent \in [Targets -> Seq(Nat)]
      /\ i \in Targets
  BY <1>1 DEF IInv, TypeInv, Targets
<1>6. PICK p : /\ peers' = [peers EXCEPT ![i] = p] /\ p \in Entries /\ p.delayedMessages = <<>>
               /\ sent' = [sent EXCEPT ![i] = @ \o DelayedFor(i)]
  <2>1. CASE peers[i] # NoPeer
    <3>1. peers[i] \in Entries
      BY <1>1, <1>5, <2>1
    <3>2. /\ AfterFlush(peers[i], n) \in Entries
          /\ AfterFlush(peers[i], n).delayedMessages = <<>>
      BY <1>1, <3>1, FlushFacts
    <3>3. DelayedFor(i) = peers[i].delayedMessages
      BY <1>1, <2>1, TransportsAssumption DEF DelayedFor
    <3> QED
      BY <1>1, <1>3, <1>5, <2>1, <3>2, <3>3
  <2>2. CASE peers[i] = NoPeer
    <3>1. NewPeer(FALSE, {n}) \in Entries /\ NewPeer(FALSE, {n}).delayedMessages = <<>>
      BY <1>1, NewFacts
    <3>2. DelayedFor(i) = <<>>
      BY <2>2 DEF DelayedFor
    <3>3. sent' = [sent EXCEPT ![i] = @ \o DelayedFor(i)]
      BY <1>3, <1>5, <2>2, <3>2
    <3> QED
      BY <1>3, <2>2, <3>1, <3>3
  <2> QED
    BY <2>1, <2>2
<1>7. DelayedFor(i) \in Seq(Nat)
  BY <1>5, ChannelFacts DEF IInv
<1>8. TypeInv'
  BY <1>2, <1>4, <1>5, <1>6, <1>7 DEF IInv, TypeInv
<1>9. SessionInv'
  BY <1>5, <1>6, SessionFacts DEF SessionInv
<1>10. ASSUME NEW j \in Targets
       PROVE  ChannelStep(j)
  <2>1. CASE j = i
    <3>1. peers'[i] = p /\ sent'[i] = sent[i] \o DelayedFor(i)
      BY <1>1, <1>5, <1>6
    <3>2. DelayedFor(i)' = <<>>
      BY <1>6, <3>1 DEF DelayedFor
    <3> QED
      BY <1>2, <1>4, <2>1, <3>1, <3>2, FlushingStep
  <2>2. CASE j # i
    <3>1. (j = Self \/ peers'[j] = peers[j]) /\ sent'[j] = sent[j]
      BY <1>5, <1>6, <2>2 DEF Targets
    <3> QED
      BY <1>2, <1>4, <3>1, KeptFacts, LosingStep
  <2> QED
    BY <2>1, <2>2
<1> QED
  BY <1>8, <1>9, <1>10 DEF Stepped

(* The messages of a task go to this router, to a session, behind those     *)
(* that wait, or are dropped.                                               *)
LEMMA PostMessagesStep ==
  ASSUME IInv, PostMessages
  PROVE  Stepped
<1>1. /\ service # <<>> /\ Head(service) \in Tasks /\ Head(service).type = "messages"
  BY DEF PostMessages, Task, IInv, TypeInv
<1>2. PICK i \in Targets, m \in Nat : i = Head(service).to /\ m = Head(service).msg
  BY <1>1, TaskFacts
<1>3. service' = Tail(service) /\ UNCHANGED accepted
  BY DEF PostMessages
<1>4. \A j \in Targets : IsPost(Head(service), j) <=> j = i
  BY <1>1, <1>2 DEF IsPost
<1>5. /\ service' \in Seq(Tasks)
      /\ \A j \in Targets : PostsInOrder(j)' /\ (j # i => Posts(j)' = Posts(j))
      /\ Posts(i) = Posts(i)' \cup {m} /\ Older({m}, Posts(i)')
  BY <1>1, <1>2, <1>3, <1>4, TakenFacts DEF IInv, OrderInv
<1>6. /\ peers \in [Idents -> Entries \cup {NoPeer}] /\ sent \in [Targets -> Seq(Nat)]
      /\ links \in [1..MaxLinks -> LinkTypes]
      /\ \A k \in 1..MaxLinks : links[k].state # "down" => links[k].to \in Idents
      /\ asked \subseteq {"request", "resolve"} \X Idents
  BY DEF IInv, TypeInv
<1>7. \/ i = Self /\ sent' = [sent EXCEPT ![i] = Append(@, m)]
         /\ UNCHANGED <<peers, links, asked>>
      \/ i # Self /\ peers[i] # NoPeer /\ Deliver(i, peers[i], m) /\ UNCHANGED <<links, asked>>
      \/ /\ i # Self /\ peers[i] = NoPeer
         /\ \E known \in BOOLEAN : \E r \in ConnectToPeer(i, NewPeer(known, {})) :
              /\ links' = Made(r.new) /\ asked' = asked \cup r.ask
              /\ IF r.ok THEN Deliver(i, r.peer, m) ELSE UNCHANGED <<peers, sent>>
  BY <1>2, Zenon DEF PostMessages
(* What is left to show of each case.                                       *)
<1> DEFINE Safe == /\ links' \in [1..MaxLinks -> LinkTypes]
                   /\ \A k \in 1..MaxLinks : links'[k].state # "down" => links'[k].to \in Idents
                   /\ asked' \subseteq {"request", "resolve"} \X Idents
<1>8. ASSUME Safe, peers' \in [Idents -> Entries \cup {NoPeer}],
             sent' \in [Targets -> Seq(Nat)], SessionInv',
             \A j \in Targets \ {i} : /\ sent'[j] = sent[j]
                                      /\ j = Self \/ peers'[j] = peers[j],
             \/ sent'[i] = sent[i] /\ DelayedFor(i)' = Append(DelayedFor(i), m)
             \/ /\ DelayedFor(i) = <<>> /\ DelayedFor(i)' = <<>>
                /\ sent'[i] = Append(sent[i], m)
             \/ sent'[i] = sent[i] /\ DelayedFor(i)' \in {DelayedFor(i), <<>>}
      PROVE  Stepped
  <2>1. TypeInv'
    BY <1>3, <1>5, <1>8 DEF IInv, TypeInv
  <2>2. ASSUME NEW j \in Targets
        PROVE  ChannelStep(j)
    <3>1. CASE j = i
      BY <1>2, <1>3, <1>5, <1>8, <3>1, TakingStep
    <3>2. CASE j # i
      <4>1. sent'[j] = sent[j] /\ (j = Self \/ peers'[j] = peers[j])
        BY <1>8, <3>2
      <4> QED
        BY <1>3, <1>5, <3>2, <4>1, KeptFacts, LosingStep
    <3> QED
      BY <3>1, <3>2
  <2> QED
    BY <1>8, <2>1, <2>2 DEF Stepped

<1>9. ASSUME Safe, i \in Idents, NEW p \in Entries, p.delayedMessages = DelayedFor(i),
             p.sessions # {} => DelayedFor(i) = <<>>, Deliver(i, p, m)
      PROVE  Stepped
  <2>1. PICK q \in Entries :
          /\ peers' = [peers EXCEPT ![i] = q]
          /\ q.sessions # {} => q.delayedMessages = <<>>
          /\ \/ q.delayedMessages = Append(DelayedFor(i), m) /\ sent' = sent
             \/ /\ DelayedFor(i) = <<>> /\ q.delayedMessages = <<>>
                /\ sent' = [sent EXCEPT ![i] = Append(@, m)]
    <3>1. CASE p.sessions # {}
      <4>1. /\ peers' = [peers EXCEPT ![i] = p] /\ sent' = [sent EXCEPT ![i] = Append(@, m)]
        BY <1>9, <3>1 DEF Deliver
      <4> QED
        BY <1>9, <3>1, <4>1
    <3>2. CASE p.sessions = {}
      <4>1. /\ Delayed(p, m) \in Entries /\ Delayed(p, m).sessions = {}
            /\ Delayed(p, m).delayedMessages = Append(DelayedFor(i), m)
        BY <1>2, <1>9, <3>2, DelayedFacts
      <4>2. peers' = [peers EXCEPT ![i] = Delayed(p, m)] /\ sent' = sent
        BY <1>9, <3>2 DEF Deliver
      <4> QED
        BY <4>1, <4>2
    <3> QED
      BY <3>1, <3>2
  <2>2. peers'[i] = q /\ \A j \in Idents \ {i} : peers'[j] = peers[j]
    BY <1>6, <1>9, <2>1
  <2>3. SessionInv'
    <3>1. ASSUME NEW j \in Idents, peers'[j] # NoPeer, peers'[j].sessions # {}
          PROVE  peers'[j].delayedMessages = <<>>
      <4>1. CASE j = i
        BY <2>1, <2>2, <3>1, <4>1
      <4>2. CASE j # i
        BY <2>2, <3>1, <4>2, SessionFacts DEF SessionInv
      <4> QED
        BY <4>1, <4>2
    <3> QED
      BY <3>1 DEF SessionInv
  <2>4. peers' \in [Idents -> Entries \cup {NoPeer}] /\ sent' \in [Targets -> Seq(Nat)]
    <3>1. sent[i] \in Seq(Nat)
      BY <1>2, <1>6
    <3>2. Append(sent[i], m) \in Seq(Nat)
      BY <1>2, <3>1
    <3>3. sent' \in [Targets -> Seq(Nat)]
      BY <1>6, <2>1, <3>2
    <3>4. peers' \in [Idents -> Entries \cup {NoPeer}]
      BY <1>6, <2>1
    <3> QED
      BY <3>3, <3>4
  <2>5. DelayedFor(i)' = q.delayedMessages \/ DelayedFor(i)' = <<>>
    BY <2>2 DEF DelayedFor
  <2>6. \/ sent'[i] = sent[i] /\ DelayedFor(i)' = Append(DelayedFor(i), m)
        \/ /\ DelayedFor(i) = <<>> /\ DelayedFor(i)' = <<>>
           /\ sent'[i] = Append(sent[i], m)
        \/ sent'[i] = sent[i] /\ DelayedFor(i)' \in {DelayedFor(i), <<>>}
    <3>1. CASE q.delayedMessages = Append(DelayedFor(i), m) /\ sent' = sent
      BY <2>5, <3>1
    <3>2. CASE /\ DelayedFor(i) = <<>> /\ q.delayedMessages = <<>>
               /\ sent' = [sent EXCEPT ![i] = Append(@, m)]
      <4>1. sent'[i] = Append(sent[i], m)
        BY <1>2, <1>6, <3>2
      <4> QED
        BY <2>5, <3>2, <4>1
    <3> QED
      BY <2>1, <3>1, <3>2
  <2>7. \A j \in Targets \ {i} : sent'[j] = sent[j] /\ (j = Self \/ peers'[j] = peers[j])
    BY <1>6, <2>1, <2>2 DEF Targets
  <2> QED
    BY <1>8, <1>9, <2>3, <2>4, <2>6, <2>7
<1>10. CASE i = Self /\ sent' = [sent EXCEPT ![i] = Append(@, m)]
            /\ UNCHANGED <<peers, links, asked>>
  <2>1. DelayedFor(i) = <<>> /\ DelayedFor(i)' = <<>>
    BY <1>10 DEF DelayedFor
  <2>2. /\ sent' \in [Targets -> Seq(Nat)] /\ sent'[i] = Append(sent[i], m)
        /\ \A j \in Targets \ {i} : sent'[j] = sent[j]
    BY <1>2, <1>6, <1>10
  <2>3. SessionInv'
    BY <1>10, SessionFacts DEF SessionInv
  <2>4. Safe
    BY <1>6, <1>10
  <2> QED
    BY <1>6, <1>8, <1>10, <2>1, <2>2, <2>3, <2>4
<1>11. CASE i # Self /\ peers[i] # NoPeer /\ Deliver(i, peers[i], m)
            /\ UNCHANGED <<links, asked>>
  <2>1. i \in Idents /\ peers[i] \in Entries
    BY <1>2, <1>6, <1>11 DEF Targets
  <2>2. peers[i].delayedMessages = DelayedFor(i)
    BY <1>11 DEF DelayedFor
  <2>3. peers[i].sessions # {} => DelayedFor(i) = <<>>
    BY <1>11, <2>1, <2>2, SessionFacts DEF SessionInv
  <2>4. Safe
    BY <1>6, <1>11
  <2> QED
    BY <1>9, <1>11, <2>1, <2>2, <2>3, <2>4
<1>12. ASSUME i # Self, peers[i] = NoPeer, NEW known \in BOOLEAN,
              NEW r \in ConnectToPeer(i, NewPeer(known, {})),
              links' = Made(r.new), asked' = asked \cup r.ask,
              IF r.ok THEN Deliver(i, r.peer, m) ELSE UNCHANGED <<peers, sent>>
       PROVE  Stepped
  <2> DEFINE p == NewPeer(known, {})
  <2>1. i \in Idents /\ DelayedFor(i) = <<>>
    BY <1>2, <1>12 DEF Targets, DelayedFor
  <2>2. p \in Entries /\ p.sessions = {} /\ p.delayedMessages = <<>>
    BY NewFacts
  <2>3. Tried(r, p)
    BY <1>12, <2>1, <2>2, ConnectFacts
  <2> HIDE DEF p
  <2>4. Safe
    BY <1>6, <1>12, <2>3, MadeFacts DEF Tried, IInv
  <2>5. CASE r.ok
    <3>1. r.peer \in Entries /\ Deliver(i, r.peer, m)
      BY <1>12, <2>3, <2>5 DEF Tried
    <3>2. r.peer.sessions = {} /\ r.peer.delayedMessages = <<>>
      BY <2>2, <2>3, <2>5 DEF Tried
    <3> QED
      BY <1>9, <2>1, <2>4, <3>1, <3>2
  <2>6. CASE ~r.ok
    <3>1. UNCHANGED <<peers, sent>>
      BY <1>12, <2>6
    <3>2. DelayedFor(i)' = <<>>
      BY <1>12, <3>1 DEF DelayedFor
    <3>3. SessionInv'
      BY <3>1, SessionFacts DEF SessionInv
    <3> QED
      BY <1>6, <1>8, <2>1, <2>4, <3>1, <3>2, <3>3
  <2> QED
    BY <2>5, <2>6
<1> QED
  BY <1>7, <1>10, <1>11, <1>12

-----------------------------------------------------------------------------
LEMMA NextStepped ==
  ASSUME IInv, TransportsNext
  PROVE  Stepped
<1>1. ASSUME NEW i \in Targets, SendMessages(i)
      PROVE  Stepped
  BY <1>1, SendMessagesStep
<1>2. ASSUME NEW i \in Idents, CloseSession(i) \/ LinkAccepted(i) \/ PeerLate(i)
      PROVE  Stepped
  BY <1>2, OtherThreadsStep, TimerStep
<1>3. ASSUME NEW a \in asked, NEW found \in BOOLEAN, Answer(a, found)
      PROVE  Stepped
  BY <1>3, OtherThreadsStep
<1>4. ASSUME NEW n \in DOMAIN links, LinkUp(n) \/ LinkDown(n)
      PROVE  Stepped
  BY <1>4, OtherThreadsStep
<1>5. CASE TransportsThread
  BY <1>5, PostMessagesStep, RequestStep, ResolveStep, ConnectedStep, DisconnectedStep,
     CloseStep DEF TransportsThread
<1>6. CASE HandlePeerCleanupTimer
  BY <1>6, TimerStep
<1> QED
  BY <1>1, <1>2, <1>3, <1>4, <1>5, <1>6 DEF TransportsNext

(* The inductive invariant and the step of the abstraction go together: a   *)
(* step is in order because what waits is.                                  *)
LEMMA StepInv ==
  IInv /\ [TransportsNext]_transportsVars => IInv' /\ [Delivery!Next]_(Delivery!vars)
<1> SUFFICES ASSUME IInv, [TransportsNext]_transportsVars
             PROVE  IInv' /\ [Delivery!Next]_(Delivery!vars)
  OBVIOUS
<1>1. CASE TransportsNext
  <2>1. Stepped
    BY <1>1, NextStepped
  <2> QED
    BY <2>1, AllChannels DEF Stepped
<1>2. CASE UNCHANGED transportsVars
  <2>1. /\ peers' = peers /\ service' = service /\ links' = links /\ asked' = asked
        /\ accepted' = accepted /\ sent' = sent
    BY <1>2 DEF transportsVars
  <2>2. TypeInv'
    BY <2>1 DEF IInv, TypeInv
  <2>3. SessionInv'
    BY <2>1, SessionFacts DEF SessionInv
  <2>4. ASSUME NEW i \in Targets
        PROVE  ChannelStep(i)
    <3>1. DelayedFor(i)' = DelayedFor(i)
      BY <2>1, KeptFacts
    <3>2. PostsInOrder(i)' /\ Posts(i)' = Posts(i)
      BY <2>1, KeptFacts DEF IInv, OrderInv
    <3> QED
      BY <2>1, <3>1, <3>2, LosingStep
  <2> QED
    BY <2>2, <2>3, <2>4, AllChannels
<1> QED
  BY <1>1, <1>2

LEMMA InitInv ==
  TransportsInit => IInv /\ Delivery!Init
<1> SUFFICES ASSUME TransportsInit
             PROVE  IInv /\ Delivery!Init
  OBVIOUS
<1>1. TypeInv
  <2>1. service \in Seq(Tasks) /\ <<>> \in Seq(Nat)
    BY DEF TransportsInit
  <2>2. peers \in [Idents -> Entries \cup {NoPeer}]
    BY DEF TransportsInit
  <2>3. /\ links \in [1..MaxLinks -> LinkTypes]
        /\ \A n \in 1..MaxLinks : links[n].state # "down" => links[n].to \in Idents
    BY NoLinkFacts DEF TransportsInit
  <2> QED
    BY <2>1, <2>2, <2>3 DEF TransportsInit, TypeInv
<1>2. \A i \in Targets : DelayedFor(i) = <<>> /\ PostsFor(i) = {} /\ Posts(i) = {}
  <2>1. \A i \in Targets : DelayedFor(i) = <<>>
    <3> SUFFICES ASSUME NEW i \in Targets, i # Self PROVE peers[i] = NoPeer
      BY DEF DelayedFor
    <3> QED
      BY DEF TransportsInit, Targets
  <2>2. \A i \in Targets : PostsFor(i) = {}
    <3>1. DOMAIN service = {}
      <4>1. service \in Seq(Nat) /\ Len(service) = 0
        BY DEF TransportsInit
      <4> QED
        BY <4>1
    <3> QED
      BY <3>1 DEF PostsFor
  <2> QED
    BY <2>1, <2>2 DEF Posts
<1>3. OrderInv
  BY <1>2, ElementsEmpty DEF TransportsInit, OrderInv, PostsInOrder, Ordered, Older
<1>4. \A i \in Targets : Waiting(i) = {}
  BY <1>1, <1>2, ChannelFacts, ElementsEmpty
<1>5. Delivery!Init
  BY <1>4 DEF TransportsInit, Delivery!Init
<1> QED
  BY <1>1, <1>3, <1>5 DEF IInv

(* The messages for a router are sent in the order SendMessages was given   *)
(* them, each at most once, whatever connects, is resolved, times out or    *)
(* ends in between: Transports.cpp implements OrderedDelivery.              *)
THEOREM SpecInOrder == TransportsSpec => TransportsInOrder
<1>1. TransportsInit => IInv /\ Delivery!Init
  BY InitInv
<1>2. IInv /\ [TransportsNext]_transportsVars => IInv' /\ [Delivery!Next]_(Delivery!vars)
  BY StepInv
<1> QED
  BY <1>1, <1>2, PTL DEF TransportsSpec, TransportsInOrder, Delivery!Spec

(* A peer that has a session never has a delayed message: PeerConnected     *)
(* sends them all, and PostMessages delays none behind it.                  *)
THEOREM SpecSessionsTake == TransportsSpec => []SessionInv
<1>1. TransportsInit => IInv
  BY InitInv
<1>2. IInv /\ [TransportsNext]_transportsVars => IInv'
  BY StepInv
<1>3. IInv => SessionInv
  BY SessionFacts
<1> QED
  BY <1>1, <1>2, <1>3, PTL DEF TransportsSpec

-----------------------------------------------------------------------------
(* NTCP: what DecryptNextBlock and Send make of blocks and messages.  Both  *)
(* are functions on numbers, f[k] for the first k.                          *)
WireBlocks == [what : Int, left : Nat]
Ends(b) == IsMessage(b) /\ b.left = 0

IsReading(f, blocks, n) ==
  f = [k \in 0..n |-> IF k = 0 THEN <<>>
                      ELSE IF Ends(blocks[k]) THEN Append(f[k - 1], blocks[k].what)
                      ELSE f[k - 1]]

(* There is such a function for any blocks.                                 *)
LEMMA ReadingExists ==
  ASSUME NEW blocks, NEW n \in Nat
  PROVE  \E f : IsReading(f, blocks, n)
<1> DEFINE S == {m \in Nat : \E f : IsReading(f, blocks, m)}
           Step(p, b) == IF Ends(b) THEN Append(p, b.what) ELSE p
<1>1. 0 \in S
  <2>1. PICK f : f = [i \in 0..0 |-> <<>>]
    OBVIOUS
  <2>2. IsReading(f, blocks, 0)
    BY <2>1 DEF IsReading
  <2> QED
    BY <2>2
<1>2. \A m \in Nat : m \in S => m + 1 \in S
  <2> SUFFICES ASSUME NEW m \in Nat, m \in S
               PROVE  m + 1 \in S
    OBVIOUS
  <2>1. PICK f : IsReading(f, blocks, m)
    OBVIOUS
  <2>2. PICK g : g = [i \in 0..m + 1 |-> IF i = m + 1 THEN Step(f[m], blocks[m + 1]) ELSE f[i]]
    OBVIOUS
  <2> HIDE DEF Step
  <2>3. ASSUME NEW i \in 0..m + 1
        PROVE  g[i] = IF i = 0 THEN <<>> ELSE Step(g[i - 1], blocks[i])
    <3>1. CASE i = m + 1
      BY <2>2, <3>1
    <3>2. CASE i # m + 1
      <4>1. i \in 0..m /\ g[i] = f[i] /\ (i # 0 => g[i - 1] = f[i - 1])
        BY <2>2, <3>2
      <4> QED
        BY <2>1, <4>1 DEF IsReading, Step
    <3> QED
      BY <3>1, <3>2
  <2>4. IsReading(g, blocks, m + 1)
    BY <2>2, <2>3 DEF IsReading, Step
  <2> QED
    BY <2>4
<1> HIDE DEF S
<1>3. n \in S
  BY <1>1, <1>2, NatSetInduction
<1> QED
  BY <1>3 DEF S

(* Complete is its last value.                                              *)
LEMMA CompleteIs ==
  ASSUME NEW blocks \in Seq(WireBlocks)
  PROVE  \E f : IsReading(f, blocks, Len(blocks)) /\ Complete(blocks) = f[Len(blocks)]
<1>1. PICK n \in Nat : n = Len(blocks)
  OBVIOUS
<1>2. PICK f : IsReading(f, blocks, n)
  BY ReadingExists
<1>3. \E g : g = [k \in 0..Len(blocks) |->
                   IF k = 0 THEN <<>>
                   ELSE IF IsMessage(blocks[k]) /\ blocks[k].left = 0 THEN Append(g[k - 1], blocks[k].what)
                   ELSE g[k - 1]]
  BY <1>1, <1>2 DEF IsReading, Ends
<1>4. \E g : g = [k \in 0..Len(blocks) |->
                   IF k = 0 THEN <<>>
                   ELSE IF IsMessage(blocks[k]) /\ blocks[k].left = 0 THEN Append(g[k - 1], blocks[k].what)
                   ELSE g[k - 1]]
             /\ Complete(blocks) = g[Len(blocks)]
  BY <1>3 DEF Complete
<1> QED
  BY <1>4 DEF IsReading, Ends

(* What the first k blocks complete is the same whatever follows them.      *)
LEMMA ReadingFacts ==
  ASSUME NEW blocks \in Seq(WireBlocks), NEW n \in Nat, n <= Len(blocks), NEW f, IsReading(f, blocks, n)
  PROVE  /\ f[0] = <<>>
         /\ \A k \in Nat : k + 1 <= n =>
              f[k + 1] = IF Ends(blocks[k + 1]) THEN Append(f[k], blocks[k + 1].what) ELSE f[k]
         /\ \A k \in Nat : k <= n => f[k] \in Seq(Nat)
<1>1. f[0] = <<>>
  BY DEF IsReading
<1>2. ASSUME NEW k \in Nat, k + 1 <= n
      PROVE  f[k + 1] = IF Ends(blocks[k + 1]) THEN Append(f[k], blocks[k + 1].what) ELSE f[k]
  <2>1. k + 1 \in 0..n /\ k + 1 # 0 /\ (k + 1) - 1 = k
    BY <1>2
  <2> QED
    BY <2>1 DEF IsReading
<1> DEFINE S == {k \in Nat : k <= n => f[k] \in Seq(Nat)}
<1>3. 0 \in S
  <2>1. f[0] \in Seq(Nat)
    BY <1>1
  <2> QED
    BY <2>1
<1>4. \A k \in Nat : k \in S => k + 1 \in S
  <2> SUFFICES ASSUME NEW k \in Nat, k \in S, k + 1 <= n
               PROVE  f[k + 1] \in Seq(Nat)
    OBVIOUS
  <2>1. f[k] \in Seq(Nat)
    OBVIOUS
  <2>2. PICK b \in WireBlocks : b = blocks[k + 1]
    OBVIOUS
  <2>3. CASE Ends(b)
    <3>1. b.what \in Nat
      BY <2>3 DEF WireBlocks, Ends, IsMessage
    <3>2. f[k + 1] = Append(f[k], b.what)
      BY <1>2, <2>2, <2>3
    <3> QED
      BY <2>1, <3>1, <3>2
  <2>4. CASE ~Ends(b)
    BY <1>2, <2>1, <2>2, <2>4
  <2> QED
    BY <2>3, <2>4
<1> HIDE DEF S
<1>5. \A k \in Nat : k \in S
  BY <1>3, <1>4, NatSetInduction
<1> QED
  BY <1>1, <1>2, <1>5 DEF S

(* One more block.                                                          *)
LEMMA CompleteAppend ==
  ASSUME NEW w \in Seq(WireBlocks), NEW b \in WireBlocks
  PROVE  /\ Complete(w) \in Seq(Nat)
         /\ Complete(Append(w, b)) = IF Ends(b) THEN Append(Complete(w), b.what) ELSE Complete(w)
<1>0. PICK v : v = Append(w, b)
  OBVIOUS
<1>1. PICK n \in Nat : n = Len(w)
  OBVIOUS
<1>2. v \in Seq(WireBlocks) /\ Len(v) = n + 1 /\ v[n + 1] = b /\ \A k \in 1..n : v[k] = w[k]
  BY <1>0, <1>1
<1>3. PICK f : IsReading(f, w, n) /\ Complete(w) = f[n]
  BY <1>1, CompleteIs
<1>4. PICK g : IsReading(g, v, n + 1) /\ Complete(v) = g[n + 1]
  BY <1>2, CompleteIs
<1>5. /\ f[0] = <<>> /\ f[n] \in Seq(Nat)
      /\ \A k \in Nat : k + 1 <= n =>
              f[k + 1] = IF Ends(w[k + 1]) THEN Append(f[k], w[k + 1].what) ELSE f[k]
  <2>1. n <= Len(w) /\ n <= n
    BY <1>1
  <2> QED
    BY <1>3, <2>1, ReadingFacts
<1>6. /\ g[0] = <<>>
      /\ \A k \in Nat : k + 1 <= n + 1 =>
              g[k + 1] = IF Ends(v[k + 1]) THEN Append(g[k], v[k + 1].what) ELSE g[k]
  <2>1. n + 1 \in Nat /\ n + 1 <= Len(v) /\ v \in Seq(WireBlocks)
    BY <1>2
  <2> QED
    BY <1>4, <2>1, ReadingFacts
<1> DEFINE S == {k \in Nat : k <= n => g[k] = f[k]}
<1>7. 0 \in S
  BY <1>5, <1>6
<1>8. \A k \in Nat : k \in S => k + 1 \in S
  <2> SUFFICES ASSUME NEW k \in Nat, k \in S, k + 1 <= n
               PROVE  g[k + 1] = f[k + 1]
    OBVIOUS
  <2>1. g[k] = f[k] /\ v[k + 1] = w[k + 1] /\ k + 1 <= n + 1
    BY <1>2
  <2> QED
    BY <1>5, <1>6, <2>1
<1> HIDE DEF S
<1>9. n \in S
  BY <1>7, <1>8, NatSetInduction
<1>10. g[n] = f[n]
  BY <1>9 DEF S
<1>11. g[n + 1] = IF Ends(b) THEN Append(f[n], b.what) ELSE f[n]
  BY <1>2, <1>6, <1>10
<1> QED
  BY <1>0, <1>3, <1>4, <1>5, <1>11

(* Nothing read completes nothing.                                          *)
LEMMA CompleteEmpty == Complete(<<>>) = <<>>
<1>1. <<>> \in Seq(WireBlocks) /\ Len(<<>>) = 0
  OBVIOUS
<1>2. PICK f : IsReading(f, <<>>, 0) /\ Complete(<<>>) = f[0]
  BY <1>1, CompleteIs
<1> QED
  BY <1>2 DEF IsReading

(* Appending to the second of two sequences.                                *)
LEMMA AppendConcat ==
  ASSUME NEW c \in Seq(Nat), NEW d \in Seq(Nat), NEW e \in Nat
  PROVE  Append(c \o d, e) = c \o Append(d, e)
<1>1. c \o d \in Seq(Nat) /\ <<e>> \in Seq(Nat)
  OBVIOUS
<1>2. Append(c \o d, e) = (c \o d) \o <<e>> /\ Append(d, e) = d \o <<e>>
  BY <1>1, AppendIsConcat
<1>3. (c \o d) \o <<e>> = c \o (d \o <<e>>)
  BY <1>1, ConcatAssociative
<1> QED
  BY <1>2, <1>3

(* The blocks of u and then those of v.                                     *)
LEMMA CompleteConcat ==
  ASSUME NEW u \in Seq(WireBlocks), NEW v \in Seq(WireBlocks)
  PROVE  Complete(u \o v) = Complete(u) \o Complete(v)
<1> DEFINE S == {n \in Nat : \A w \in Seq(WireBlocks) :
                               Len(w) = n => Complete(u \o w) = Complete(u) \o Complete(w)}
<1>0. Complete(u) \in Seq(Nat)
  <2>1. PICK b : b \in WireBlocks
    <3>1. [what |-> 0, left |-> 0] \in WireBlocks
      BY DEF WireBlocks
    <3> QED
      BY <3>1
  <2> QED
    BY <2>1, CompleteAppend
<1>1. 0 \in S
  <2> SUFFICES ASSUME NEW w \in Seq(WireBlocks), Len(w) = 0
               PROVE  Complete(u \o w) = Complete(u) \o Complete(w)
    OBVIOUS
  <2>1. w = <<>> /\ u \o w = u
    OBVIOUS
  <2> QED
    BY <1>0, <2>1, CompleteEmpty
<1>2. ASSUME NEW n \in Nat, n \in S
      PROVE  n + 1 \in S
  <2>1. \A w \in Seq(WireBlocks) : Len(w) = n => Complete(u \o w) = Complete(u) \o Complete(w)
    BY <1>2
  <2>2. ASSUME NEW w \in Seq(WireBlocks), Len(w) = n + 1
        PROVE  Complete(u \o w) = Complete(u) \o Complete(w)
    <3>1. PICK x, b : x = SubSeq(w, 1, n) /\ b = w[n + 1]
      OBVIOUS
    <3>2. x \in Seq(WireBlocks) /\ Len(x) = n /\ b \in WireBlocks /\ w = Append(x, b)
      BY <2>2, <3>1
    <3>3. u \o w = Append(u \o x, b) /\ u \o x \in Seq(WireBlocks)
      BY <3>2
    <3>4. Complete(u \o x) = Complete(u) \o Complete(x)
      BY <2>1, <3>2
    <3>5. Complete(x) \in Seq(Nat)
      BY <3>2, CompleteAppend
    <3>6. Complete(w) = IF Ends(b) THEN Append(Complete(x), b.what) ELSE Complete(x)
      BY <3>2, CompleteAppend
    <3>7. Complete(u \o w) = IF Ends(b) THEN Append(Complete(u \o x), b.what) ELSE Complete(u \o x)
      BY <3>2, <3>3, CompleteAppend
    <3>8. CASE Ends(b)
      <4>1. b.what \in Nat
        BY <3>2, <3>8 DEF WireBlocks, Ends, IsMessage
      <4>2. PICK c \in Seq(Nat), d \in Seq(Nat) : c = Complete(u) /\ d = Complete(x)
        BY <1>0, <3>5
      <4>3. Append(c \o d, b.what) = c \o Append(d, b.what)
        BY <4>1, AppendConcat
      <4> QED
        BY <3>4, <3>6, <3>7, <3>8, <4>2, <4>3
    <3>9. CASE ~Ends(b)
      BY <3>4, <3>6, <3>7, <3>9
    <3> QED
      BY <3>8, <3>9
  <2> QED
    BY <2>2
<1> HIDE DEF S
<1>3. Len(v) \in S
  BY <1>1, <1>2, NatSetInduction
<1> QED
  BY <1>3 DEF S

Messages == 1..Len(Blocks)

(* The blocks of a message end with one that ends it, the only one.         *)
LEMMA MessageBlocks ==
  ASSUME NEW m \in Messages
  PROVE  CreateMsgBuffer(m) \in Seq(WireBlocks) /\ Complete(CreateMsgBuffer(m)) = <<m>>
<1>1. PICK n \in Nat \ {0} : n = Blocks[m]
  <2>1. Blocks \in Seq(Nat \ {0})
    BY NTCPAssumption
  <2> QED
    BY <2>1 DEF Messages
<1>2. m \in Nat /\ m > 0
  BY DEF Messages
<1> DEFINE b(k) == Block(m, n - k)
           part(j) == [k \in 1..j |-> b(k)]
<1>3. \A k \in 1..n : b(k) \in WireBlocks /\ (Ends(b(k)) <=> k = n) /\ b(k).what = m
  BY <1>2 DEF WireBlocks, Block, Ends, IsMessage
<1> HIDE DEF b
<1>4. \A j \in 0..n : part(j) \in Seq(WireBlocks) /\ Len(part(j)) = j
  BY <1>3
<1>5. \A j \in 0..n - 1 : part(j + 1) = Append(part(j), b(j + 1))
  OBVIOUS
<1> DEFINE S == {j \in Nat : j < n => Complete(part(j)) = <<>>}
<1>6. 0 \in S
  <2>1. part(0) = <<>>
    BY <1>4
  <2> QED
    BY <2>1, CompleteEmpty
<1>7. \A j \in Nat : j \in S => j + 1 \in S
  <2> SUFFICES ASSUME NEW j \in Nat, j \in S, j + 1 < n
               PROVE  Complete(part(j + 1)) = <<>>
    OBVIOUS
  <2>1. j \in 0..n - 1 /\ j \in 0..n /\ j + 1 \in 1..n /\ j + 1 # n
    OBVIOUS
  <2>2. Complete(part(j)) = <<>>
    OBVIOUS
  <2>3. b(j + 1) \in WireBlocks /\ ~Ends(b(j + 1)) /\ part(j) \in Seq(WireBlocks)
    BY <1>3, <1>4, <2>1
  <2> HIDE DEF S
  <2> QED
    BY <1>5, <2>1, <2>2, <2>3, CompleteAppend
<1> HIDE DEF S
<1>8. n - 1 \in S
  BY <1>6, <1>7, NatSetInduction
<1>9. Complete(part(n - 1)) = <<>>
  BY <1>8 DEF S
<1>10. /\ n - 1 \in 0..n - 1 /\ n - 1 \in 0..n /\ n \in 1..n /\ n \in 0..n /\ (n - 1) + 1 = n
  OBVIOUS
<1>11. part(n) = Append(part(n - 1), b(n)) /\ Ends(b(n)) /\ b(n).what = m
       /\ b(n) \in WireBlocks /\ part(n - 1) \in Seq(WireBlocks) /\ part(n) \in Seq(WireBlocks)
  BY <1>3, <1>4, <1>5, <1>10
<1>12. Complete(part(n)) = Append(<<>>, m)
  BY <1>9, <1>11, CompleteAppend
<1>13. Append(<<>>, m) = <<m>>
  OBVIOUS
<1>14. CreateMsgBuffer(m) = part(n)
  BY <1>1 DEF CreateMsgBuffer, b
<1> QED
  BY <1>11, <1>12, <1>13, <1>14

IsFraming(f, msgs, n) ==
  f = [k \in 0..n |-> IF k = 0 THEN <<>> ELSE f[k - 1] \o CreateMsgBuffer(msgs[k])]

(* The same for Frames.                                                     *)
LEMMA FramingExists ==
  ASSUME NEW msgs, NEW n \in Nat
  PROVE  \E f : IsFraming(f, msgs, n)
<1> DEFINE S == {m \in Nat : \E f : IsFraming(f, msgs, m)}
<1>1. 0 \in S
  <2>1. PICK f : f = [i \in 0..0 |-> <<>>]
    OBVIOUS
  <2>2. IsFraming(f, msgs, 0)
    BY <2>1 DEF IsFraming
  <2> QED
    BY <2>2
<1>2. \A m \in Nat : m \in S => m + 1 \in S
  <2> SUFFICES ASSUME NEW m \in Nat, m \in S
               PROVE  m + 1 \in S
    OBVIOUS
  <2>1. PICK f : IsFraming(f, msgs, m)
    OBVIOUS
  <2>2. PICK g : g = [i \in 0..m + 1 |-> IF i = m + 1 THEN f[m] \o CreateMsgBuffer(msgs[m + 1]) ELSE f[i]]
    OBVIOUS
  <2>3. ASSUME NEW i \in 0..m + 1
        PROVE  g[i] = IF i = 0 THEN <<>> ELSE g[i - 1] \o CreateMsgBuffer(msgs[i])
    <3>1. CASE i = m + 1
      BY <2>2, <3>1
    <3>2. CASE i # m + 1
      <4>1. i \in 0..m /\ g[i] = f[i] /\ (i # 0 => g[i - 1] = f[i - 1])
        BY <2>2, <3>2
      <4> QED
        BY <2>1, <4>1 DEF IsFraming
    <3> QED
      BY <3>1, <3>2
  <2>4. IsFraming(g, msgs, m + 1)
    BY <2>2, <2>3 DEF IsFraming
  <2> QED
    BY <2>4
<1> HIDE DEF S
<1>3. n \in S
  BY <1>1, <1>2, NatSetInduction
<1> QED
  BY <1>3 DEF S

(* What Send frames is read again as it was.                                *)
LEMMA FramesComplete ==
  ASSUME NEW msgs \in Seq(Messages)
  PROVE  Frames(msgs) \in Seq(WireBlocks) /\ Complete(Frames(msgs)) = msgs
<1>1. PICK n \in Nat : n = Len(msgs)
  OBVIOUS
<1>2. PICK f : IsFraming(f, msgs, n) /\ Frames(msgs) = f[n]
  <2>1. PICK g : IsFraming(g, msgs, n)
    BY FramingExists
  <2>2. \E f : f = [k \in 0..Len(msgs) |-> IF k = 0 THEN <<>> ELSE f[k - 1] \o CreateMsgBuffer(msgs[k])]
    BY <1>1, <2>1 DEF IsFraming
  <2>3. \E f : f = [k \in 0..Len(msgs) |-> IF k = 0 THEN <<>> ELSE f[k - 1] \o CreateMsgBuffer(msgs[k])]
               /\ Frames(msgs) = f[Len(msgs)]
    BY <2>2 DEF Frames
  <2> QED
    BY <1>1, <2>3 DEF IsFraming
<1>3. f[0] = <<>> /\ \A k \in Nat : k + 1 <= n => f[k + 1] = f[k] \o CreateMsgBuffer(msgs[k + 1])
  <2>1. f[0] = <<>>
    BY <1>2 DEF IsFraming
  <2>2. ASSUME NEW k \in Nat, k + 1 <= n
        PROVE  f[k + 1] = f[k] \o CreateMsgBuffer(msgs[k + 1])
    <3>1. k + 1 \in 0..n /\ k + 1 # 0 /\ (k + 1) - 1 = k
      BY <2>2
    <3> QED
      BY <1>2, <3>1 DEF IsFraming
  <2> QED
    BY <2>1, <2>2
<1> DEFINE S == {k \in Nat : k <= n => f[k] \in Seq(WireBlocks) /\ Complete(f[k]) = SubSeq(msgs, 1, k)}
<1>4. 0 \in S
  <2>1. f[0] \in Seq(WireBlocks)
    BY <1>3
  <2>2. SubSeq(msgs, 1, 0) = <<>>
    OBVIOUS
  <2> QED
    BY <1>3, <2>1, <2>2, CompleteEmpty
<1>5. \A k \in Nat : k \in S => k + 1 \in S
  <2> SUFFICES ASSUME NEW k \in Nat, k \in S, k + 1 <= n
               PROVE  f[k + 1] \in Seq(WireBlocks) /\ Complete(f[k + 1]) = SubSeq(msgs, 1, k + 1)
    OBVIOUS
  <2>1. PICK u : u = f[k]
    OBVIOUS
  <2>2. u \in Seq(WireBlocks) /\ Complete(u) = SubSeq(msgs, 1, k)
    BY <2>1
  <2> HIDE DEF S
  <2>3. PICK m \in Messages : m = msgs[k + 1]
    BY <1>1
  <2>4. PICK v : v = CreateMsgBuffer(m)
    OBVIOUS
  <2>5. v \in Seq(WireBlocks) /\ Complete(v) = <<m>>
    BY <2>4, MessageBlocks
  <2>6. f[k + 1] = u \o v
    BY <1>3, <2>1, <2>3, <2>4
  <2>7. Complete(u \o v) = SubSeq(msgs, 1, k) \o <<m>>
    BY <2>2, <2>5, CompleteConcat
  <2>8. SubSeq(msgs, 1, k) \o <<m>> = SubSeq(msgs, 1, k + 1)
    BY <1>1, <2>3
  <2> QED
    BY <2>2, <2>5, <2>6, <2>7, <2>8
<1> HIDE DEF S
<1>6. n \in S
  BY <1>4, <1>5, NatSetInduction
<1>7. f[n] \in Seq(WireBlocks) /\ Complete(f[n]) = SubSeq(msgs, 1, n)
  BY <1>6 DEF S
<1>8. SubSeq(msgs, 1, n) = msgs
  BY <1>1
<1> QED
  BY <1>2, <1>7, <1>8

-----------------------------------------------------------------------------
(* NTCP implements OrderedDelivery.  A session's messages wait in two       *)
(* places behind each other, on the wire and in the send queue.  Nothing is *)
(* given to a session before it is established.                             *)
Waits(i) == Elements(Complete(wire[i])) \cup Elements(sess[i].sendQueue)

Lane(i) ==
  /\ wire[i] \in Seq(WireBlocks) /\ sess[i].sendQueue \in Seq(Messages)
  /\ given[i] \in Seq(Nat) /\ got[i] \in Seq(Nat)
  /\ Ordered(got[i], Complete(wire[i]), Elements(sess[i].sendQueue), Len(given[i]))
  /\ Increasing(sess[i].sendQueue)

Quiet(i) ==
  /\ sess[i].op \notin {"recv", "none"} \/ i[1] \notin dialed => given[i] = <<>>
  /\ sess[i].op = "connect" => sess[Peer(i)].op = "none" /\ given[Peer(i)] = <<>>

QuietInv == \A i \in Ids : Quiet(i)

(* One session goes on, or not, or is established.                          *)
LEMMA OneSessionQuiet ==
  ASSUME NTCPInv, QuietInv, NEW i \in Ids, NEW s, Set(i, s), dialed' = dialed,
         \A j \in Ids \ {i} : given'[j] = given[j],
         \/ s.op = sess[i].op /\ given'[i] = given[i]
         \/ sess[i].op # "none" /\ s.op \in {"recv", "none"} /\ i[1] \in dialed
         \/ sess[i].op \notin {"none", "recv"} /\ s.op # "connect" /\ given'[i] = given[i]
  PROVE  QuietInv'
<1>1. sess'[i] = s /\ \A j \in Ids \ {i} : sess'[j] = sess[j]
  BY DEF Set, NTCPInv
<1>2. ASSUME NEW j \in Ids
      PROVE  Quiet(j)'
  <2>1. Quiet(i) /\ Quiet(j) /\ Quiet(Peer(j)) /\ Peer(j) \in Ids /\ Peer(j) # j /\ Peer(Peer(j)) = j
    BY PeerFacts DEF QuietInv
  <2>2. CASE j = i
    <3>1. sess'[Peer(j)] = sess[Peer(j)] /\ given'[Peer(j)] = given[Peer(j)] /\ sess'[j] = s
      BY <1>1, <2>1, <2>2
    <3> QED
      BY <2>1, <2>2, <3>1 DEF Quiet
  <2>3. CASE j # i /\ Peer(j) = i
    <3>1. sess'[j] = sess[j] /\ given'[j] = given[j] /\ sess'[Peer(j)] = s
      BY <1>1, <2>3
    <3> QED
      BY <2>1, <2>3, <3>1 DEF Quiet
  <2>4. CASE j # i /\ Peer(j) # i
    <3>1. /\ sess'[j] = sess[j] /\ given'[j] = given[j]
          /\ sess'[Peer(j)] = sess[Peer(j)] /\ given'[Peer(j)] = given[Peer(j)]
      BY <1>1, <2>1, <2>4
    <3> QED
      BY <2>1, <3>1 DEF Quiet
  <2> QED
    BY <2>2, <2>3, <2>4
<1> QED
  BY <1>2 DEF QuietInv

(* A new connection: neither session was given anything before.             *)
LEMMA ConnectNTCPQuiet ==
  ASSUME NTCPInv, QuietInv, NEW c \in Conns, ConnectNTCP(c)
  PROVE  QuietInv'
<1>1. PICK i, n : i = <<c, "client">> /\ n = [NewSession("connect") EXCEPT !.ident = TRUE]
  OBVIOUS
<1>2. i \in Ids /\ i[1] = c
  BY <1>1 DEF Ids
<1>3. sess'[i] = n /\ \A j \in Ids \ {i} : sess'[j] = sess[j]
  BY <1>1, <1>2 DEF ConnectNTCP, Set, NTCPInv
<1>4. dialed' = dialed \cup {c} /\ given' = given /\ c \notin dialed
  BY DEF ConnectNTCP
<1>5. ASSUME NEW j \in Ids
      PROVE  Quiet(j)'
  <2>1. Quiet(j) /\ Quiet(Peer(j)) /\ Peer(j) \in Ids /\ Peer(j) # j /\ Peer(Peer(j)) = j /\ Peer(j)[1] = j[1]
    BY PeerFacts DEF QuietInv
  <2>2. Fine(j, sess[j], dialed) /\ Fine(Peer(j), sess[Peer(j)], dialed)
    BY <2>1 DEF NTCPInv
  <2>3. CASE j = i
    <3>1. j[1] \notin dialed /\ Peer(j)[1] \notin dialed
      BY <1>2, <1>4, <2>1, <2>3
    <3>2. sess'[Peer(j)] = sess[Peer(j)] /\ sess[Peer(j)].op = "none"
      BY <1>3, <2>1, <2>2, <2>3, <3>1 DEF Fine
    <3>3. given[j] = <<>> /\ given[Peer(j)] = <<>>
      BY <2>1, <3>1 DEF Quiet
    <3> QED
      BY <1>4, <3>2, <3>3 DEF Quiet
  <2>4. CASE j # i
    <3>1. sess'[j] = sess[j]
      BY <1>3, <2>4
    <3>2. CASE Peer(j) = i
      <4>1. sess[j].op # "connect"
        BY <1>2, <1>4, <2>1, <2>2, <3>2 DEF Fine
      <4> QED
        BY <1>4, <2>1, <3>1, <4>1 DEF Quiet
    <3>3. CASE Peer(j) # i
      <4>1. sess'[Peer(j)] = sess[Peer(j)]
        BY <1>3, <2>1, <3>3
      <4> QED
        BY <1>4, <2>1, <3>1, <4>1 DEF Quiet
    <3> QED
      BY <3>2, <3>3
  <2> QED
    BY <2>3, <2>4
<1> QED
  BY <1>5 DEF QuietInv

(* It is accepted or fails.                                                 *)
LEMMA HandleConnectQuiet ==
  ASSUME NTCPInv, QuietInv, NEW i \in Ids, HandleConnect(i)
  PROVE  QuietInv'
<1>1. /\ i[1] \in dialed /\ dialed' = dialed /\ given' = given /\ sess[i].op = "connect"
      /\ Peer(i) \in Ids /\ Peer(i) # i /\ Peer(Peer(i)) = i
  BY Dialed, PeerFacts DEF HandleConnect
<1>2. CASE Terminate(i, [sess[i] EXCEPT !.op = "none"])
  <2>1. PICK s : s = ClosedSession([sess[i] EXCEPT !.op = "none"])
    OBVIOUS
  <2>2. Fine(i, sess[i], dialed)
    BY DEF NTCPInv
  <2>3. s.op = "none" /\ Set(i, s)
    BY <1>2, <2>1, <2>2 DEF ClosedSession, NewSession, Terminate, Set, Fine
  <2> QED
    BY <1>1, <2>3, OneSessionQuiet
<1>3. CASE sess' = [sess EXCEPT ![i] = ScheduleTermination([@ EXCEPT !.op = "r2"]),
                                ![Peer(i)] = NewSession("accept")]
  <2>1. PICK t, n : t = ScheduleTermination([sess[i] EXCEPT !.op = "r2"]) /\ n = NewSession("accept")
    OBVIOUS
  <2>2. /\ sess'[i] = t /\ sess'[Peer(i)] = n
        /\ \A j \in Ids \ {i, Peer(i)} : sess'[j] = sess[j]
    BY <1>1, <1>3, <2>1 DEF NTCPInv
  <2>3. t.op = "r2" /\ n.op = "accept"
    <3>1. Fine(i, sess[i], dialed)
      BY DEF NTCPInv
    <3> QED
      BY <2>1, <3>1 DEF ScheduleTermination, NewSession, Fine
  <2>4. given[i] = <<>> /\ given[Peer(i)] = <<>>
    BY <1>1 DEF QuietInv, Quiet
  <2>5. ASSUME NEW j \in Ids
        PROVE  Quiet(j)'
    <3>1. CASE j \in {i, Peer(i)}
      BY <1>1, <2>2, <2>3, <2>4, <3>1 DEF Quiet
    <3>2. CASE j \notin {i, Peer(i)}
      <4>1. Peer(j) \in Ids \ {i, Peer(i)}
        BY <1>1, <3>2, PeerFacts
      <4>2. sess'[j] = sess[j] /\ sess'[Peer(j)] = sess[Peer(j)] /\ Quiet(j)
        BY <2>2, <3>2, <4>1 DEF QuietInv
      <4> QED
        BY <1>1, <4>2 DEF Quiet
    <3> QED
      BY <3>1, <3>2
  <2> QED
    BY <2>5 DEF QuietInv
<1> QED
  BY <1>2, <1>3 DEF HandleConnect

(* What Terminate leaves of a session.                                      *)
LEMMA ClosedFacts ==
  ASSUME NEW s
  PROVE  LET c == ClosedSession(s) IN c.op = s.op /\ c.sendQueue = <<>> /\ ~c.open
BY DEF ClosedSession, NewSession

(* The steps that terminate.                                                *)
LEMMA TerminateQuiet ==
  ASSUME NTCPInv, QuietInv, NEW i \in Ids, NEW s, Terminate(i, s), dialed' = dialed, given' = given,
         \/ s.op = sess[i].op
         \/ sess[i].op # "none" /\ s.op \in {"recv", "none"}
  PROVE  QuietInv'
<1>1. PICK c : c = ClosedSession(s)
  OBVIOUS
<1>2. c.op = s.op /\ Set(i, c)
  BY <1>1, ClosedFacts DEF Terminate, Set
<1>3. sess[i].op # "none" => i[1] \in dialed
  BY Dialed
<1> QED
  BY <1>2, <1>3, OneSessionQuiet

(* A handshake goes on.                                                     *)
LEMMA OpQuiet ==
  ASSUME NTCPInv, QuietInv, NEW i \in Ids, sess[i].op \notin {"none", "recv"}, NEW op, op # "connect",
         Op(i, op), dialed' = dialed, given' = given
  PROVE  QuietInv'
<1>1. PICK s, t : s = sess[i] /\ t = [s EXCEPT !.op = op]
  OBVIOUS
<1>2. Fine(i, s, dialed)
  BY <1>1 DEF NTCPInv
<1>3. t.op = op /\ Set(i, t)
  BY <1>1, <1>2 DEF Fine, Op
<1> QED
  BY <1>3, OneSessionQuiet

(* A session is given its first message when it is established.             *)
LEMMA ConnectedQuiet ==
  ASSUME NTCPInv, QuietInv, NEW i \in Ids, sess[i].op # "none", Connected(i), dialed' = dialed
  PROVE  QuietInv'
<1>1. PICK s, t : s = sess[i] /\ t = [s EXCEPT !.established = TRUE, !.op = "recv", !.sending = TRUE,
                                               !.sendQueue = Append(@, DbStore)]
  OBVIOUS
<1>2. Fine(i, s, dialed) /\ i[1] \in dialed
  BY <1>1, Dialed DEF NTCPInv
<1>3. t.op = "recv" /\ Set(i, t)
  BY <1>1, <1>2 DEF Fine, Connected
<1>4. \A j \in Ids \ {i} : given'[j] = given[j]
  BY DEF Connected
<1> QED
  BY <1>2, <1>3, <1>4, OneSessionQuiet

(* The steps of a handshake.                                                *)
LEMMA HandshakeQuiet ==
  ASSUME NTCPInv, QuietInv, NEW i \in Ids,
         \/ HandleAccept(i)
         \/ HandlePhase1Received(i) \/ HandlePhase2Received(i) \/ HandlePhase3Received(i)
         \/ HandlePhase3ExtraReceived(i) \/ HandlePhase4Sent(i) \/ HandlePhase4Received(i)
  PROVE  QuietInv'
<1>1. dialed' = dialed /\ sess[i].op \notin {"none", "recv"}
  BY DEF HandleAccept, HandlePhase1Received, HandlePhase2Received, HandlePhase3Received,
     HandlePhase3ExtraReceived, HandlePhase4Sent, HandlePhase4Received, Arrived
<1>2. PICK s : s = sess[i]
  OBVIOUS
<1>3. Fine(i, s, dialed)
  BY <1>2 DEF NTCPInv
<1>4. CASE HandleAccept(i)
  <2>1. \/ Set(i, [s EXCEPT !.op = "none", !.open = FALSE])
        \/ Set(i, ScheduleTermination([s EXCEPT !.op = "r1"]))
    BY <1>2, <1>4 DEF HandleAccept
  <2>2. PICK t, u : /\ t = [s EXCEPT !.op = "none", !.open = FALSE]
                    /\ u = ScheduleTermination([s EXCEPT !.op = "r1"])
    OBVIOUS
  <2>3. t.op = "none" /\ u.op = "r1"
    BY <1>3, <2>2 DEF Fine, ScheduleTermination
  <2>4. (Set(i, t) \/ Set(i, u)) /\ given' = given
    BY <1>4, <2>1, <2>2 DEF HandleAccept
  <2> QED
    BY <1>1, <2>3, <2>4, OneSessionQuiet
<1>5. CASE HandlePhase1Received(i) \/ HandlePhase2Received(i) \/ HandlePhase3ExtraReceived(i)
  <2>1. given' = given /\ (Op(i, "r3") \/ Op(i, "r4") \/ Op(i, "w4"))
    BY <1>5 DEF HandlePhase1Received, HandlePhase2Received, HandlePhase3ExtraReceived
  <2> QED
    BY <1>1, <2>1, OpQuiet
<1>6. CASE HandlePhase3Received(i)
  <2>1. PICK op \in {"r3x", "w4"} : op = IF Dialer[i[1]] \in LongIdents THEN "r3x" ELSE "w4"
    OBVIOUS
  <2>2. PICK t : t = [s EXCEPT !.ident = TRUE, !.op = op]
    OBVIOUS
  <2>3. PICK c : c = ClosedSession(t)
    OBVIOUS
  <2>4. t.op = op /\ c.op = op
    BY <1>3, <2>2, <2>3, ClosedFacts DEF Fine
  <2>5. (Set(i, t) \/ Set(i, c)) /\ given' = given
    BY <1>2, <1>6, <2>1, <2>2, <2>3 DEF HandlePhase3Received
  <2> QED
    BY <1>1, <2>1, <2>4, <2>5, OneSessionQuiet
<1>7. CASE HandlePhase4Sent(i) \/ HandlePhase4Received(i)
  <2>1. Connected(i)
    BY <1>7 DEF HandlePhase4Sent, HandlePhase4Received
  <2> QED
    BY <1>1, <2>1, ConnectedQuiet
<1> QED
  BY <1>4, <1>5, <1>6, <1>7

(* The steps of an established session, and those that end one.             *)
LEMMA MessagesQuiet ==
  ASSUME NTCPInv, QuietInv, NEW i \in Ids,
         PostI2NPMessages(i) \/ HandleSent(i) \/ HandleTerminationTimer(i) \/ \E k : HandleReceived(i, k)
  PROVE  QuietInv'
<1>1. PICK s : s = sess[i]
  OBVIOUS
<1>2. Fine(i, s, dialed) /\ dialed' = dialed
  BY <1>1 DEF NTCPInv, PostI2NPMessages, HandleSent, HandleTerminationTimer, HandleReceived
<1>3. CASE PostI2NPMessages(i)
  <2>1. PICK m : m = Len(given[i]) + 1
    OBVIOUS
  <2>2. PICK t, u : t = [s EXCEPT !.sendQueue = Append(@, m)] /\ u = [s EXCEPT !.sending = TRUE]
    OBVIOUS
  <2>3. t.op = "recv" /\ u.op = "recv" /\ s.op = "recv" /\ i[1] \in dialed
    BY <1>1, <1>2, <1>3, <2>2 DEF Fine, PostI2NPMessages
  <2>4. Set(i, t) \/ Set(i, u)
    BY <1>1, <1>3, <2>1, <2>2 DEF PostI2NPMessages
  <2>5. \A j \in Ids \ {i} : given'[j] = given[j]
    BY <1>3 DEF PostI2NPMessages
  <2> QED
    BY <1>1, <1>2, <2>3, <2>4, <2>5, OneSessionQuiet
<1>4. CASE HandleSent(i)
  <2>1. PICK t, u : t = AfterSent(s) /\ u = [s EXCEPT !.sending = FALSE]
    OBVIOUS
  <2>2. t.op = s.op /\ u.op = s.op
    BY <1>2, <2>1 DEF Fine, AfterSent, ScheduleTermination
  <2>3. (Set(i, t) \/ Set(i, u)) /\ given' = given
    BY <1>1, <1>4, <2>1 DEF HandleSent
  <2> QED
    BY <1>1, <1>2, <2>2, <2>3, OneSessionQuiet
<1>5. CASE HandleTerminationTimer(i)
  <2>1. PICK t : t = [s EXCEPT !.open = FALSE, !.timer = FALSE]
    OBVIOUS
  <2>2. t.op = s.op /\ Set(i, t) /\ given' = given
    BY <1>1, <1>2, <1>5, <2>1 DEF Fine, HandleTerminationTimer
  <2> QED
    BY <1>1, <1>2, <2>2, OneSessionQuiet
<1>6. CASE \E k : HandleReceived(i, k)
  <2>1. PICK k : HandleReceived(i, k)
    BY <1>6
  <2>2. PICK t, u : t = [s EXCEPT !.received = TRUE] /\ u = ScheduleTermination(t)
    OBVIOUS
  <2>3. PICK v : v = [t EXCEPT !.op = "none"]
    OBVIOUS
  <2>4. u.op = s.op /\ v.op = "none"
    BY <1>2, <2>2, <2>3 DEF Fine, ScheduleTermination
  <2>5. (Set(i, u) \/ Terminate(i, v)) /\ given' = given /\ s.op = "recv"
    BY <1>1, <2>1, <2>2, <2>3 DEF HandleReceived
  <2> QED
    BY <1>1, <1>2, <2>4, <2>5, OneSessionQuiet, TerminateQuiet
<1> QED
  BY <1>3, <1>4, <1>5, <1>6

(* The steps that end a session or a handshake.                             *)
LEMMA EndQuiet ==
  ASSUME NTCPInv, QuietInv, NEW i \in Ids,
         PhaseRefused(i) \/ PhaseFailed(i) \/ Aborted(i) \/ ReceiveFailed(i) \/ NTCPDone(i)
  PROVE  QuietInv'
<1>1. PICK s, t : s = sess[i] /\ t = [s EXCEPT !.op = "none"]
  OBVIOUS
<1>2. Fine(i, s, dialed) /\ dialed' = dialed /\ given' = given
  BY <1>1 DEF NTCPInv, PhaseRefused, PhaseFailed, Aborted, ReceiveFailed, NTCPDone
<1>3. t.op = "none"
  BY <1>1, <1>2 DEF Fine
<1>4. CASE NTCPDone(i)
  BY <1>1, <1>2, <1>4, TerminateQuiet DEF NTCPDone
<1>5. CASE PhaseRefused(i) \/ PhaseFailed(i) \/ ReceiveFailed(i)
  <2>1. Terminate(i, t) /\ s.op # "none"
    BY <1>1, <1>5 DEF PhaseRefused, PhaseFailed, ReceiveFailed
  <2> QED
    BY <1>1, <1>2, <1>3, <2>1, TerminateQuiet
<1>6. CASE Aborted(i)
  <2>1. (Terminate(i, t) \/ Op(i, "none")) /\ s.op \notin {"none", "recv"}
    BY <1>1, <1>6 DEF Aborted
  <2> QED
    BY <1>1, <1>2, <1>3, <2>1, TerminateQuiet, OpQuiet
<1> QED
  BY <1>4, <1>5, <1>6

(* Every step keeps QuietInv.                                               *)
LEMMA QuietKept ==
  ASSUME NTCPInv, QuietInv, NTCPNext
  PROVE  QuietInv'
<1>1. CASE sess' = sess /\ dialed' = dialed /\ given' = given
  BY <1>1 DEF QuietInv, Quiet
<1>2. ASSUME NEW c \in Conns, Cut(c)
      PROVE  QuietInv'
  BY <1>1, <1>2 DEF Cut
<1>3. ASSUME NEW n \in Nodes, BanExpires(n)
      PROVE  QuietInv'
  BY <1>1, <1>3 DEF BanExpires
<1> QED
  BY <1>2, <1>3, ConnectNTCPQuiet, HandleConnectQuiet, HandshakeQuiet, MessagesQuiet, EndQuiet DEF NTCPNext

LaneStep(i) ==
  /\ Lane(i)'
  /\ StepOf(Len(given[i]), Waits(i), got[i], Len(given'[i]), Waits(i)', got'[i])

LaneInv ==
  /\ DOMAIN wire = Ids /\ DOMAIN given = Ids /\ DOMAIN got = Ids
  /\ \A i \in Ids : Lane(i)

Stepping ==
  /\ DOMAIN wire' = Ids /\ DOMAIN given' = Ids /\ DOMAIN got' = Ids
  /\ \A i \in Ids : LaneStep(i)

(* Completed messages are numbers.                                          *)
LEMMA CompleteType ==
  ASSUME NEW w \in Seq(WireBlocks)
  PROVE  Complete(w) \in Seq(Nat)
<1>1. [what |-> 0, left |-> 0] \in WireBlocks
  BY DEF WireBlocks
<1> QED
  BY <1>1, CompleteAppend

(* The types of what Lane relates.                                          *)
LEMMA LaneFacts ==
  ASSUME NEW i \in Ids, Lane(i)
  PROVE  /\ Complete(wire[i]) \in Seq(Nat) /\ Len(given[i]) \in Nat
         /\ Elements(sess[i].sendQueue) \in SUBSET Nat
<1>1. Complete(wire[i]) \in Seq(Nat)
  BY CompleteType DEF Lane
<1>2. \A q \in Seq(Messages) : Elements(q) \subseteq Nat
  BY DEF Elements, Messages
<1>3. Len(given[i]) \in Nat
  BY DEF Lane
<1> QED
  BY <1>1, <1>2, <1>3 DEF Lane

(* What waits may be lost besides.                                          *)
LEMMA BothLess ==
  ASSUME NEW s, NEW d, NEW P, NEW n, NEW s1, NEW d1, NEW P1, NEW n1, Both(s, d, P, n, s1, d1, P1, n1),
         NEW d2 \in {d1, <<>>}, NEW P2 \in SUBSET P1
  PROVE  Both(s, d, P, n, s1, d2, P2, n1)
<1>1. Elements(d2) \subseteq Elements(d1) /\ (Increasing(d1) => Increasing(d2))
  BY ElementsEmpty
<1>2. Ordered(s1, d2, P2, n1)
  BY <1>1 DEF Both, Ordered, Older
<1>3. StepOf(n, Elements(d) \cup P, s, n1, Elements(d2) \cup P2, s1)
  BY <1>1 DEF Both, StepOf
<1> QED
  BY <1>2, <1>3 DEF Both

(* A lane's step from what it does to the three sequences.                  *)
LEMMA LaneBoth ==
  ASSUME NEW i \in Ids, Lane(i),
         wire'[i] \in Seq(WireBlocks), sess'[i].sendQueue \in Seq(Messages), Increasing(sess'[i].sendQueue),
         given'[i] \in Seq(Nat), got'[i] \in Seq(Nat),
         Both(got[i], Complete(wire[i]), Elements(sess[i].sendQueue), Len(given[i]),
              got'[i], Complete(wire'[i]), Elements(sess'[i].sendQueue), Len(given'[i]))
  PROVE  LaneStep(i)
<1>1. Ordered(got'[i], Complete(wire'[i]), Elements(sess'[i].sendQueue), Len(given'[i]))
  BY DEF Both
<1>2. Lane(i)'
  BY <1>1 DEF Lane
<1>3. StepOf(Len(given[i]), Waits(i), got[i], Len(given'[i]), Waits(i)', got'[i])
  BY DEF Both, Waits
<1> QED
  BY <1>2, <1>3 DEF LaneStep

(* A lane that is given nothing and hands on nothing.                       *)
Fades(i) ==
  /\ wire'[i] \in Seq(WireBlocks)
  /\ Complete(wire'[i]) \in {Complete(wire[i]), <<>>}
  /\ sess'[i].sendQueue \in {sess[i].sendQueue, <<>>}

(* It is a step of OrderedDelivery that loses all or nothing.               *)
LEMMA LaneFades ==
  ASSUME NEW i \in Ids, Lane(i), given'[i] = given[i], got'[i] = got[i], Fades(i)
  PROVE  LaneStep(i)
<1>1. PICK s, q, q1, d, d1, n : s = got[i] /\ q = sess[i].sendQueue /\ q1 = sess'[i].sendQueue
                            /\ d = Complete(wire[i]) /\ d1 = Complete(wire'[i]) /\ n = Len(given[i])
  OBVIOUS
<1>2. s \in Seq(Nat) /\ d \in Seq(Nat) /\ Elements(q) \in SUBSET Nat /\ n \in Nat
  BY <1>1, LaneFacts DEF Lane
<1>3. d1 \in {d, <<>>} /\ q1 \in {q, <<>>}
  BY <1>1 DEF Fades
<1>4. q \in Seq(Messages) /\ Increasing(q) /\ Ordered(s, d, Elements(q), n)
  BY <1>1 DEF Lane
<1>5. q1 \in Seq(Messages) /\ Increasing(q1) /\ Elements(q1) \in SUBSET Elements(q)
  <2>1. CASE q1 = q
    BY <1>4, <2>1
  <2>2. CASE q1 = <<>>
    BY <2>2, ElementsEmpty
  <2> QED
    BY <1>3, <2>1, <2>2
<1>6. Both(s, d, Elements(q), n, s, d1, Elements(q1), n)
  BY <1>2, <1>3, <1>4, <1>5, Lose
<1>7. wire'[i] \in Seq(WireBlocks)
  BY DEF Fades
<1>8. given'[i] \in Seq(Nat)
  BY DEF Lane
<1> QED
  BY <1>1, <1>2, <1>5, <1>6, <1>7, <1>8, LaneBoth

(* A step that gives and hands on nothing in any lane.                      *)
LEMMA AllFade ==
  ASSUME LaneInv, given' = given, got' = got, DOMAIN wire' = Ids, \A i \in Ids : Fades(i)
  PROVE  Stepping
BY LaneFades DEF LaneInv, Stepping

(* A block that ends no message.                                            *)
LEMMA NoMessage ==
  ASSUME NEW b \in WireBlocks, ~Ends(b)
  PROVE  <<b>> \in Seq(WireBlocks) /\ Complete(<<b>>) = <<>>
<1>1. <<>> \in Seq(WireBlocks) /\ Append(<<>>, b) = <<b>>
  OBVIOUS
<1>2. Complete(Append(<<>>, b)) = Complete(<<>>)
  BY <1>1, CompleteAppend
<1>3. <<b>> \in Seq(WireBlocks)
  OBVIOUS
<1> QED
  BY <1>1, <1>2, <1>3, CompleteEmpty

(* The handshake's blocks end no message.                                   *)
LEMMA PhaseBlocks ==
  /\ \A p \in 1..4 : Phase(p) \in WireBlocks /\ ~Ends(Phase(p))
  /\ PhaseExtra \in WireBlocks /\ ~Ends(PhaseExtra)
  /\ TimeSync \in WireBlocks /\ ~Ends(TimeSync)
BY DEF Phase, PhaseExtra, TimeSync, Block, WireBlocks, Ends, IsMessage

Wordless(blocks) == blocks \in Seq(WireBlocks) /\ Complete(blocks) = <<>>

(* So none of what the handshake writes holds one.                          *)
LEMMA WordlessBlocks ==
  /\ Wordless(<<>>) /\ Wordless(<<TimeSync>>)
  /\ \A p \in 1..4 : Wordless(<<Phase(p)>>) /\ Wordless(<<Phase(p)>> \o <<PhaseExtra>>)
                     /\ Wordless(<<Phase(p)>> \o <<>>)
<1>1. Wordless(<<>>)
  BY CompleteEmpty DEF Wordless
<1>2. Wordless(<<TimeSync>>) /\ Wordless(<<PhaseExtra>>) /\ \A p \in 1..4 : Wordless(<<Phase(p)>>)
  BY NoMessage, PhaseBlocks DEF Wordless
<1>3. <<>> \o <<>> = <<>>
  OBVIOUS
<1>4. ASSUME NEW u, NEW v, Wordless(u), Wordless(v)
      PROVE  Wordless(u \o v)
  <2>1. u \o v \in Seq(WireBlocks)
    BY <1>4 DEF Wordless
  <2>2. Complete(u \o v) = <<>> \o <<>>
    BY <1>4, CompleteConcat DEF Wordless
  <2> QED
    BY <1>3, <2>1, <2>2 DEF Wordless
<1> QED
  BY <1>1, <1>2, <1>4

(* What a step does to the wire where nothing is given or handed on.        *)
Still(w, w1) == w1 \in Seq(WireBlocks) /\ Complete(w1) \in {Complete(w), <<>>}

(* Such blocks are written, or all is lost.                                 *)
LEMMA StillWrite ==
  ASSUME NEW w \in Seq(WireBlocks), NEW blocks, Wordless(blocks)
  PROVE  Still(w, w \o blocks) /\ Still(w, w) /\ Still(w, <<>>)
<1>1. Complete(w) \in Seq(Nat) /\ blocks \in Seq(WireBlocks)
  BY CompleteType DEF Wordless
<1>2. Complete(w \o blocks) = Complete(w) \o <<>>
  BY CompleteConcat DEF Wordless
<1>3. Complete(w) \o <<>> = Complete(w)
  BY <1>1
<1>4. w \o blocks \in Seq(WireBlocks) /\ <<>> \in Seq(WireBlocks)
  BY <1>1
<1> QED
  BY <1>2, <1>3, <1>4, CompleteEmpty DEF Still

(* A block that ends no message is read.                                    *)
LEMMA StillRead ==
  ASSUME NEW w \in Seq(WireBlocks), w # <<>>, ~Ends(Head(w))
  PROVE  Still(w, Tail(w))
<1>0. Head(w) \in WireBlocks /\ Tail(w) \in Seq(WireBlocks) /\ w = <<Head(w)>> \o Tail(w)
  OBVIOUS
<1>1. PICK b \in WireBlocks : b = Head(w)
  BY <1>0
<1>9. PICK v \in Seq(WireBlocks) : v = Tail(w)
  BY <1>0
<1>2. w = <<b>> \o v
  BY <1>0, <1>1, <1>9
<1>3. <<b>> \in Seq(WireBlocks) /\ Complete(<<b>>) = <<>>
  BY <1>1, NoMessage
<1>4. Complete(w) = <<>> \o Complete(v) /\ Complete(v) \in Seq(Nat)
  BY <1>2, <1>3, CompleteConcat, CompleteType
<1>5. <<>> \o Complete(v) = Complete(v)
  BY <1>4
<1> QED
  BY <1>4, <1>5, <1>9 DEF Still

(* What one session's lane may do.                                          *)
LEMMA Lengthened ==
  ASSUME NEW q \in Seq(Nat), NEW m \in Nat, Increasing(q), Older(Elements(q), {m})
  PROVE  Increasing(Append(q, m)) /\ Elements(Append(q, m)) = Elements(q) \cup {m}
<1> DEFINE t == Append(q, m)
<1>1. /\ t \in Seq(Nat) /\ Len(q) <= Len(t) /\ \A k \in 1..Len(q) : t[k] = q[k]
      /\ \A j, k \in New(q, t) : j < k => t[j] < t[k]
      /\ Out(q, t) = {m}
  BY Appended
<1> HIDE DEF t
<1>2. Increasing(t) /\ Elements(t) = Elements(q) \cup {m}
  BY <1>1, Extended
<1> QED
  BY <1>2 DEF t

(* The messages of two sequences behind each other.                         *)
LEMMA ElementsConcat ==
  ASSUME NEW c \in Seq(Nat), NEW e \in Seq(Nat)
  PROVE  Elements(c \o e) = Elements(c) \cup Elements(e)
<1>0. PICK t : t = c \o e
  OBVIOUS
<1>1. PICK a \in Nat, b \in Nat : a = Len(c) /\ b = Len(e)
  OBVIOUS
<1>2. /\ Len(t) = a + b
      /\ \A k \in 1..a : t[k] = c[k]
      /\ \A k \in 1..b : t[a + k] = e[k]
  BY <1>0, <1>1
<1>3. \A k \in 1..a + b : k \in 1..a \/ (k - a \in 1..b /\ a + (k - a) = k)
  OBVIOUS
<1>4. (\A k \in 1..a : k \in 1..a + b) /\ (\A k \in 1..b : a + k \in 1..a + b)
  OBVIOUS
<1>5. \A x \in Elements(t) : x \in Elements(c) \cup Elements(e)
  <2> SUFFICES ASSUME NEW k \in 1..a + b PROVE t[k] \in Elements(c) \cup Elements(e)
    BY <1>2 DEF Elements
  <2>1. CASE k \in 1..a
    BY <1>1, <1>2, <2>1 DEF Elements
  <2>2. CASE k - a \in 1..b /\ a + (k - a) = k
    <3>1. t[k] = e[k - a]
      BY <1>2, <2>2
    <3> QED
      BY <1>1, <2>2, <3>1 DEF Elements
  <2> QED
    BY <1>3, <2>1, <2>2
<1>6. ASSUME NEW k \in 1..a
      PROVE  c[k] \in Elements(t)
  <2>1. k \in 1..Len(t) /\ t[k] = c[k]
    BY <1>2, <1>4
  <2> QED
    BY <2>1 DEF Elements
<1>7. ASSUME NEW k \in 1..b
      PROVE  e[k] \in Elements(t)
  <2>1. a + k \in 1..Len(t) /\ t[a + k] = e[k]
    BY <1>2, <1>4
  <2> QED
    BY <2>1 DEF Elements
<1>8. Elements(c) \cup Elements(e) \subseteq Elements(t)
  BY <1>1, <1>6, <1>7 DEF Elements
<1> QED
  BY <1>0, <1>5, <1>8

(* They are in order if all of the first are older.                         *)
LEMMA IncreasingConcat ==
  ASSUME NEW c \in Seq(Nat), NEW e \in Seq(Nat), Increasing(c \o e)
  PROVE  Increasing(c) /\ Increasing(e) /\ Older(Elements(c), Elements(e))
<1>0. PICK t : t = c \o e
  OBVIOUS
<1>1. PICK a \in Nat, b \in Nat : a = Len(c) /\ b = Len(e)
  OBVIOUS
<1>2. /\ Len(t) = a + b
      /\ \A k \in 1..a : t[k] = c[k]
      /\ \A k \in 1..b : t[a + k] = e[k]
  BY <1>0, <1>1
<1>3. \A j, k \in 1..a + b : j < k => t[j] < t[k]
  BY <1>0, <1>2 DEF Increasing
<1>4. /\ \A k \in 1..a : k \in 1..a + b
      /\ \A k \in 1..b : a + k \in 1..a + b
      /\ \A j, k \in 1..b : j < k => a + j < a + k
      /\ \A j \in 1..a, k \in 1..b : j < a + k
  OBVIOUS
<1>5. Increasing(c) /\ Increasing(e)
  BY <1>1, <1>2, <1>3, <1>4 DEF Increasing
<1>6. \A j \in 1..a, k \in 1..b : c[j] < e[k]
  BY <1>2, <1>3, <1>4
<1> QED
  BY <1>1, <1>5, <1>6 DEF Older, Elements

(* A message joins the send queue.                                          *)
LEMMA LaneQueues ==
  ASSUME NEW i \in Ids, Lane(i), NEW m \in Messages, m = Len(given[i]) + 1, given'[i] = Append(given[i], m),
         got'[i] = got[i], Still(wire[i], wire'[i]), sess'[i].sendQueue = Append(sess[i].sendQueue, m)
  PROVE  LaneStep(i)
<1>1. PICK s, q, q1, d, d1, n : s = got[i] /\ q = sess[i].sendQueue /\ q1 = sess'[i].sendQueue
                            /\ d = Complete(wire[i]) /\ d1 = Complete(wire'[i]) /\ n = Len(given[i])
  OBVIOUS
<1>2. s \in Seq(Nat) /\ d \in Seq(Nat) /\ Elements(q) \in SUBSET Nat /\ n \in Nat
  BY <1>1, LaneFacts DEF Lane
<1>3. q \in Seq(Messages) /\ Increasing(q) /\ Ordered(s, d, Elements(q), n)
  BY <1>1 DEF Lane
<1>4. Both(s, d, Elements(q), n, s, d, Elements(q) \cup {n + 1}, n + 1)
  BY <1>2, <1>3, Accept
<1>20. given'[i] \in Seq(Nat) /\ Len(given'[i]) = m
  BY <1>1 DEF Lane, Messages
<1>5. Elements(q) \subseteq 1..n
  BY <1>3 DEF Ordered
<1>6. Older(Elements(q), {m}) /\ m \in Nat /\ q \in Seq(Nat) /\ m = n + 1
  BY <1>1, <1>2, <1>3, <1>5 DEF Older, Messages
<1>7. Increasing(q1) /\ Elements(q1) = Elements(q) \cup {n + 1} /\ q1 \in Seq(Messages)
  <2>1. q1 = Append(q, m)
    BY <1>1
  <2>2. Increasing(q1) /\ Elements(q1) = Elements(q) \cup {m}
    BY <1>3, <1>6, <2>1, Lengthened
  <2>3. q1 \in Seq(Messages)
    BY <1>3, <2>1
  <2> QED
    BY <1>6, <2>2, <2>3
<1>8. d1 \in {d, <<>>} /\ wire'[i] \in Seq(WireBlocks)
  BY <1>1 DEF Still
<1>9. Both(s, d, Elements(q), n, s, d1, Elements(q1), n + 1)
  <2>1. Elements(q1) \in SUBSET (Elements(q) \cup {n + 1})
    BY <1>7
  <2> QED
    BY <1>4, <1>8, <2>1, BothLess
<1> QED
  BY <1>1, <1>2, <1>6, <1>7, <1>8, <1>9, <1>20, LaneBoth

(* A message is written at once, or lost.                                   *)
LEMMA LaneWrites ==
  ASSUME NEW i \in Ids, Lane(i), NEW m \in Messages, m = Len(given[i]) + 1, given'[i] = Append(given[i], m),
         got'[i] = got[i], sess'[i].sendQueue = sess[i].sendQueue,
         \/ wire'[i] = wire[i]
         \/ sess[i].sendQueue = <<>> /\ wire'[i] = wire[i] \o CreateMsgBuffer(m)
  PROVE  LaneStep(i)
<1>1. PICK s, q, d, d1, n : s = got[i] /\ q = sess[i].sendQueue
                            /\ d = Complete(wire[i]) /\ d1 = Complete(wire'[i]) /\ n = Len(given[i])
  OBVIOUS
<1>2. s \in Seq(Nat) /\ d \in Seq(Nat) /\ Elements(q) \in SUBSET Nat /\ n \in Nat
  BY <1>1, LaneFacts DEF Lane
<1>3. q \in Seq(Messages) /\ Increasing(q) /\ Ordered(s, d, Elements(q), n) /\ wire[i] \in Seq(WireBlocks)
  BY <1>1 DEF Lane
<1>4. Both(s, d, Elements(q), n, s, d, Elements(q) \cup {n + 1}, n + 1)
  BY <1>2, <1>3, Accept
<1>5. m = n + 1 /\ m \in Nat
  BY <1>1 DEF Messages
<1>20. given'[i] \in Seq(Nat) /\ Len(given'[i]) = m
  BY <1>1, <1>5 DEF Lane
<1>6. CASE wire'[i] = wire[i]
  <2>1. Both(s, d, Elements(q), n, s, d, Elements(q), n + 1)
    BY <1>4, BothLess
  <2> QED
    BY <1>1, <1>2, <1>3, <1>5, <1>6, <1>20, <2>1, LaneBoth
<1>7. CASE q = <<>> /\ wire'[i] = wire[i] \o CreateMsgBuffer(m)
  <2>0. PICK w, v : w = wire[i] /\ v = CreateMsgBuffer(m)
    OBVIOUS
  <2>9. w \in Seq(WireBlocks) /\ v \in Seq(WireBlocks) /\ Complete(v) = <<m>>
    BY <1>3, <2>0, MessageBlocks
  <2>10. w \o v \in Seq(WireBlocks) /\ Complete(w \o v) = Complete(w) \o <<m>>
    <3>1. w \o v \in Seq(WireBlocks)
      BY <2>9
    <3>2. Complete(w \o v) = Complete(w) \o Complete(v)
      BY <2>9, CompleteConcat
    <3> QED
      BY <2>9, <3>1, <3>2
  <2>1. wire'[i] \in Seq(WireBlocks) /\ d1 = d \o <<m>>
    BY <1>1, <1>7, <2>0, <2>10
  <2>2. d1 = Append(d, m)
    BY <1>2, <1>5, <2>1
  <2>3. Elements(q) = {}
    BY <1>7, ElementsEmpty
  <2>4. Ordered(s, d, {} \cup {m}, n + 1) /\ StepOf(n, Elements(d) \cup {}, s, n + 1, Elements(d) \cup ({} \cup {m}), s)
    BY <1>4, <1>5, <2>3 DEF Both
  <2>5. Older({m}, {})
    BY DEF Older
  <2>6. Ordered(s, d1, {}, n + 1)
    BY <1>2, <1>5, <2>2, <2>4, <2>5, Delay DEF Both
  <2>7. Elements(d1) = Elements(d) \cup {m}
    <3>1. Increasing(d) /\ Older(Elements(d), {m})
      BY <2>4 DEF Ordered, Older
    <3> QED
      BY <1>2, <1>5, <2>2, <3>1, Lengthened
  <2>8. Both(s, d, Elements(q), n, s, d1, Elements(q), n + 1)
    BY <2>3, <2>4, <2>6, <2>7 DEF Both
  <2> QED
    BY <1>1, <1>2, <1>3, <1>5, <1>20, <2>1, <2>8, LaneBoth
<1> QED
  BY <1>1, <1>6, <1>7

(* The send queue is written behind what is on the wire, or lost.           *)
LEMMA LaneSends ==
  ASSUME NEW i \in Ids, Lane(i), given'[i] = given[i], got'[i] = got[i], sess'[i].sendQueue = <<>>,
         wire'[i] \in {wire[i], wire[i] \o Frames(sess[i].sendQueue)}
  PROVE  LaneStep(i)
<1>1. CASE wire'[i] = wire[i]
  BY <1>1, LaneFades DEF Fades, Lane
<1>2. CASE wire'[i] = wire[i] \o Frames(sess[i].sendQueue)
  <2>1. PICK s, q, d, d1, n : s = got[i] /\ q = sess[i].sendQueue
                              /\ d = Complete(wire[i]) /\ d1 = Complete(wire'[i]) /\ n = Len(given[i])
    OBVIOUS
  <2>2. s \in Seq(Nat) /\ d \in Seq(Nat) /\ Elements(q) \in SUBSET Nat /\ n \in Nat
    BY <2>1, LaneFacts DEF Lane
  <2>3. q \in Seq(Messages) /\ Increasing(q) /\ Ordered(s, d, Elements(q), n) /\ wire[i] \in Seq(WireBlocks)
    BY <2>1 DEF Lane
  <2>0. PICK w, v : w = wire[i] /\ v = Frames(q)
    OBVIOUS
  <2>11. w \in Seq(WireBlocks) /\ v \in Seq(WireBlocks) /\ Complete(v) = q
    BY <2>0, <2>3, FramesComplete
  <2>12. w \o v \in Seq(WireBlocks) /\ Complete(w \o v) = Complete(w) \o q
    BY <2>11, CompleteConcat
  <2>4. wire'[i] \in Seq(WireBlocks) /\ d1 = d \o q
    BY <1>2, <2>0, <2>1, <2>12
  <2>5. q \in Seq(Nat)
    BY <2>3 DEF Messages
  <2>6. Increasing(d1) /\ Elements(d1) = Elements(d) \cup Elements(q)
    <3>1. Increasing(d) /\ Older(Elements(d), Elements(q)) /\ Elements(d) \subseteq 1..n /\ Elements(q) \subseteq 1..n
      BY <2>3 DEF Ordered
    <3>2. Ordered(d, q, {}, n)
      BY <2>3, <3>1 DEF Ordered, Older
    <3>3. Both(d, q, {}, n, d \o q, <<>>, {}, n)
      BY <2>2, <2>5, <3>2, Flush
    <3>4. Increasing(d1)
      BY <2>4, <3>3 DEF Both, Ordered
    <3>5. Elements(d1) = Elements(d) \cup Elements(q)
      BY <2>2, <2>4, <2>5, ElementsConcat
    <3> QED
      BY <3>4, <3>5
  <2>7. Ordered(s, d1, {}, n)
    BY <2>3, <2>6 DEF Ordered, Older
  <2>8. StepOf(n, Elements(d) \cup Elements(q), s, n, Elements(d1) \cup {}, s)
    BY <2>2, <2>6, NothingNew, StepIf
  <2>9. Both(s, d, Elements(q), n, s, d1, {}, n)
    BY <2>7, <2>8 DEF Both
  <2>13. given'[i] \in Seq(Nat)
    BY DEF Lane
  <2>10. Elements(<<>>) = {} /\ Increasing(<<>>) /\ <<>> \in Seq(Messages)
    BY ElementsEmpty
  <2> QED
    BY <2>1, <2>2, <2>4, <2>9, <2>10, <2>13, LaneBoth
<1> QED
  BY <1>1, <1>2

(* The messages that end in the blocks that were read are handed on.        *)
LEMMA LaneHands ==
  ASSUME NEW i \in Ids, Lane(i), given'[i] = given[i], sess'[i].sendQueue = sess[i].sendQueue,
         NEW g \in Seq(WireBlocks), NEW r \in Seq(WireBlocks), wire[i] = g \o r,
         got'[i] = got[i] \o Complete(g), wire'[i] \in {r, <<>>}
  PROVE  LaneStep(i)
<1>1. PICK s, q, c, e, e1, n : s = got[i] /\ q = sess[i].sendQueue /\ c = Complete(g) /\ e = Complete(r)
                            /\ e1 = Complete(wire'[i]) /\ n = Len(given[i])
  OBVIOUS
<1>2. PICK P : P = Elements(q)
  OBVIOUS
<1>3. s \in Seq(Nat) /\ c \in Seq(Nat) /\ e \in Seq(Nat) /\ P \in SUBSET Nat /\ n \in Nat
  BY <1>1, <1>2, LaneFacts, CompleteType DEF Lane
<1>4. Complete(wire[i]) = c \o e
  BY <1>1, CompleteConcat
<1>5. q \in Seq(Messages) /\ Increasing(q) /\ Ordered(s, c \o e, P, n)
  BY <1>1, <1>2, <1>4 DEF Lane
<1>6. PICK E : E = Elements(e) \cup P
  OBVIOUS
<1>7. /\ Elements(c \o e) = Elements(c) \cup Elements(e)
      /\ Increasing(c) /\ Increasing(e) /\ Older(Elements(c), Elements(e))
  BY <1>3, <1>5, ElementsConcat, IncreasingConcat DEF Ordered
<1>8. Ordered(s, c, E, n) /\ E \in SUBSET Nat
  <2>1. Elements(e) \subseteq 1..n
    BY <1>5, <1>7 DEF Ordered
  <2> QED
    BY <1>3, <1>5, <1>6, <1>7, <2>1 DEF Ordered, Older
<1>9. Both(s, c, E, n, s \o c, <<>>, E, n)
  BY <1>3, <1>8, Flush
<1>10. Ordered(s \o c, e, P, n)
  BY <1>3, <1>5, <1>6, <1>7, <1>9, ElementsConcat, ElementsEmpty DEF Both, Ordered, Older
<1>11. StepOf(n, Elements(c \o e) \cup P, s, n, Elements(e) \cup P, s \o c)
  <2>1. Elements(c) \cup E = Elements(c \o e) \cup P /\ Elements(<<>>) \cup E = Elements(e) \cup P
    BY <1>6, <1>7, ElementsEmpty
  <2> QED
    BY <1>9, <2>1 DEF Both
<1>12. Both(s, c \o e, P, n, s \o c, e, P, n)
  BY <1>10, <1>11 DEF Both
<1>13. e1 \in {e, <<>>} /\ wire'[i] \in Seq(WireBlocks)
  <2>1. <<>> \in Seq(WireBlocks)
    OBVIOUS
  <2>2. CASE wire'[i] = r
    BY <1>1, <2>2
  <2>3. CASE wire'[i] = <<>>
    BY <1>1, <2>1, <2>3, CompleteEmpty
  <2> QED
    BY <2>2, <2>3
<1>14. Both(s, c \o e, P, n, s \o c, e1, P, n)
  BY <1>12, <1>13, BothLess
<1>15. s \o c \in Seq(Nat) /\ given'[i] \in Seq(Nat)
  BY <1>3 DEF Lane
<1> QED
  BY <1>1, <1>2, <1>3, <1>4, <1>5, <1>13, <1>14, <1>15, LaneBoth

(* What a step does to all the queues and all the wires.                    *)
QueuesStill == \A j \in Ids : sess'[j].sendQueue \in {sess[j].sendQueue, <<>>}
WiresStill == DOMAIN wire' = Ids /\ \A j \in Ids : Still(wire[j], wire'[j])

(* Then every lane keeps what waits or loses it.                            *)
LEMMA StillFades ==
  ASSUME LaneInv, given' = given, got' = got, QueuesStill, WiresStill
  PROVE  Stepping
BY AllFade DEF QueuesStill, WiresStill, Fades, Still

(* Nothing is read or written; a wire is emptied; a session writes; it      *)
(* reads one block and writes.                                              *)
LEMMA WiresSame ==
  ASSUME LaneInv, wire' = wire
  PROVE  WiresStill
<1>1. \A j \in Ids : wire[j] \in Seq(WireBlocks)
  BY DEF LaneInv, Lane
<1> QED
  BY <1>1, StillWrite, WordlessBlocks DEF WiresStill, LaneInv

LEMMA WireEmptied ==
  ASSUME LaneInv, NEW i \in Ids, wire' = [wire EXCEPT ![i] = <<>>]
  PROVE  WiresStill
<1>1. \A j \in Ids : wire[j] \in Seq(WireBlocks)
  BY DEF LaneInv, Lane
<1>2. DOMAIN wire' = Ids /\ \A j \in Ids : wire'[j] = <<>> \/ wire'[j] = wire[j]
  BY DEF LaneInv
<1> QED
  BY <1>1, <1>2, StillWrite, WordlessBlocks DEF WiresStill

LEMMA WriteStill ==
  ASSUME LaneInv, NEW i \in Ids, NEW blocks, Wordless(blocks), Write(i, blocks)
  PROVE  WiresStill
<1>1. \A j \in Ids : wire[j] \in Seq(WireBlocks)
  BY DEF LaneInv, Lane
<1>2. DOMAIN wire' = Ids /\ \A j \in Ids : wire'[j] = wire[j] \o blocks \/ wire'[j] = wire[j]
  BY DEF LaneInv, Write
<1> QED
  BY <1>1, <1>2, StillWrite DEF WiresStill

LEMMA ReadWriteStill ==
  ASSUME LaneInv, NEW i \in Ids, NEW op, NEW b \in WireBlocks, ~Ends(b), Arrived(i, op, b),
         NEW blocks, Wordless(blocks), ReadWrite(i, blocks)
  PROVE  WiresStill
<1>1. \A j \in Ids : wire[j] \in Seq(WireBlocks)
  BY DEF LaneInv, Lane
<1>2. Peer(i) \in Ids /\ Peer(i) # i
  BY PeerFacts
<1>3. wire[Peer(i)] # <<>> /\ ~Ends(Head(wire[Peer(i)]))
  BY DEF Arrived
<1>4. /\ DOMAIN wire' = Ids
      /\ wire'[Peer(i)] \in {Tail(wire[Peer(i)]), <<>>}
      /\ wire'[i] \in {wire[i], wire[i] \o blocks}
      /\ \A j \in Ids \ {i, Peer(i)} : wire'[j] = wire[j]
  BY <1>2 DEF LaneInv, ReadWrite
<1>5. Still(wire[Peer(i)], wire'[Peer(i)])
  BY <1>1, <1>2, <1>3, <1>4, StillRead, StillWrite, WordlessBlocks
<1>6. Still(wire[i], wire'[i])
  BY <1>1, <1>4, StillWrite
<1>7. \A j \in Ids \ {i, Peer(i)} : Still(wire[j], wire'[j])
  BY <1>1, <1>4, StillWrite, WordlessBlocks
<1> QED
  BY <1>4, <1>5, <1>6, <1>7 DEF WiresStill

(* One session changes and keeps its queue.                                 *)
LEMMA SetStill ==
  ASSUME NTCPInv, NEW i \in Ids, NEW s, Set(i, s), s.sendQueue \in {sess[i].sendQueue, <<>>}
  PROVE  QueuesStill
BY DEF NTCPInv, Set, QueuesStill

LEMMA OpStill ==
  ASSUME NTCPInv, NEW i \in Ids, NEW op, Op(i, op)
  PROVE  QueuesStill
<1>1. PICK s, t : s = sess[i] /\ t = [s EXCEPT !.op = op]
  OBVIOUS
<1>2. Fine(i, s, dialed)
  BY <1>1 DEF NTCPInv
<1>3. t.sendQueue = s.sendQueue /\ Set(i, t)
  BY <1>1, <1>2 DEF Fine, Op
<1> QED
  BY <1>1, <1>3, SetStill

LEMMA TerminateStill ==
  ASSUME NTCPInv, LaneInv, NEW i \in Ids, NEW s, Terminate(i, s), given' = given, got' = got
  PROVE  Stepping
<1>1. PICK c : c = ClosedSession(s)
  OBVIOUS
<1>2. c.sendQueue = <<>> /\ Set(i, c)
  BY <1>1, ClosedFacts DEF Terminate, Set
<1>3. QueuesStill
  BY <1>2, SetStill
<1>4. WiresStill
  BY PeerFacts, WireEmptied DEF Terminate
<1> QED
  BY <1>3, <1>4, StillFades

(* The handshake gives and hands on nothing.                                *)
LEMMA ConnectNTCPLanes ==
  ASSUME NTCPInv, LaneInv, NEW c \in Conns, ConnectNTCP(c)
  PROVE  Stepping
<1>1. PICK i, n : i = <<c, "client">> /\ n = [NewSession("connect") EXCEPT !.ident = TRUE]
  OBVIOUS
<1>2. i \in Ids /\ n.sendQueue = <<>> /\ Set(i, n)
  BY <1>1 DEF Ids, NewSession, ConnectNTCP
<1>3. wire' = wire /\ given' = given /\ got' = got
  BY DEF ConnectNTCP
<1> QED
  BY <1>2, <1>3, SetStill, WiresSame, StillFades

LEMMA HandleConnectLanes ==
  ASSUME NTCPInv, LaneInv, NEW i \in Ids, HandleConnect(i)
  PROVE  Stepping
<1>1. given' = given /\ got' = got
  BY DEF HandleConnect
<1>2. CASE Terminate(i, [sess[i] EXCEPT !.op = "none"])
  BY <1>1, <1>2, TerminateStill
<1>3. CASE /\ sess' = [sess EXCEPT ![i] = ScheduleTermination([@ EXCEPT !.op = "r2"]),
                                ![Peer(i)] = NewSession("accept")]
           /\ wire' = [wire EXCEPT ![i] = <<Phase(1)>>]
  <2>1. PICK t, n : t = ScheduleTermination([sess[i] EXCEPT !.op = "r2"]) /\ n = NewSession("accept")
    OBVIOUS
  <2>2. /\ sess'[i] = t /\ sess'[Peer(i)] = n
        /\ \A j \in Ids \ {i, Peer(i)} : sess'[j] = sess[j]
    BY <1>3, <2>1, PeerFacts DEF NTCPInv
  <2>3. t.sendQueue = sess[i].sendQueue /\ n.sendQueue = <<>>
    <3>1. Fine(i, sess[i], dialed)
      BY DEF NTCPInv
    <3> QED
      BY <2>1, <3>1 DEF ScheduleTermination, NewSession, Fine
  <2>4. QueuesStill
    BY <2>2, <2>3 DEF QueuesStill
  <2>5. DOMAIN wire' = Ids /\ wire'[i] = <<Phase(1)>> /\ \A j \in Ids \ {i} : wire'[j] = wire[j]
    BY <1>3 DEF LaneInv
  <2>6. \A j \in Ids : wire[j] \in Seq(WireBlocks)
    BY DEF LaneInv, Lane
  <2>7. Wordless(<<Phase(1)>>)
    BY WordlessBlocks
  <2>8. WiresStill
    BY <2>5, <2>6, <2>7, StillWrite DEF WiresStill, Still, Wordless
  <2> QED
    BY <1>1, <2>4, <2>8, StillFades
<1> QED
  BY <1>2, <1>3 DEF HandleConnect

LEMMA HandleAcceptLanes ==
  ASSUME NTCPInv, LaneInv, NEW i \in Ids, HandleAccept(i)
  PROVE  Stepping
<1>1. PICK s : s = sess[i]
  OBVIOUS
<1>2. PICK t, u : /\ t = [s EXCEPT !.op = "none", !.open = FALSE]
                  /\ u = ScheduleTermination([s EXCEPT !.op = "r1"])
  OBVIOUS
<1>3. Fine(i, s, dialed)
  BY <1>1 DEF NTCPInv
<1>4. t.sendQueue = s.sendQueue /\ u.sendQueue = s.sendQueue
  BY <1>2, <1>3 DEF Fine, ScheduleTermination
<1>5. /\ Set(i, t) \/ Set(i, u)
      /\ wire' = [wire EXCEPT ![Peer(i)] = <<>>] \/ wire' = wire
      /\ given' = given /\ got' = got
  BY <1>1, <1>2 DEF HandleAccept
<1>6. QueuesStill
  BY <1>1, <1>4, <1>5, SetStill
<1>7. WiresStill
  BY <1>5, PeerFacts, WireEmptied, WiresSame
<1> QED
  BY <1>5, <1>6, <1>7, StillFades

LEMMA PhasesLanes ==
  ASSUME NTCPInv, LaneInv, NEW i \in Ids,
         HandlePhase1Received(i) \/ HandlePhase2Received(i) \/ HandlePhase3ExtraReceived(i)
  PROVE  Stepping
<1>1. given' = given /\ got' = got /\ \E op : Op(i, op)
  BY DEF HandlePhase1Received, HandlePhase2Received, HandlePhase3ExtraReceived
<1>2. QueuesStill
  BY <1>1, OpStill
<1>3. \E op, b, blocks : Arrived(i, op, b) /\ ReadWrite(i, blocks) /\ b \in WireBlocks /\ ~Ends(b)
                         /\ Wordless(blocks)
  <2>1. CASE HandlePhase1Received(i)
    BY <2>1, PhaseBlocks, WordlessBlocks DEF HandlePhase1Received
  <2>2. CASE HandlePhase2Received(i)
    <3>1. PICK blocks : blocks = <<Phase(3)>> \o (IF Owner(i) \in LongIdents THEN <<PhaseExtra>> ELSE <<>>)
      OBVIOUS
    <3>2. Wordless(blocks)
      <4>1. blocks \in {<<Phase(3)>> \o <<PhaseExtra>>, <<Phase(3)>> \o <<>>}
        BY <3>1
      <4>2. 3 \in 1..4
        OBVIOUS
      <4> QED
        BY <4>1, <4>2, WordlessBlocks
    <3> QED
      BY <2>2, <3>1, <3>2, PhaseBlocks DEF HandlePhase2Received
  <2>3. CASE HandlePhase3ExtraReceived(i)
    BY <2>3, PhaseBlocks, WordlessBlocks DEF HandlePhase3ExtraReceived
  <2> QED
    BY <2>1, <2>2, <2>3
<1>4. WiresStill
  BY <1>3, ReadWriteStill
<1> QED
  BY <1>1, <1>2, <1>4, StillFades

LEMMA Phase3Lanes ==
  ASSUME NTCPInv, LaneInv, NEW i \in Ids, HandlePhase3Received(i)
  PROVE  Stepping
<1>1. PICK s : s = sess[i]
  OBVIOUS
<1>2. PICK op \in {"r3x", "w4"} : op = IF Dialer[i[1]] \in LongIdents THEN "r3x" ELSE "w4"
  OBVIOUS
<1>3. PICK t : t = [s EXCEPT !.ident = TRUE, !.op = op]
  OBVIOUS
<1>4. PICK c : c = ClosedSession(t)
  OBVIOUS
<1>5. Fine(i, s, dialed)
  BY <1>1 DEF NTCPInv
<1>6. t.sendQueue = s.sendQueue /\ c.sendQueue = <<>>
  BY <1>3, <1>4, <1>5, ClosedFacts DEF Fine
<1>7. given' = given /\ got' = got /\ Arrived(i, "r3", Phase(3))
  BY DEF HandlePhase3Received
<1>8. \/ Set(i, c) /\ wire' = [wire EXCEPT ![Peer(i)] = <<>>]
      \/ Set(i, t) /\ ReadWrite(i, IF t.op = "w4" THEN <<Phase(4)>> ELSE <<>>)
  BY <1>1, <1>2, <1>3, <1>4 DEF HandlePhase3Received
<1>9. QueuesStill
  BY <1>1, <1>6, <1>8, SetStill
<1>10. Wordless(IF t.op = "w4" THEN <<Phase(4)>> ELSE <<>>)
  BY WordlessBlocks
<1>11. Phase(3) \in WireBlocks /\ ~Ends(Phase(3))
  BY PhaseBlocks
<1>12. WiresStill
  BY <1>7, <1>8, <1>10, <1>11, PeerFacts, WireEmptied, ReadWriteStill
<1> QED
  BY <1>7, <1>9, <1>12, StillFades

(* Nor do the steps that end a session, but they may empty its lane.        *)
LEMMA TerminatingLanes ==
  ASSUME NTCPInv, LaneInv, NEW i \in Ids,
         PhaseRefused(i) \/ PhaseFailed(i) \/ Aborted(i) \/ ReceiveFailed(i) \/ NTCPDone(i)
  PROVE  Stepping
<1>1. given' = given /\ got' = got
  BY DEF PhaseRefused, PhaseFailed, Aborted, ReceiveFailed, NTCPDone
<1>2. CASE \E s : Terminate(i, s)
  BY <1>1, <1>2, TerminateStill
<1>3. CASE Op(i, "none") /\ wire' = wire
  BY <1>1, <1>3, OpStill, WiresSame, StillFades
<1> QED
  BY <1>2, <1>3 DEF PhaseRefused, PhaseFailed, Aborted, ReceiveFailed, NTCPDone

LEMMA TimerLanes ==
  ASSUME NTCPInv, LaneInv, NEW i \in Ids, HandleTerminationTimer(i)
  PROVE  Stepping
<1>1. PICK s, t : s = sess[i] /\ t = [s EXCEPT !.open = FALSE, !.timer = FALSE]
  OBVIOUS
<1>2. Fine(i, s, dialed)
  BY <1>1 DEF NTCPInv
<1>3. t.sendQueue = s.sendQueue
  BY <1>1, <1>2 DEF Fine
<1>4. /\ Set(i, t) /\ wire' = [wire EXCEPT ![Peer(i)] = <<>>]
      /\ given' = given /\ got' = got
  BY <1>1 DEF HandleTerminationTimer
<1>5. QueuesStill
  BY <1>1, <1>3, <1>4, SetStill
<1>6. WiresStill
  BY <1>4, PeerFacts, WireEmptied
<1> QED
  BY <1>4, <1>5, <1>6, StillFades

(* A step that gives session i a message leaves the other lanes alone.      *)
LEMMA OthersFade ==
  ASSUME NTCPInv, LaneInv, NEW i \in Ids, NEW s, Set(i, s), WiresStill, got' = got,
         DOMAIN given' = Ids, \A j \in Ids \ {i} : given'[j] = given[j],
         LaneStep(i)
  PROVE  Stepping
<1>1. \A j \in Ids \ {i} : sess'[j] = sess[j]
  BY DEF Set, NTCPInv
<1>2. \A j \in Ids \ {i} : Fades(j)
  BY <1>1 DEF Fades, WiresStill, Still
<1>3. \A j \in Ids \ {i} : LaneStep(j)
  BY <1>2, LaneFades DEF LaneInv
<1> QED
  BY <1>3 DEF Stepping, WiresStill, LaneInv

(* An established session is given our router info.                         *)
LEMMA ConnectedLanes ==
  ASSUME NTCPInv, QuietInv, LaneInv, NEW i \in Ids, HandlePhase4Sent(i) \/ HandlePhase4Received(i)
  PROVE  Stepping
<1>1. PICK s, t : s = sess[i] /\ t = [s EXCEPT !.established = TRUE, !.op = "recv", !.sending = TRUE,
                                               !.sendQueue = Append(@, DbStore)]
  OBVIOUS
<1>2. Fine(i, s, dialed) /\ Lane(i)
  BY <1>1 DEF NTCPInv, LaneInv
<1>3. t.sendQueue = Append(s.sendQueue, DbStore)
  BY <1>1, <1>2 DEF Fine
<1>4. Set(i, t) /\ given' = [given EXCEPT ![i] = <<DbStore>>] /\ got' = got /\ s.op \in {"w4", "r4"}
  BY <1>1 DEF HandlePhase4Sent, HandlePhase4Received, Connected, Arrived
<1>5. given[i] = <<>>
  BY <1>1, <1>4 DEF QuietInv, Quiet
<1>6. WiresStill
  <2>1. Wordless(<<TimeSync>>)
    BY WordlessBlocks
  <2>2. CASE HandlePhase4Sent(i)
    BY <2>1, <2>2, WriteStill DEF HandlePhase4Sent
  <2>3. CASE HandlePhase4Received(i)
    <3>1. Phase(4) \in WireBlocks /\ ~Ends(Phase(4))
      BY PhaseBlocks
    <3> QED
      BY <2>1, <2>3, <3>1, ReadWriteStill DEF HandlePhase4Received
  <2> QED
    BY <2>2, <2>3
<1>7. DbStore \in Messages /\ DbStore = 1
  BY NTCPAssumption DEF Messages, DbStore
<1>8. DOMAIN given' = Ids /\ given'[i] = <<DbStore>> /\ \A j \in Ids \ {i} : given'[j] = given[j]
  BY <1>4 DEF LaneInv
<1>9. Len(given[i]) = 0 /\ given'[i] = Append(given[i], DbStore)
  BY <1>5, <1>8
<1>10. sess'[i] = t
  BY <1>4 DEF Set, NTCPInv
<1>11. LaneStep(i)
  <2>1. DbStore = Len(given[i]) + 1 /\ given'[i] = Append(given[i], DbStore)
    BY <1>7, <1>9
  <2>2. got'[i] = got[i] /\ Still(wire[i], wire'[i]) /\ sess'[i].sendQueue = Append(sess[i].sendQueue, DbStore)
    BY <1>1, <1>3, <1>4, <1>6, <1>10 DEF WiresStill
  <2> QED
    BY <1>2, <1>7, <2>1, <2>2, LaneQueues
<1> QED
  BY <1>4, <1>6, <1>8, <1>11, OthersFade

(* PostI2NPMessages queues a message behind those that wait, or writes it   *)
(* when no write is outstanding and so nothing is queued.                   *)
LEMMA PostLanes ==
  ASSUME NTCPInv, LaneInv, NEW i \in Ids, PostI2NPMessages(i)
  PROVE  Stepping
<1>1. PICK s, m : s = sess[i] /\ m = Len(given[i]) + 1
  OBVIOUS
<1>2. Fine(i, s, dialed) /\ Moves(i) /\ Lane(i)
  BY <1>1 DEF NTCPInv, LaneInv
<1>3. /\ m \in Messages /\ given' = [given EXCEPT ![i] = Append(@, m)] /\ got' = got
  BY <1>1, <1>2 DEF PostI2NPMessages, Messages, Lane
<1>4. DOMAIN given' = Ids /\ given'[i] = Append(given[i], m) /\ \A j \in Ids \ {i} : given'[j] = given[j]
  BY <1>3 DEF LaneInv
<1>5. given'[i] = Append(given[i], m)
  BY <1>4
<1>6. PICK t, u : t = [s EXCEPT !.sendQueue = Append(@, m)] /\ u = [s EXCEPT !.sending = TRUE]
  OBVIOUS
<1>7. t.sendQueue = Append(s.sendQueue, m) /\ u.sendQueue = s.sendQueue
  BY <1>2, <1>6 DEF Fine
<1>8. \/ s.sending /\ Set(i, t) /\ wire' = wire
      \/ ~s.sending /\ Set(i, u) /\ Write(i, CreateMsgBuffer(m))
  BY <1>1, <1>6 DEF PostI2NPMessages
<1>9. CASE s.sending /\ Set(i, t) /\ wire' = wire
  <2>1. WiresStill
    BY <1>9, WiresSame
  <2>2. sess'[i] = t
    BY <1>9 DEF Set, NTCPInv
  <2>3. LaneStep(i)
    BY <1>1, <1>2, <1>3, <1>5, <1>7, <2>1, <2>2, LaneQueues DEF WiresStill
  <2> QED
    BY <1>3, <1>4, <1>9, <2>1, <2>3, OthersFade
<1>10. CASE ~s.sending /\ Set(i, u) /\ Write(i, CreateMsgBuffer(m))
  <2>1. sess'[i] = u /\ \A j \in Ids \ {i} : sess'[j] = sess[j]
    BY <1>10 DEF Set, NTCPInv
  <2>2. /\ DOMAIN wire' = Ids /\ \A j \in Ids \ {i} : wire'[j] = wire[j]
        /\ \/ wire'[i] = wire[i]
           \/ ~MayFail(i) /\ s.open /\ wire'[i] = wire[i] \o CreateMsgBuffer(m)
    BY <1>1, <1>10 DEF Write, LaneInv
  <2>3. ~MayFail(i) /\ s.open => s.sendQueue = <<>>
    BY <1>1, <1>2, <1>10 DEF Moves
  <2>4. LaneStep(i)
    BY <1>1, <1>2, <1>3, <1>5, <1>7, <2>1, <2>2, <2>3, LaneWrites
  <2>5. \A j \in Ids \ {i} : Fades(j)
    BY <2>1, <2>2 DEF Fades, LaneInv, Lane
  <2>6. \A j \in Ids \ {i} : LaneStep(j)
    BY <1>3, <1>4, <2>5, LaneFades DEF LaneInv
  <2> QED
    BY <1>3, <1>4, <2>2, <2>4, <2>6 DEF Stepping, LaneInv
<1> QED
  BY <1>8, <1>9, <1>10

(* HandleSent writes all that is queued behind what is on the wire.         *)
LEMMA SentLanes ==
  ASSUME NTCPInv, LaneInv, NEW i \in Ids, HandleSent(i)
  PROVE  Stepping
<1>1. PICK s : s = sess[i]
  OBVIOUS
<1>2. PICK t, u : t = AfterSent(s) /\ u = [s EXCEPT !.sending = FALSE]
  OBVIOUS
<1>3. Fine(i, s, dialed) /\ Lane(i) /\ given' = given /\ got' = got
  BY <1>1 DEF NTCPInv, LaneInv, HandleSent
<1>4. t.sendQueue = <<>> /\ u.sendQueue = s.sendQueue
  BY <1>2, <1>3 DEF Fine, AfterSent, ScheduleTermination
<1>5. \/ Set(i, t) /\ Write(i, Frames(s.sendQueue))
      \/ Set(i, u) /\ wire' = wire
  BY <1>1, <1>2 DEF HandleSent
<1>6. CASE Set(i, t) /\ Write(i, Frames(s.sendQueue))
  <2>1. sess'[i] = t /\ \A j \in Ids \ {i} : sess'[j] = sess[j]
    BY <1>6 DEF Set, NTCPInv
  <2>2. /\ DOMAIN wire' = Ids /\ \A j \in Ids \ {i} : wire'[j] = wire[j]
        /\ wire'[i] \in {wire[i], wire[i] \o Frames(s.sendQueue)}
    BY <1>6 DEF Write, LaneInv
  <2>3. LaneStep(i)
    BY <1>1, <1>3, <1>4, <2>1, <2>2, LaneSends
  <2>4. \A j \in Ids \ {i} : Fades(j)
    BY <2>1, <2>2 DEF Fades, LaneInv, Lane
  <2>5. \A j \in Ids \ {i} : LaneStep(j)
    BY <1>3, <2>4, LaneFades DEF LaneInv
  <2> QED
    BY <1>3, <2>2, <2>3, <2>5 DEF Stepping, LaneInv
<1>7. CASE Set(i, u) /\ wire' = wire
  BY <1>1, <1>3, <1>4, <1>7, SetStill, WiresSame, StillFades
<1> QED
  BY <1>5, <1>6, <1>7

(* The blocks read and those that stay on the wire.                         *)
LEMMA Parted ==
  ASSUME NEW w \in Seq(WireBlocks), NEW n \in Nat, n <= Len(w)
  PROVE  /\ SubSeq(w, 1, n) \in Seq(WireBlocks) /\ SubSeq(w, n + 1, Len(w)) \in Seq(WireBlocks)
         /\ w = SubSeq(w, 1, n) \o SubSeq(w, n + 1, Len(w))
<1>1. PICK m \in Nat : m = Len(w)
  OBVIOUS
<1>2. PICK a, b : a = SubSeq(w, 1, n) /\ b = SubSeq(w, n + 1, m)
  OBVIOUS
<1>3. /\ a \in Seq(WireBlocks) /\ Len(a) = n
      /\ \A k \in 1..n : a[k] = w[k]
  BY <1>1, <1>2
<1>4. /\ b \in Seq(WireBlocks) /\ Len(b) = m - n
      /\ \A k \in 1..m - n : b[k] = w[n + k]
  BY <1>1, <1>2
<1>5. PICK c : c = a \o b
  OBVIOUS
<1>6. c \in Seq(WireBlocks) /\ Len(c) = m
  <2>0. n <= m
    BY <1>1
  <2>1. PICK r \in Nat : r = m - n
    <3>1. m - n \in Nat
      BY <2>0
    <3> QED
      BY <3>1
  <2>2. c \in Seq(WireBlocks) /\ Len(c) = Len(a) + Len(b)
    BY <1>3, <1>4, <1>5, ConcatProperties
  <2>3. Len(a) = n /\ Len(b) = r /\ n + r = m
    BY <1>1, <1>3, <1>4, <2>1
  <2> QED
    BY <2>2, <2>3
<1>7. ASSUME NEW k \in 1..m
      PROVE  c[k] = w[k]
  <2>1. CASE k <= n
    BY <1>3, <1>4, <1>5, <2>1
  <2>2. CASE n < k
    <3>1. k - n \in 1..m - n /\ n + (k - n) = k
      BY <2>2
    <3>2. c[k] = b[k - n]
      BY <1>3, <1>4, <1>5, <2>2, <3>1
    <3> QED
      BY <1>4, <3>1, <3>2
  <2> QED
    BY <2>1, <2>2
<1>8. c = w
  BY <1>1, <1>6, <1>7, SeqEqual
<1> QED
  BY <1>1, <1>2, <1>3, <1>4, <1>5, <1>8

(* HandleReceived hands on what the blocks read complete.                   *)
LEMMA ReceivedLanes ==
  ASSUME NTCPInv, LaneInv, NEW i \in Ids, NEW k, HandleReceived(i, k)
  PROVE  Stepping
<1>1. PICK p, w : p = Peer(i) /\ w = wire[Peer(i)]
  OBVIOUS
<1>2. p \in Ids /\ p # i
  BY <1>1, PeerFacts
<1>3. PICK new : new = SubSeq(w, 1, k)
  OBVIOUS
<1>4. PICK bad : bad = {j \in 1..k : TooLong(new[j])}
  OBVIOUS
<1>5. PICK x : x = CHOOSE j \in bad : \A y \in bad : j <= y
  OBVIOUS
<1>6. PICK g : g = IF bad = {} THEN new ELSE SubSeq(new, 1, x - 1)
  OBVIOUS
<1>7. Lane(p) /\ w \in Seq(WireBlocks) /\ k \in 1..Len(w)
  BY <1>1, <1>2 DEF LaneInv, Lane, HandleReceived
<1>8. bad # {} => x \in 1..k
  <2>1. bad \subseteq Nat
    BY <1>4
  <2>2. bad # {} => x \in bad
    BY <1>5, <2>1, NatMin DEF Min
  <2> QED
    BY <1>4, <2>2
<1>9. PICK n \in Nat : n <= k /\ g = SubSeq(w, 1, n) /\ (bad = {} => n = k)
  <2>1. CASE bad = {}
    BY <1>3, <1>6, <1>7, <2>1
  <2>2. CASE bad # {}
    <3>1. x - 1 \in Nat /\ x - 1 <= k
      BY <1>7, <1>8, <2>2
    <3>2. SubSeq(new, 1, x - 1) = SubSeq(w, 1, x - 1)
      BY <1>3, <1>7, <1>8, <2>2
    <3> QED
      BY <1>6, <2>2, <3>1, <3>2
  <2> QED
    BY <2>1, <2>2
<1>10. PICK r : r = SubSeq(w, n + 1, Len(w))
  OBVIOUS
<1>11. g \in Seq(WireBlocks) /\ r \in Seq(WireBlocks) /\ w = g \o r
  <2>1. n <= Len(w)
    BY <1>7, <1>9
  <2> QED
    BY <1>7, <1>9, <1>10, <2>1, Parted
<1>12. PICK s, t : s = sess[i] /\ t = [s EXCEPT !.received = TRUE]
  OBVIOUS
<1>13. PICK c, u : c = ClosedSession([t EXCEPT !.op = "none"]) /\ u = ScheduleTermination(t)
  OBVIOUS
<1>14. Fine(i, s, dialed)
  BY <1>12 DEF NTCPInv
<1>15. c.sendQueue = <<>> /\ u.sendQueue = s.sendQueue
  BY <1>12, <1>13, <1>14, ClosedFacts DEF Fine, ScheduleTermination
<1>16. /\ got' = [got EXCEPT ![p] = @ \o Complete(g)] /\ given' = given
       /\ \/ Set(i, u) /\ wire' = [wire EXCEPT ![p] = SubSeq(w, k + 1, Len(w))] /\ bad = {}
          \/ Set(i, c) /\ wire' = [wire EXCEPT ![p] = <<>>]
  BY <1>1, <1>3, <1>4, <1>5, <1>6, <1>12, <1>13 DEF HandleReceived, Terminate, Set
<1>17. /\ DOMAIN got' = Ids /\ DOMAIN wire' = Ids
       /\ got'[p] = got[p] \o Complete(g) /\ \A j \in Ids \ {p} : got'[j] = got[j]
       /\ wire'[p] \in {r, <<>>} /\ \A j \in Ids \ {p} : wire'[j] = wire[j]
  BY <1>2, <1>9, <1>10, <1>16 DEF LaneInv
<1>18. /\ sess'[i].sendQueue \in {sess[i].sendQueue, <<>>}
       /\ \A j \in Ids \ {i} : sess'[j] = sess[j]
  BY <1>12, <1>15, <1>16 DEF Set, NTCPInv
<1>19. LaneStep(p)
  <2>1. given'[p] = given[p] /\ sess'[p].sendQueue = sess[p].sendQueue /\ wire[p] = g \o r
    BY <1>1, <1>2, <1>11, <1>16, <1>18
  <2> QED
    BY <1>2, <1>7, <1>11, <1>17, <2>1, LaneHands
<1>20. \A j \in Ids \ {p} : Fades(j)
  BY <1>17, <1>18 DEF Fades, LaneInv, Lane
<1>21. \A j \in Ids \ {p} : LaneStep(j)
  BY <1>16, <1>17, <1>20, LaneFades DEF LaneInv
<1> QED
  BY <1>16, <1>17, <1>19, <1>21 DEF Stepping, LaneInv

(* The network cuts a connection: both wires are empty.                     *)
LEMMA CutLanes ==
  ASSUME NTCPInv, LaneInv, NEW c \in Conns, Cut(c)
  PROVE  Stepping
<1>1. <<c, "client">> \in Ids /\ <<c, "server">> \in Ids
  BY DEF Ids
<1>2. \A j \in Ids : wire[j] \in Seq(WireBlocks)
  BY DEF LaneInv, Lane
<1>3. DOMAIN wire' = Ids /\ \A j \in Ids : wire'[j] = <<>> \/ wire'[j] = wire[j]
  BY <1>1 DEF Cut, LaneInv
<1>4. WiresStill
  BY <1>2, <1>3, StillWrite, WordlessBlocks DEF WiresStill
<1>5. sess' = sess /\ given' = given /\ got' = got
  BY DEF Cut
<1> QED
  BY <1>4, <1>5, StillFades DEF QueuesStill

(* A step of neither sessions nor wires.                                    *)
LEMMA NothingLanes ==
  ASSUME LaneInv, sess' = sess, wire' = wire, given' = given, got' = got
  PROVE  Stepping
BY WiresSame, StillFades DEF QueuesStill

(* Every step is one of OrderedDelivery in each lane.                       *)
LEMMA NextLanes ==
  ASSUME NTCPInv, QuietInv, LaneInv, NTCPNext
  PROVE  Stepping
<1>1. ASSUME NEW c \in Conns, Cut(c) \/ ConnectNTCP(c)
      PROVE  Stepping
  BY <1>1, CutLanes, ConnectNTCPLanes
<1>2. ASSUME NEW n \in Nodes, BanExpires(n)
      PROVE  Stepping
  BY <1>2, NothingLanes DEF BanExpires
<1>3. ASSUME NEW i \in Ids,
             \/ HandleConnect(i) \/ HandleAccept(i)
             \/ HandlePhase1Received(i) \/ HandlePhase2Received(i)
             \/ HandlePhase3Received(i) \/ HandlePhase3ExtraReceived(i)
             \/ HandlePhase4Sent(i) \/ HandlePhase4Received(i)
      PROVE  Stepping
  BY <1>3, HandleConnectLanes, HandleAcceptLanes, PhasesLanes, Phase3Lanes, ConnectedLanes
<1>4. ASSUME NEW i \in Ids,
             \/ PhaseRefused(i) \/ PhaseFailed(i) \/ Aborted(i)
             \/ PostI2NPMessages(i) \/ HandleSent(i)
             \/ ReceiveFailed(i) \/ HandleTerminationTimer(i) \/ NTCPDone(i)
             \/ \E k \in 1..Len(wire[Peer(i)]) : HandleReceived(i, k)
      PROVE  Stepping
  BY <1>4, TerminatingLanes, PostLanes, SentLanes, TimerLanes, ReceivedLanes
<1> QED
  BY <1>1, <1>2, <1>3, <1>4 DEF NTCPNext

(* What OrderedDelivery calls pending is what waits in the lane.            *)
LEMMA RangeWaits ==
  ASSUME NEW i \in Ids, Lane(i)
  PROVE  Range(Underway(i)) = Waits(i)
<1>1. PICK c, q : c = Complete(wire[i]) /\ q = sess[i].sendQueue
  OBVIOUS
<1>2. c \in Seq(Nat) /\ q \in Seq(Nat)
  BY <1>1, LaneFacts DEF Lane, Messages
<1>3. PICK u : u = c \o q
  OBVIOUS
<1>4. u \in Seq(Nat) /\ Elements(u) = Elements(c) \cup Elements(q)
  BY <1>2, <1>3, ElementsConcat
<1>5. Range(u) = Elements(u)
  BY <1>4 DEF Range, Elements
<1> QED
  BY <1>1, <1>3, <1>4, <1>5 DEF Underway, Waits

LEMMA WaitsNext ==
  (\A i \in Ids : Lane(i))' => (\A i \in Ids : Range(Underway(i)) = Waits(i))'
<1>1. (\A i \in Ids : Lane(i)) => \A i \in Ids : Range(Underway(i)) = Waits(i)
  BY RangeWaits
<1> QED
  BY <1>1, PTL

(* The lanes' invariant and the step of OrderedDelivery, from each lane's.  *)
LEMMA AllLanes ==
  ASSUME LaneInv, Stepping
  PROVE  LaneInv' /\ NTCPDelivery!Next
<1>1. \A i \in Ids : Lane(i) /\ Lane(i)' /\ LaneStep(i)
  BY DEF LaneInv, Stepping, LaneStep
<1>2. LaneInv'
  BY <1>1 DEF LaneInv, Stepping
<1>3. ASSUME NEW i \in Senders
      PROVE  NTCPDelivery!Step(i)
  <2>1. i \in Ids
    BY NTCPAssumption DEF Ids
  <2>2. Range(Underway(i)) = Waits(i)
    BY <1>1, <2>1, RangeWaits
  <2>3. Range(Underway(i))' = Waits(i)'
    BY <1>1, <2>1, WaitsNext
  <2>4. StepOf(Len(given[i]), Waits(i), got[i], Len(given'[i]), Waits(i)', got'[i])
    BY <1>1, <2>1 DEF LaneStep
  <2> QED
    BY <2>2, <2>3, <2>4 DEF NTCPDelivery!Step, StepOf, New, Out
<1> QED
  BY <1>2, <1>3 DEF NTCPDelivery!Next

(* Initially nothing waits.                                                 *)
LEMMA NTCPInitLanes ==
  NTCPInit => NTCPInv /\ QuietInv /\ LaneInv /\ NTCPDelivery!Init
<1> SUFFICES ASSUME NTCPInit
             PROVE  NTCPInv /\ QuietInv /\ LaneInv /\ NTCPDelivery!Init
  OBVIOUS
<1>1. NTCPInv
  BY DEF NTCPInit, NTCPInv, Fine, Moves, NewSession
<1>2. QuietInv
  BY PeerFacts DEF NTCPInit, QuietInv, Quiet, NewSession
<1>3. \A i \in Ids : /\ wire[i] = <<>> /\ sess[i].sendQueue = <<>> /\ given[i] = <<>> /\ got[i] = <<>>
                     /\ Complete(wire[i]) = <<>>
  BY CompleteEmpty DEF NTCPInit, NewSession
<1>4. <<>> \in Seq(WireBlocks) /\ <<>> \in Seq(Messages) /\ <<>> \in Seq(Nat) /\ Len(<<>>) = 0
  OBVIOUS
<1>5. Increasing(<<>>) /\ Ordered(<<>>, <<>>, Elements(<<>>), 0)
  BY ElementsEmpty DEF Ordered, Older
<1>6. LaneInv
  BY <1>3, <1>4, <1>5 DEF NTCPInit, LaneInv, Lane
<1>7. ASSUME NEW i \in Senders
      PROVE  Len(given[i]) = 0 /\ Range(Underway(i)) = {} /\ got[i] = <<>>
  <2>1. i \in Ids
    BY NTCPAssumption DEF Ids
  <2>2. Range(Underway(i)) = {}
    BY <1>3, <1>6, <2>1, RangeWaits, ElementsEmpty DEF LaneInv, Waits
  <2> QED
    BY <1>3, <1>4, <2>1, <2>2
<1>8. NTCPDelivery!Init
  BY <1>7 DEF NTCPDelivery!Init
<1> QED
  BY <1>1, <1>2, <1>6, <1>8

(* The messages given to an NTCP session are handed to the other side's     *)
(* handler in the order they were given, each at most once, however the     *)
(* stream of blocks is cut into reads, whichever of m_SendQueue and Send a  *)
(* message takes, and whatever breaks: NTCPSession.cpp implements           *)
(* OrderedDelivery.                                                         *)
THEOREM SpecNTCPInOrder == NTCPSpec => NTCPInOrder
<1> DEFINE Inv == NTCPInv /\ QuietInv /\ LaneInv
<1>1. NTCPInit => Inv /\ NTCPDelivery!Init
  BY NTCPInitLanes
<1>2. Inv /\ [NTCPNext]_ntcpVars => Inv' /\ [NTCPDelivery!Next]_(NTCPDelivery!vars)
  <2> SUFFICES ASSUME Inv, [NTCPNext]_ntcpVars
               PROVE  Inv' /\ [NTCPDelivery!Next]_(NTCPDelivery!vars)
    OBVIOUS
  <2>1. NTCPInv'
    BY NTCPInductive
  <2>2. QuietInv'
    <3>1. CASE NTCPNext
      BY <3>1, QuietKept
    <3>2. CASE UNCHANGED ntcpVars
      BY <3>2 DEF ntcpVars, QuietInv, Quiet
    <3> QED
      BY <3>1, <3>2
  <2>3. Stepping
    <3>1. CASE NTCPNext
      BY <3>1, NextLanes
    <3>2. CASE UNCHANGED ntcpVars
      BY <3>2, NothingLanes DEF ntcpVars
    <3> QED
      BY <3>1, <3>2
  <2> QED
    BY <2>1, <2>2, <2>3, AllLanes
<1> QED
  BY <1>1, <1>2, PTL DEF NTCPSpec, NTCPInOrder, NTCPDelivery!Spec
=============================================================================
