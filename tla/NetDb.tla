------------------------------- MODULE NetDb -------------------------------
(* The network database as a store: router infos and lease sets in memory,  *)
(* the list of floodfills, the files of router infos, and the answers to    *)
(* stores and lookups.  The NetDb thread handles messages and goes through  *)
(* SaveUpdated router by router without the lock, while NTCP threads mark    *)
(* routers unreachable.  A write may fail or be cut short, and a crash keeps *)
(* the files.  Lookups the router makes itself are NetDbRequests.  A router  *)
(* info is the number of its version; what its bytes say is DbPublished.     *)
EXTENDS Integers, Sequences, FiniteSets

CONSTANTS
  DbIdents,      \* router identities: 1..n, in the order of the map's keys
  DbPublished,   \* [DbIdents -> Seq of versions [floodfill, firewalled, usable, at]]
  DbDistance,    \* [DbIdents -> Nat]: XOR distance to the routing key in use
  DbStores,      \* stores of router infos: [key, ident, version, signed]
  DbCuts,        \* [DbIdents -> set of versions that are what a cut write leaves of another]
  DbDestinations,\* keys of lease sets
  DbExcluded,    \* sets of routers lookups exclude
  DbLeft,        \* sets of routers whose first version an earlier life left on disk
  DbFew, DbSome, DbMany, \* routers below which fewer expire: 75, 120 and 300 in the code
  DbAgeFlood, DbAgeMany, DbAgeSome, \* ages in hours at which they do: 1, 30 and 72
  DbUptime,      \* time from which routers expire, 10 minutes after the start
  DbNumClosest,  \* routers in a search reply: 3 in the code
  DbMaxTime, DbMaxHandled, DbMaxCrashes  \* bounds

DbObjects == 1..(DbMaxHandled + Cardinality(DbIdents))  \* RouterInfo objects in memory

ASSUME DbAssumption ==
  /\ IsFiniteSet(DbIdents) /\ DbIdents = 1..Cardinality(DbIdents)
  /\ DbNumClosest \in Nat \ {0} /\ DbMaxHandled \in Nat
  /\ DbDistance \in [DbIdents -> Nat]
  /\ \A i, j \in DbIdents : DbDistance[i] = DbDistance[j] => i = j
  /\ \A i \in DbIdents :
       DbPublished[i] \in Seq([floodfill : BOOLEAN, firewalled : BOOLEAN, usable : BOOLEAN, at : Nat])
  /\ DbCuts \in [DbIdents -> SUBSET Nat] /\ \A i \in DbIdents : DbCuts[i] \subseteq DOMAIN DbPublished[i]
  /\ \A m \in DbStores :
       /\ m.key \in DbIdents /\ m.ident \in DbIdents /\ m.version \in DOMAIN DbPublished[m.ident]
       /\ m.signed \in BOOLEAN

VARIABLES
  infos,      \* [DbObjects -> RouterInfo]
  table,      \* m_RouterInfos: [DbIdents -> object, 0 if absent]
  floodfills, \* m_Floodfills: objects in the order of the list
  files,      \* [DbIdents -> version on disk, 0 if there is no file, or Torn]
  leaseSets,  \* m_LeaseSets: [DbDestinations -> time its last lease ends, 0 if absent]
  saving,     \* locals of SaveUpdated: ts, routers to come, total, deletedCount
  weFlood,    \* whether this router is a floodfill, by its configuration
  dbMixed,    \* history: identities a message gave to another's key, and those keys
  dbNow, dbHandled, dbCrashes

dbVars == <<infos, table, floodfills, files, leaseSets, saving, weFlood, dbMixed, dbNow, dbHandled, dbCrashes>>

\* What ReadFromStream takes from the bytes of a router info: its timestamp, its
\* caps, and whether one of its addresses can be used.
DbVersion(i, v) == DbPublished[i][v]
\* buffer is the version m_Buffer holds, 0 without one.  The rest is history:
\* whether a save of it failed, whether it entered the list of floodfills when it
\* came, and whether the table's entry for it was given to another object.
NoInfo == [ident |-> 0, version |-> 0, unreachable |-> TRUE, updated |-> FALSE, buffer |-> 0,
           failed |-> FALSE, entered |-> FALSE, replaced |-> FALSE]
Torn == -1  \* what a cut write leaves when there is not even a whole identity
DbSays(o) == DbVersion(infos[o].ident, infos[o].version)
IsFloodfill(o) == DbSays(o).floodfill
UsesIntroducer(o) == DbSays(o).firewalled
DbFresh == CHOOSE o \in DbObjects : infos[o] = NoInfo
NotSaving == [active |-> FALSE, ts |-> 0, todo |-> <<>>, total |-> 0, deleted |-> 0]

\* The elements of s that are in S, in the order of s; the identities of a set in
\* the order of the map.
Only(s, S) ==
  LET taken[k \in 0..Len(s)] ==
        IF k = 0 THEN <<>> ELSE IF s[k] \in S THEN Append(taken[k - 1], s[k]) ELSE taken[k - 1]
  IN taken[Len(s)]
InOrder(S) == Only([k \in 1..Cardinality(DbIdents) |-> k], S)
Known == {i \in DbIdents : table[i] # 0}

----------------------------------------------------------------------------
(* Choice by distance.                                                       *)

\* The nearest of the objects in S, as a sequence with at most one element.
Nearest(S) ==
  IF S = {} THEN <<>>
  ELSE <<CHOOSE o \in S : \A p \in S : DbDistance[infos[o].ident] <= DbDistance[infos[p].ident]>>

GetClosestFloodfill(excluded) ==
  Nearest({floodfills[k] : k \in {n \in DOMAIN floodfills :
             ~infos[floodfills[n]].unreachable /\ infos[floodfills[n]].ident \notin excluded}})

\* By the keys of the table.
GetClosestNonFloodfill(excluded) ==
  LET others == {i \in Known \ excluded : ~IsFloodfill(table[i])}
  IN IF others = {} THEN <<>>
     ELSE <<table[CHOOSE i \in others : \A j \in others : DbDistance[i] <= DbDistance[j]]>>

\* The n nearest, found one after the other, of the floodfills or of the others.
ClosestInTurn(floodfill, n, excluded) ==
  LET found[k \in 0..n] ==
        IF k = 0 THEN <<>>
        ELSE LET nearer == found[k - 1]
                 without == excluded \cup {infos[nearer[j]].ident : j \in DOMAIN nearer}
             IN nearer \o (IF floodfill THEN GetClosestFloodfill(without) ELSE GetClosestNonFloodfill(without))
  IN found[n]

\* The sorted set with object o, whose distance it may have already.
Inserted(sorted, o) ==
  LET Distance(p) == DbDistance[infos[p].ident]
  IN IF \E k \in DOMAIN sorted : Distance(sorted[k]) = Distance(o) THEN sorted
     ELSE LET n == CHOOSE n \in 0..Len(sorted) :
                     \A k \in DOMAIN sorted : k <= n <=> Distance(sorted[k]) < Distance(o)
          IN [k \in 1..Len(sorted) + 1 |->
                IF k <= n THEN sorted[k] ELSE IF k = n + 1 THEN o ELSE sorted[k - 1]]

\* Variant: a floodfill enters a full set when it is nearer than the nearest.
SortedWithNearer(sorted, o) ==
  LET full == Inserted(sorted, o)
  IN IF Len(sorted) < DbNumClosest THEN full
     ELSE IF DbDistance[infos[o].ident] < DbDistance[infos[Head(sorted)].ident] THEN SubSeq(full, 1, Len(full) - 1)
     ELSE sorted
\* The set of the nearest with object o tried: it enters when there is room or
\* when it is nearer than the farthest, which leaves.
SortedWith(sorted, o) ==
  LET full == Inserted(sorted, o)
  IN IF Len(sorted) < DbNumClosest THEN full
     ELSE IF DbDistance[infos[o].ident] < DbDistance[infos[sorted[Len(sorted)]].ident] THEN SubSeq(full, 1, Len(full) - 1)
     ELSE sorted

\* GetClosestFloodfills: the excluded ones leave the set after it was filled.
GetClosestFloodfills(excluded) ==
  LET sorted[k \in 0..Len(floodfills)] ==
        IF k = 0 THEN <<>>
        ELSE LET before == sorted[k - 1]
             IN IF infos[floodfills[k]].unreachable THEN before ELSE SortedWith(before, floodfills[k])
  IN Only(sorted[Len(floodfills)], {o \in DbObjects : infos[o].ident \notin excluded})

\* GetRandomRouter from the place ind of the table: the first reachable router
\* from there on, on a second pass from the beginning.
GetRandomRouter(ind) ==
  LET fits == {i \in Known : ~infos[table[i]].unreachable}
      fit == InOrder(fits)
      later == InOrder({i \in fits : Cardinality({j \in Known : j < i}) >= ind})
  IN IF later # <<>> THEN <<Head(later)>> ELSE IF fit # <<>> THEN <<Head(fit)>> ELSE <<>>

HashesOf(objects) == [k \in DOMAIN objects |-> infos[objects[k]].ident]

----------------------------------------------------------------------------
(* Messages, on the NetDb thread between two rounds of SaveUpdated.          *)

\* Variant: an update does not ask for the file to be written.
UpdatedNot(old, m) ==
  [old EXCEPT !.ident = m.ident, !.version = m.version, !.buffer = m.version, !.updated = FALSE,
              !.unreachable = ~m.signed \/ ~DbVersion(m.ident, m.version).usable]
\* A RouterInfo with a router info read into it, by Update or when it is made: its
\* identity, too, is what was read, and one with a bad signature or without
\* usable addresses is unreachable, until it is saved.
Updated(old, m) ==
  [old EXCEPT !.ident = m.ident, !.version = m.version, !.buffer = m.version, !.updated = TRUE,
              !.unreachable = ~m.signed \/ ~DbVersion(m.ident, m.version).usable]

\* HandleDatabaseStoreMsg and AddRouterInfo: the key is looked up, but a new
\* router is filed under its own identity, whatever was there.  DbObjects bounds
\* the objects there are at a time.
StoreRouterInfo(m) ==
  /\ ~saving.active /\ dbHandled < DbMaxHandled
  /\ dbHandled' = dbHandled + 1
  /\ dbMixed' = IF m.key = m.ident THEN dbMixed ELSE dbMixed \cup {m.key, m.ident}
  /\ IF table[m.key] # 0
     THEN /\ infos' = [infos EXCEPT ![table[m.key]] = Updated(infos[table[m.key]], m)]
          /\ UNCHANGED <<table, floodfills>>
     ELSE LET listed == DbVersion(m.ident, m.version).floodfill IN
          /\ \E o \in DbObjects : infos[o] = NoInfo
          /\ infos' = [o \in DbObjects |->
                         IF o = DbFresh THEN [Updated(NoInfo, m) EXCEPT !.entered = listed]
                         ELSE IF o = table[m.ident] THEN [infos[o] EXCEPT !.replaced = TRUE] ELSE infos[o]]
          /\ table' = [table EXCEPT ![m.ident] = DbFresh]
          /\ floodfills' = IF listed THEN Append(floodfills, DbFresh) ELSE floodfills
  /\ UNCHANGED <<files, leaseSets, saving, weFlood, dbNow, dbCrashes>>

\* Where a stored message with a reply token goes on from a floodfill: three
\* copies, all to the same floodfill.
FloodedTo ==
  LET f == HashesOf(GetClosestFloodfill({})) IN IF weFlood THEN f \o f \o f ELSE <<>>

\* AddLeaseSet: one that comes through a tunnel is not kept; an invalid one
\* removes what was there.
StoreLeaseSet(d, ends, direct) ==
  /\ ~saving.active /\ dbHandled < DbMaxHandled
  /\ dbHandled' = dbHandled + 1
  /\ leaseSets' = IF direct THEN [leaseSets EXCEPT ![d] = ends] ELSE leaseSets
  /\ UNCHANGED <<infos, table, floodfills, files, saving, weFlood, dbMixed, dbNow, dbCrashes>>

\* LoadBuffer: what m_Buffer may then hold; a file that is too short is not read.
LoadBuffer(i) ==
  LET o == table[i] IN
  IF o = 0 THEN {0}
  ELSE IF infos[o].buffer # 0 THEN {infos[o].buffer}
  ELSE IF files[infos[o].ident] = Torn THEN {0, Torn} ELSE {files[infos[o].ident]}

\* HandleDatabaseLookupMsg for a known router leaves its buffer in memory.
LookupRouter(i) ==
  /\ ~saving.active /\ table[i] # 0 /\ dbHandled < DbMaxHandled
  /\ dbHandled' = dbHandled + 1
  /\ \E b \in LoadBuffer(i) : infos' = [infos EXCEPT ![table[i]] = [infos[table[i]] EXCEPT !.buffer = b]]
  /\ UNCHANGED <<table, floodfills, files, leaseSets, saving, weFlood, dbMixed, dbNow, dbCrashes>>

\* The answers: a router info is found when there is a buffer, a lease set when it
\* is in the table.
RouterAnswer(i, buffer, excluded) == IF buffer # 0 THEN <<i>> ELSE HashesOf(GetClosestFloodfills(excluded))
LeaseSetAnswer(d, excluded) ==
  IF leaseSets[d] # 0 THEN <<d>> ELSE HashesOf(GetClosestFloodfills(excluded))
ExploratoryAnswer(excluded) == HashesOf(ClosestInTurn(FALSE, 3, excluded))

\* The floodfills our own router info is published to.
PublishedTo == HashesOf(ClosestInTurn(TRUE, 2, {}))

\* An NTCP thread could not connect, at any time.  (DbMaxHandled bounds this and the
\* messages together.)
SetUnreachable(i) ==
  /\ table[i] # 0 /\ ~infos[table[i]].unreachable /\ dbHandled < DbMaxHandled
  /\ dbHandled' = dbHandled + 1
  /\ infos' = [infos EXCEPT ![table[i]] = [infos[table[i]] EXCEPT !.unreachable = TRUE]]
  /\ UNCHANGED <<table, floodfills, files, leaseSets, saving, weFlood, dbMixed, dbNow, dbCrashes>>

----------------------------------------------------------------------------
(* SaveUpdated, ManageLeaseSets and Load.                                    *)

SaveBegin ==
  /\ ~saving.active /\ Known # {}
  /\ saving' = [active |-> TRUE, ts |-> dbNow, todo |-> InOrder(Known), total |-> Cardinality(Known), deleted |-> 0]
  /\ UNCHANGED <<infos, table, floodfills, files, leaseSets, weFlood, dbMixed, dbNow, dbHandled, dbCrashes>>

\* Whether router o is given up for its age, by how many routers are left; times
\* are in hours.
Aged(o) ==
  LET age == saving.ts - DbSays(o).at
  IN /\ saving.total > DbFew /\ saving.ts > DbUptime
     /\ \/ weFlood /\ age > DbAgeFlood
        \/ ~weFlood /\ saving.total > DbMany /\ age > DbAgeMany
        \/ ~weFlood /\ saving.total <= DbMany /\ saving.total > DbSome /\ age > DbAgeSome

\* What a write of version v may leave of the file of router i: all of it, the old
\* file when it cannot be opened, or what a full disk or a crash made of it.
Written(i, v) == {v, files[i], Torn} \cup DbCuts[i]

\* One router of the loop.  One that was updated counts as saved, and as reachable,
\* whatever became of the write; one that is given up for its age counts twice
\* against the total.
SaveNext ==
  /\ saving.active /\ saving.todo # <<>>
  /\ LET o == table[Head(saving.todo)]
         i == infos[o].ident
         old == UsesIntroducer(o) /\ saving.ts - DbSays(o).at > 1
         gone == infos[o].unreachable \/ old \/ Aged(o)
     IN IF infos[o].updated
        THEN \E left \in Written(i, infos[o].version) :
             /\ files' = [files EXCEPT ![i] = left]
             /\ infos' = [infos EXCEPT ![o] = [infos[o] EXCEPT !.updated = FALSE, !.unreachable = FALSE, !.buffer = 0,
                             !.failed = IF left = infos[o].version THEN infos[o].failed ELSE TRUE]]
             /\ saving' = [saving EXCEPT !.todo = Tail(saving.todo)]
             /\ UNCHANGED floodfills
        ELSE /\ files' = IF gone THEN [files EXCEPT ![i] = 0] ELSE files
             /\ infos' = [infos EXCEPT ![o] = [infos[o] EXCEPT !.unreachable = gone]]
             /\ floodfills' = IF gone /\ IsFloodfill(o)
                              THEN Only(floodfills, DbObjects \ {o}) ELSE floodfills
             /\ saving' = [saving EXCEPT !.todo = Tail(saving.todo),
                             !.total = saving.total - (IF gone THEN 1 ELSE 0) - (IF ~old /\ Aged(o) THEN 1 ELSE 0),
                             !.deleted = saving.deleted + (IF gone /\ files[i] # 0 THEN 1 ELSE 0)]
  /\ UNCHANGED <<table, leaseSets, weFlood, dbMixed, dbNow, dbHandled, dbCrashes>>

\* Variant: the routers that go are found by their age again.
UnreachablesAged ==
  {i \in Known : infos[table[i]].unreachable \/ (UsesIntroducer(table[i]) /\ dbNow - DbSays(table[i]).at > 1)}
\* The routers that leave the table: those unreachable now.
Unreachables == {i \in Known : infos[table[i]].unreachable}

ManageLeaseSets == [d \in DbDestinations |-> IF leaseSets[d] < dbNow THEN 0 ELSE leaseSets[d]]

\* The end of SaveUpdated, when a file was deleted, and ManageLeaseSets.  An
\* object nothing refers to any more is forgotten.
SaveEnd ==
  /\ saving.active /\ saving.todo = <<>>
  /\ saving' = NotSaving
  /\ table' = [i \in DbIdents |-> IF saving.deleted > 0 /\ i \in Unreachables THEN 0 ELSE table[i]]
  /\ infos' = [o \in DbObjects |->
                 IF (\E i \in DbIdents : table'[i] = o) \/ (\E k \in DOMAIN floodfills : floodfills[k] = o)
                 THEN infos[o] ELSE NoInfo]
  /\ leaseSets' = ManageLeaseSets
  /\ UNCHANGED <<floodfills, files, weFlood, dbMixed, dbNow, dbHandled, dbCrashes>>

\* The routers Load takes from the files f: the others' files are deleted, but for
\* some torn ones.  (The router such a file makes has no identity that was read.)
Taken(f) ==
  {i \in DbIdents :
     /\ f[i] > 0 /\ DbVersion(i, f[i]).usable
     /\ DbVersion(i, f[i]).firewalled => dbNow < DbVersion(i, f[i]).at + 1}
FloodfillsTaken(f) == {i \in Taken(f) : DbVersion(i, f[i]).floodfill}
\* The object of a router that is loaded has the number of its identity.
LoadedInfos(f) ==
  [o \in DbObjects |->
     IF o \in Taken(f)
     THEN [NoInfo EXCEPT !.ident = o, !.version = f[o], !.unreachable = FALSE,
                         !.entered = o \in FloodfillsTaken(f)]
     ELSE NoInfo]
LoadedTable(f) == [i \in DbIdents |-> IF i \in Taken(f) THEN i ELSE 0]
LoadedFloodfills(f) == InOrder(FloodfillsTaken(f))
LeftFiles(f, torn) == [i \in DbIdents |-> IF i \in Taken(f) \cup torn THEN f[i] ELSE 0]

\* The process ends at any moment and starts again with Load.
Restart ==
  /\ dbCrashes < DbMaxCrashes
  /\ dbCrashes' = dbCrashes + 1
  /\ infos' = LoadedInfos(files) /\ table' = LoadedTable(files)
  /\ floodfills' = LoadedFloodfills(files)
  /\ \E torn \in SUBSET {i \in DbIdents : files[i] = Torn} : files' = LeftFiles(files, torn)
  /\ leaseSets' = [d \in DbDestinations |-> 0]
  /\ saving' = NotSaving /\ dbMixed' = {}
  /\ UNCHANGED <<weFlood, dbNow, dbHandled>>

DbTick ==
  /\ dbNow < DbMaxTime
  /\ dbNow' = dbNow + 1
  /\ UNCHANGED <<infos, table, floodfills, files, leaseSets, saving, weFlood, dbMixed, dbHandled, dbCrashes>>

\* The first start, with the files an earlier life may have left.
DbInit ==
  /\ dbNow = 1
  /\ \E left \in DbLeft :
       LET f == [i \in DbIdents |-> IF i \in left THEN 1 ELSE 0] IN
       /\ infos = LoadedInfos(f) /\ table = LoadedTable(f)
       /\ floodfills = LoadedFloodfills(f) /\ files = LeftFiles(f, {})
  /\ leaseSets = [d \in DbDestinations |-> 0]
  /\ saving = NotSaving /\ weFlood \in BOOLEAN /\ dbMixed = {}
  /\ dbHandled = 0 /\ dbCrashes = 0

DbNext ==
  \/ \E m \in DbStores : StoreRouterInfo(m)
  \/ \E d \in DbDestinations, ends \in {0, dbNow + 1}, direct \in BOOLEAN : StoreLeaseSet(d, ends, direct)
  \/ \E i \in DbIdents : LookupRouter(i) \/ SetUnreachable(i)
  \/ SaveBegin \/ SaveNext \/ SaveEnd
  \/ Restart \/ DbTick

DbSpec == DbInit /\ [][DbNext]_dbVars

----------------------------------------------------------------------------
\* A floodfill the router would choose is one it knows: a listed object that is
\* reachable is in the table, unless its entry was given to another object, which
\* a router info stored under an unknown key does.  And between two rounds a
\* router that entered the list and is in the table is still listed, as long as
\* no save of it failed: SaveUpdated takes a router from the list at once but
\* from the table only when a file was deleted (SaveUpdated, AddRouterInfo,
\* GetClosestFloodfill).
FloodfillKnown ==
  LET listed == {floodfills[k] : k \in DOMAIN floodfills}
  IN /\ \A o \in listed : infos[o].unreachable \/ infos[o].replaced \/ \E i \in DbIdents : table[i] = o
     /\ ~saving.active =>
          \A i \in Known \ dbMixed : infos[table[i]].entered /\ ~infos[table[i]].failed => table[i] \in listed

\* A router none of whose saves failed is on disk as it is in memory once it is
\* neither unreachable nor waiting to be saved, so that a crash does not lose it,
\* and a lookup is never answered with an older version of it (SaveUpdated,
\* LoadBuffer), whatever the NTCP threads did during a round.  A failed write is
\* not retried, and with keys that are not the router's own two objects share a
\* file.
FileKept ==
  \A i \in Known \ dbMixed :
    LET r == infos[table[i]] IN
    ~r.failed => /\ ~r.updated /\ ~r.unreachable => files[i] = r.version
                 /\ r.buffer \in {0, r.version}

\* Without stores under another router's key: a lookup that is not answered with
\* what was asked for names the nearest of the reachable routers in m_Floodfills,
\* whatever order the list is in, but the excluded ones, which are left out after
\* the choice, so that the answer may be short; an exploratory one names the
\* three nearest of the known routers that say they are no floodfills, the
\* excluded ones being left out before; our router info goes to the two nearest
\* of the list, a store is flooded to the nearest; and a hop is found wherever
\* the search begins, as long as a router is reachable (GetClosestFloodfills,
\* GetClosestFloodfill, GetClosestNonFloodfill, HandleDatabaseLookupMsg, Publish,
\* GetRandomRouter).
AnswersNearest ==
  LET listed == {infos[floodfills[k]].ident :
                   k \in {n \in DOMAIN floodfills : ~infos[floodfills[n]].unreachable}}
      NearestIn(S, n) == {i \in S : Cardinality({j \in S : DbDistance[j] < DbDistance[i]}) < n}
      Named(answer) == {answer[k] : k \in DOMAIN answer}
  IN dbMixed = {} =>
     /\ \A e \in DbExcluded :
          /\ \A i \in DbIdents :
               0 \in LoadBuffer(i) => Named(RouterAnswer(i, 0, e)) = NearestIn(listed, DbNumClosest) \ e
          /\ \A d \in DbDestinations :
               leaseSets[d] = 0 => Named(LeaseSetAnswer(d, e)) = NearestIn(listed, DbNumClosest) \ e
          /\ Named(ExploratoryAnswer(e)) = NearestIn({i \in Known \ e : ~IsFloodfill(table[i])}, 3)
     /\ Named(PublishedTo) = NearestIn(listed, 2)
     /\ Named(FloodedTo) \subseteq NearestIn(listed, 1)
     /\ \A ind \in 0 .. Cardinality(Known) - 1 :
          GetRandomRouter(ind) # <<>> <=> \E i \in Known : ~infos[table[i]].unreachable
=============================================================================
