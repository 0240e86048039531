---------------------------- MODULE NetDbProofs ----------------------------
(***************************************************************************)
(* Proofs about the network database.  Its lookups (NetDbRequests.tla), for *)
(* any number of calls, hashes and floodfills: the table of lookups is well *)
(* formed, no callback is lost, none runs twice unless a call found no      *)
(* floodfill, and ManageRequests never drops a fresh lookup.  Its stores    *)
(* (NetDb.tla), for any routers, versions and excluded floodfills: what is  *)
(* in memory agrees with the files and the list of floodfills, and answers  *)
(* name the nearest of them.                                                *)
(***************************************************************************)
EXTENDS NetDbRequests, NetDb, FiniteSetTheorems, SequenceTheorems, WellFoundedInduction, TLAPS

(* The table maps a hash to a call that asked for it, and a call that has   *)
(* not started has neither a hash, nor a callback, nor an outcome.          *)
TableInv ==
  /\ \A i \in Idents : m_RequestedDestinations[i] # None
                         => ident[m_RequestedDestinations[i]] = i
  /\ \A c \in Calls : pc[c] = "idle" => /\ ident[c] = None
                                        /\ outcomes[c] = <<>>
                                        /\ ~m_RequestComplete[c]
  /\ \A c \in Calls : pc[c] # "idle" => ident[c] \in Idents
  /\ \A a \in Actors : rc[a].at # "idle" =>
       /\ rc[a].req \in Calls
       /\ pc[rc[a].req] # "idle"

(* A started client call still has its callback or has had it run.          *)
CallbackInv ==
  /\ \A c \in ClientCalls :
       pc[c] # "idle" => m_RequestComplete[c] \/ outcomes[c] # <<>>
  /\ \A a \in Actors : rc[a].at = "called" => outcomes[rc[a].req] # <<>>

LostInv == TypeOK /\ TableInv /\ CallbackInv /\ NoLostCallback

(* No client call has found itself without a floodfill.                     *)
AllRouted == \A d \in ClientCalls : pc[d] \notin {"failing", "failed"}

(* The NetDb thread makes one call at a time.  While AllRouted it is the    *)
(* only one inside RequestComplete, on a request that stays in the table; a *)
(* callback still set has not run, except in the window between running it  *)
(* and resetting it.                                                        *)
OnceInv ==
  /\ \A c, d \in NetDbCalls : pc[c] \in {"created", "failing"}
                             /\ pc[d] \in {"created", "failing"} => c = d
  /\ \A c \in NetDbCalls : pc[c] = "created" => rc[NetDbThread].at = "idle"
  /\ \A a \in ClientCalls : pc[a] \notin {"failing"} => rc[a].at = "idle"
  /\ AllRouted =>
       /\ ~dangling
       /\ rc[NetDbThread].at # "idle" => InTable(rc[NetDbThread].req)
       /\ rc[NetDbThread].at = "cleared" =>
            ~m_RequestComplete[rc[NetDbThread].req]
       /\ \A c \in Calls :
            /\ Len(outcomes[c]) <= 1
            /\ m_RequestComplete[c] =>
                 \/ outcomes[c] = <<>>
                 \/ rc[NetDbThread].at = "called" /\ rc[NetDbThread].req = c

-----------------------------------------------------------------------------
(* Facts used in many places.                                               *)

LEMMA ActorFacts ==
  /\ NetDbThread \in Actors
  /\ ClientCalls \subseteq Actors
  /\ NetDbThread \notin ClientCalls
  /\ \A c \in Calls : ActorOf(c) \in Actors
  /\ \A c \in Calls : c \in ClientCalls \/ c \in NetDbCalls
  /\ \A c \in ClientCalls : c \in Calls
  /\ \A c \in NetDbCalls : c \in Calls /\ c \notin ClientCalls
  /\ None \notin Calls
  /\ None \notin Floodfills
  /\ None \notin Idents
BY ConstantsAssumption DEF Actors, ActorOf, Calls

(* Appending to a sequence makes it nonempty.                               *)
LEMMA AppendFacts ==
  ASSUME NEW s \in Seq(Outcomes), NEW x \in Outcomes
  PROVE  /\ Append(s, x) \in Seq(Outcomes)
         /\ Append(s, x) # <<>>
         /\ Len(Append(s, x)) = Len(s) + 1
  BY AppendProperties

(* What Destroy leaves behind, field by field.                              *)
LEMMA DestroyFacts ==
  ASSUME TypeOK, NEW D, NEW peers, NEW ages,
         peers \in [Calls -> SUBSET Floodfills], ages \in [Calls -> Ages],
         Destroy(D, peers, ages)
  PROVE  /\ outcomes' \in [Calls -> Seq(Outcomes)]
         /\ m_RequestComplete' \in [Calls -> BOOLEAN]
         /\ m_ExcludedPeers' \in [Calls -> SUBSET Floodfills]
         /\ age' \in [Calls -> Ages]
         /\ \A c \in Calls :
              /\ outcomes[c] # <<>> => outcomes'[c] # <<>>
              /\ (m_RequestComplete[c] \/ outcomes[c] # <<>>)
                   => (m_RequestComplete'[c] \/ outcomes'[c] # <<>>)
              /\ c \in D /\ m_RequestComplete[c] => outcomes'[c] # <<>>
              /\ c \notin D => /\ outcomes'[c] = outcomes[c]
                               /\ m_RequestComplete'[c] = m_RequestComplete[c]
              /\ ~m_RequestComplete[c] => /\ outcomes'[c] = outcomes[c]
                                          /\ ~m_RequestComplete'[c]
              /\ c \in D => ~m_RequestComplete'[c]
              /\ c \in D /\ m_RequestComplete[c]
                   => Len(outcomes'[c]) = Len(outcomes[c]) + 1
<1>1. /\ m_ExcludedPeers' \in [Calls -> SUBSET Floodfills]
      /\ age' \in [Calls -> Ages]
  BY DEF Destroy, Ages
<1>2. /\ m_RequestComplete' \in [Calls -> BOOLEAN]
      /\ \A c \in Calls : m_RequestComplete'[c] = (m_RequestComplete[c] /\ c \notin D)
  BY DEF Destroy, TypeOK
<1>3. /\ outcomes' \in [Calls -> Seq(Outcomes)]
      /\ \A c \in Calls : outcomes'[c] = IF c \in D /\ m_RequestComplete[c]
                                         THEN Append(outcomes[c], "nullptr")
                                         ELSE outcomes[c]
  BY AppendFacts DEF Destroy, TypeOK, Outcomes
<1>4. \A c \in Calls : outcomes[c] \in Seq(Outcomes) /\ m_RequestComplete[c] \in BOOLEAN
  BY DEF TypeOK
<1> QED
  BY <1>1, <1>2, <1>3, <1>4, AppendFacts DEF Outcomes
(* Type correctness is preserved by every step.                             *)
LEMMA TypeStep == TypeOK /\ TableInv /\ [Next]_vars => TypeOK'
<1> SUFFICES ASSUME TypeOK, TableInv, [Next]_vars PROVE TypeOK'
  OBVIOUS
<1> USE ActorFacts
<1>1. ASSUME NEW c \in Calls, NEW i \in Idents, CreateRequest(c, i),
             responses' \in SUBSET Idents
      PROVE  TypeOK'
  <2>1. pc' \in [Calls -> PCs] /\ ident' \in [Calls -> Idents \cup {None}]
    BY <1>1 DEF CreateRequest, TypeOK, PCs
  <2>2. CASE m_RequestedDestinations[i] = None
    <3>1. /\ m_RequestedDestinations' = [m_RequestedDestinations EXCEPT ![i] = c]
          /\ m_RequestComplete' = [m_RequestComplete EXCEPT ![c] = c \in ClientCalls]
          /\ outcomes' = outcomes
      BY <1>1, <2>2 DEF CreateRequest
    <3>2. m_RequestComplete' \in [Calls -> BOOLEAN]
      <4>1. (c \in ClientCalls) \in BOOLEAN
        OBVIOUS
      <4> QED
        BY <3>1, <4>1 DEF TypeOK
    <3> QED
      BY <1>1, <2>1, <3>1, <3>2 DEF CreateRequest, TypeOK
  <2>3. CASE m_RequestedDestinations[i] # None
    <3>1. /\ m_RequestedDestinations' = m_RequestedDestinations
          /\ m_RequestComplete' = m_RequestComplete
          /\ outcomes' = [outcomes EXCEPT ![c] =
                IF c \in ClientCalls THEN Append(@, "nullptr") ELSE @]
      BY <1>1, <2>3 DEF CreateRequest
    <3>2. outcomes[c] \in Seq(Outcomes) /\ "nullptr" \in Outcomes
      BY DEF TypeOK, Outcomes
    <3>3. Append(outcomes[c], "nullptr") \in Seq(Outcomes)
      BY <3>2, AppendFacts
    <3>4. outcomes' \in [Calls -> Seq(Outcomes)]
      BY <3>1, <3>2, <3>3 DEF TypeOK
    <3> QED
      BY <1>1, <2>1, <3>1, <3>4 DEF CreateRequest, TypeOK
  <2> QED
    BY <2>2, <2>3
<1>2. ASSUME NEW c \in Calls, NEW i \in Idents, ClientRequest(c, i)
      PROVE  TypeOK'
  BY <1>2, <1>1 DEF ClientRequest, TypeOK
<1>3. ASSUME NEW c \in Calls, NEW i \in Idents, NetDbRequest(c, i)
      PROVE  TypeOK'
  BY <1>3, <1>1 DEF NetDbRequest, TypeOK
<1>4. ASSUME NEW c \in Calls, NEW i \in Idents, Explore(c, i)
      PROVE  TypeOK'
  BY <1>4 DEF Explore, TypeOK, PCs, Ages, Candidates, CreateRequestMessage, Asked, Dated
<1>5. ASSUME NEW c \in Calls, SendLookup(c)
      PROVE  TypeOK'
  <2>1. PICK f \in Candidates(c) :
          Destroy({d \in {c} : ~InTable(d)}, Asked(c, f), Dated(c))
    BY <1>5 DEF SendLookup
  <2>2. Asked(c, f) \in [Calls -> SUBSET Floodfills] /\ Dated(c) \in [Calls -> Ages]
    BY DEF Asked, Dated, Candidates, TypeOK, Ages
  <2>3. /\ outcomes' \in [Calls -> Seq(Outcomes)]
        /\ m_RequestComplete' \in [Calls -> BOOLEAN]
        /\ m_ExcludedPeers' \in [Calls -> SUBSET Floodfills]
        /\ age' \in [Calls -> Ages]
    BY <2>1, <2>2, DestroyFacts
  <2> QED
    BY <1>5, <2>3 DEF SendLookup, TypeOK, PCs
<1>6. ASSUME NEW a \in Actors, NEW i \in Idents, NEW x \in Outcomes, Find(a, i, x)
      PROVE  rc' \in [Actors -> Progress]
  BY <1>6 DEF Find, TypeOK, Progress, Idle, Outcomes
<1>7. ASSUME NEW c \in Calls, NoFloodfill(c)
      PROVE  TypeOK'
  <2>1. rc' \in [Actors -> Progress]
    BY <1>6, <1>7 DEF NoFloodfill, TypeOK, TableInv, Outcomes
  <2> QED
    BY <1>7, <2>1 DEF NoFloodfill, TypeOK, PCs
<1>8. ASSUME NEW a \in Actors, Callback(a)
      PROVE  TypeOK'
  <2> DEFINE r == rc[a].req
  <2>1. r \in Calls /\ rc[a].result \in Outcomes
    BY <1>8 DEF Callback, TableInv, TypeOK, Progress
  <2>2. CASE ~InTable(r)
    BY <1>8, <2>2 DEF Callback, TypeOK
  <2>3. CASE InTable(r) /\ m_RequestComplete[r]
    <3>1. /\ outcomes' = [outcomes EXCEPT ![r] = Append(@, rc[a].result)]
          /\ rc' = [rc EXCEPT ![a].at = "called"]
          /\ dangling' = dangling
      BY <1>8, <2>3 DEF Callback
    <3>2. outcomes[r] \in Seq(Outcomes)
      BY <2>1 DEF TypeOK
    <3>3. outcomes' \in [Calls -> Seq(Outcomes)]
      BY <2>1, <3>1, <3>2, AppendFacts DEF TypeOK
    <3>4. rc' \in [Actors -> Progress]
      BY <3>1 DEF TypeOK, Progress
    <3> QED
      BY <1>8, <3>1, <3>3, <3>4 DEF Callback, TypeOK
  <2>4. CASE InTable(r) /\ ~m_RequestComplete[r]
    <3>1. /\ outcomes' = outcomes
          /\ rc' = [rc EXCEPT ![a].at = "cleared"]
          /\ dangling' = dangling
      BY <1>8, <2>4 DEF Callback
    <3>2. rc' \in [Actors -> Progress]
      BY <3>1 DEF TypeOK, Progress
    <3> QED
      BY <1>8, <3>1, <3>2 DEF Callback, TypeOK
  <2> QED
    BY <2>2, <2>3, <2>4
<1>9. ASSUME NEW a \in Actors, ResetCallback(a)
      PROVE  TypeOK'
  <2>1. rc' \in [Actors -> Progress]
    BY <1>9 DEF ResetCallback, TypeOK, Progress
  <2> QED
    BY <1>9, <2>1 DEF ResetCallback, TypeOK
<1>10. ASSUME NEW a \in Actors, Erase(a)
       PROVE  TypeOK'
  <2>1. CASE ~InTable(rc[a].req)
    BY <1>10, <2>1 DEF Erase, TypeOK
  <2>2. CASE InTable(rc[a].req)
    <3>1. Destroy({d \in {rc[a].req} : pc[d] \notin {"created", "failing"}},
                  m_ExcludedPeers, age)
      BY <1>10, <2>2 DEF Erase
    <3>2. /\ outcomes' \in [Calls -> Seq(Outcomes)]
          /\ m_RequestComplete' \in [Calls -> BOOLEAN]
          /\ m_ExcludedPeers' \in [Calls -> SUBSET Floodfills]
          /\ age' \in [Calls -> Ages]
      BY <3>1, DestroyFacts DEF TypeOK
    <3>3. /\ rc' = [rc EXCEPT ![a] = Idle]
          /\ m_RequestedDestinations' =
               [m_RequestedDestinations EXCEPT ![ident[rc[a].req]] = None]
          /\ dangling' = dangling
      BY <1>10, <2>2 DEF Erase
    <3>4. rc' \in [Actors -> Progress]
      BY <3>3 DEF TypeOK, Idle, Progress, Outcomes
    <3>5. m_RequestedDestinations' \in [Idents -> Calls \cup {None}]
      BY <3>3 DEF TypeOK
    <3> QED
      BY <1>10, <3>2, <3>3, <3>4, <3>5 DEF Erase, TypeOK
  <2> QED
    BY <2>1, <2>2
<1>11. ASSUME NEW c \in Calls, FailReturn(c)
       PROVE  TypeOK'
  <2>1. Destroy({d \in {c} : ~InTable(d)}, m_ExcludedPeers, age)
    BY <1>11 DEF FailReturn
  <2>2. /\ outcomes' \in [Calls -> Seq(Outcomes)]
        /\ m_RequestComplete' \in [Calls -> BOOLEAN]
        /\ m_ExcludedPeers' \in [Calls -> SUBSET Floodfills]
        /\ age' \in [Calls -> Ages]
    BY <2>1, DestroyFacts DEF TypeOK
  <2> QED
    BY <1>11, <2>2 DEF FailReturn, TypeOK, PCs
<1>12. ASSUME NEW i \in Idents, AddRouterInfo(i)
       PROVE  TypeOK'
  <2>1. rc' \in [Actors -> Progress]
    BY <1>6, <1>12 DEF AddRouterInfo, Outcomes
  <2> QED
    BY <1>12, <2>1 DEF AddRouterInfo, TypeOK
<1>13. ASSUME NEW i \in Idents, HandleDatabaseSearchReply(i)
       PROVE  TypeOK'
  <2>1. rc' \in [Actors -> Progress]
    BY <1>6, <1>13 DEF HandleDatabaseSearchReply, Outcomes, TypeOK
  <2>2. \A r \in Calls : \A f \in Candidates(r) : CreateRequestMessage(r, f) =>
          m_ExcludedPeers' \in [Calls -> SUBSET Floodfills] /\ age' \in [Calls -> Ages]
    BY DEF CreateRequestMessage, Asked, Dated, Candidates, TypeOK, Ages
  <2>3. m_RequestedDestinations[i] # None => m_RequestedDestinations[i] \in Calls
    BY DEF TypeOK
  <2>4. m_ExcludedPeers' \in [Calls -> SUBSET Floodfills] /\ age' \in [Calls -> Ages]
    BY <1>13, <2>2, <2>3 DEF HandleDatabaseSearchReply, TypeOK
  <2> QED
    BY <1>13, <2>1, <2>4 DEF HandleDatabaseSearchReply, TypeOK
<1>14. ASSUME ManageRequests
       PROVE  TypeOK'
  <2>1. PICK next \in [Late -> Floodfills \cup {None}] :
          /\ \A c \in Late \ Erased(next) : next[c] \in Candidates(c)
          /\ Destroy({c \in Erased(next) : pc[c] \notin {"created", "failing"}},
               [c \in Calls |-> m_ExcludedPeers[c] \cup
                   IF c \in Late \ Erased(next) THEN {next[c]} ELSE {}],
               [c \in Calls |-> IF c \in Late \ Erased(next) THEN "fresh" ELSE age[c]])
    BY <1>14 DEF ManageRequests
  <2> DEFINE peers == [c \in Calls |-> m_ExcludedPeers[c] \cup
                        IF c \in Late \ Erased(next) THEN {next[c]} ELSE {}]
             ages == [c \in Calls |-> IF c \in Late \ Erased(next) THEN "fresh"
                                       ELSE age[c]]
  <2>4. peers \in [Calls -> SUBSET Floodfills]
    BY <2>1 DEF TypeOK, Candidates
  <2>5. ages \in [Calls -> Ages]
    BY DEF TypeOK, Ages
  <2>2. /\ outcomes' \in [Calls -> Seq(Outcomes)]
        /\ m_RequestComplete' \in [Calls -> BOOLEAN]
        /\ m_ExcludedPeers' \in [Calls -> SUBSET Floodfills]
        /\ age' \in [Calls -> Ages]
    BY <2>1, <2>4, <2>5, DestroyFacts
  <2>3. m_RequestedDestinations' \in [Idents -> Calls \cup {None}]
    BY <1>14 DEF ManageRequests, TypeOK
  <2> QED
    BY <1>14, <2>2, <2>3 DEF ManageRequests, TypeOK
<1>15. ASSUME NEW c \in Calls, Elapse(c)
       PROVE  TypeOK'
  BY <1>15 DEF Elapse, TypeOK, Ages
<1>16. ASSUME Stop
       PROVE  TypeOK'
  <2>1. Destroy({c \in Calls : InTable(c)}, m_ExcludedPeers, age)
    BY <1>16 DEF Stop
  <2>2. /\ outcomes' \in [Calls -> Seq(Outcomes)]
        /\ m_RequestComplete' \in [Calls -> BOOLEAN]
        /\ m_ExcludedPeers' \in [Calls -> SUBSET Floodfills]
        /\ age' \in [Calls -> Ages]
    BY <2>1, DestroyFacts DEF TypeOK
  <2> QED
    BY <1>16, <2>2 DEF Stop, TypeOK
<1>17. CASE UNCHANGED vars
  BY <1>17 DEF vars, TypeOK
<1> QED
  BY <1>2, <1>3, <1>4, <1>5, <1>7, <1>8, <1>9, <1>10, <1>11, <1>12, <1>13, <1>14,
     <1>15, <1>16, <1>17
  DEF Next, CallStep, CompleteStep
-----------------------------------------------------------------------------
(* The table stays well formed.                                             *)
LEMMA TableStep == TypeOK /\ TableInv /\ [Next]_vars => TableInv'
<1> SUFFICES ASSUME TypeOK, TableInv, [Next]_vars PROVE TableInv'
  OBVIOUS
<1> USE ActorFacts
<1>1. ASSUME NEW c \in Calls, NEW i \in Idents, CreateRequest(c, i)
      PROVE  TableInv'
  <2>1. /\ ident' = [ident EXCEPT ![c] = i]
        /\ pc[c] = "idle" /\ pc'[c] # "idle"
        /\ \A d \in Calls : d # c => pc'[d] = pc[d]
        /\ rc' = rc
    BY <1>1 DEF CreateRequest, TypeOK
  <2>2. \A j \in Idents : m_RequestedDestinations[j] # c
    <3>1. ident[c] = None /\ c # None
      BY <2>1 DEF TableInv
    <3> QED
      BY <3>1 DEF TableInv
  <2>3. \A j \in Idents : \/ m_RequestedDestinations'[j] = m_RequestedDestinations[j]
                          \/ j = i /\ m_RequestedDestinations'[j] = c
    BY <1>1 DEF CreateRequest, TypeOK
  <2>4. \A d \in Calls : d # c => outcomes'[d] = outcomes[d] /\
                                  m_RequestComplete'[d] = m_RequestComplete[d]
    BY <1>1 DEF CreateRequest, TypeOK
  <2>5. \A j \in Idents : m_RequestedDestinations'[j] # None
                         => ident'[m_RequestedDestinations'[j]] = j
    BY <2>1, <2>2, <2>3 DEF TableInv, TypeOK
  <2> QED
    BY <2>1, <2>4, <2>5 DEF TableInv, TypeOK
<1>2. ASSUME NEW D, NEW peers \in [Calls -> SUBSET Floodfills],
             NEW ages \in [Calls -> Ages], Destroy(D, peers, ages)
      PROVE  \A c \in Calls : ~m_RequestComplete[c] =>
                outcomes'[c] = outcomes[c] /\ ~m_RequestComplete'[c]
  BY <1>2, DestroyFacts
<1>3. ASSUME NEW c \in Calls, NEW i \in Idents, Explore(c, i)
      PROVE  TableInv'
  <2>1. \A j \in Idents : m_RequestedDestinations[j] # c
    <3>1. pc[c] = "idle"
      BY <1>3 DEF Explore
    <3>2. ident[c] = None /\ c # None
      BY <3>1 DEF TableInv
    <3> QED
      BY <3>2 DEF TableInv
  <2> QED
    BY <1>3, <2>1 DEF Explore, TableInv, TypeOK
<1>4. ASSUME NEW c \in Calls, SendLookup(c)
      PROVE  TableInv'
  <2>1. PICK f \in Candidates(c) :
          Destroy({d \in {c} : ~InTable(d)}, Asked(c, f), Dated(c))
    BY <1>4 DEF SendLookup
  <2>2. Asked(c, f) \in [Calls -> SUBSET Floodfills] /\ Dated(c) \in [Calls -> Ages]
    BY DEF Asked, Dated, Candidates, TypeOK, Ages
  <2>3. \A d \in Calls : ~m_RequestComplete[d] =>
              outcomes'[d] = outcomes[d] /\ ~m_RequestComplete'[d]
    BY <1>2, <2>1, <2>2
  <2>4. \A d \in Calls : pc'[d] # "idle" <=> pc[d] # "idle"
    BY <1>4 DEF SendLookup, TypeOK
  <2> QED
    BY <1>4, <2>3, <2>4 DEF SendLookup, TableInv
<1>5. ASSUME NEW a \in Actors, NEW i \in Idents, NEW x \in Outcomes, Find(a, i, x)
      PROVE  \A b \in Actors : rc'[b].at # "idle" =>
               rc'[b].req \in Calls /\ pc[rc'[b].req] # "idle"
  BY <1>5 DEF Find, TableInv, TypeOK, Idle
<1>6. ASSUME NEW c \in Calls, NoFloodfill(c)
      PROVE  TableInv'
  <2>1. Find(ActorOf(c), ident[c], "nullptr") /\ ident[c] \in Idents /\ "nullptr" \in Outcomes
    BY <1>6 DEF NoFloodfill, TableInv, Outcomes
  <2>2. \A d \in Calls : pc'[d] # "idle" <=> pc[d] # "idle"
    BY <1>6 DEF NoFloodfill, TypeOK
  <2> QED
    BY <1>5, <1>6, <2>1, <2>2 DEF NoFloodfill, TableInv, TypeOK
<1>7. ASSUME NEW a \in Actors, Callback(a)
      PROVE  TableInv'
  <2>1. /\ rc[a].req \in Calls
        /\ pc[rc[a].req] # "idle"
    BY <1>7 DEF Callback, TableInv
  <2>2. \A d \in Calls : pc[d] = "idle" => outcomes'[d] = outcomes[d]
    BY <1>7, <2>1 DEF Callback, TypeOK
  <2>3. \A b \in Actors : rc'[b].req = rc[b].req /\ (rc'[b].at # "idle" => rc[b].at # "idle")
    <3>1. \/ rc' = rc
          \/ rc[a].at = "found" /\ rc' = [rc EXCEPT ![a].at = "called"]
          \/ rc[a].at = "found" /\ rc' = [rc EXCEPT ![a].at = "cleared"]
      BY <1>7 DEF Callback
    <3>2. ASSUME NEW x, rc[a].at = "found", rc' = [rc EXCEPT ![a].at = x]
          PROVE  \A b \in Actors : rc'[b].req = rc[b].req /\
                                   (rc'[b].at # "idle" => rc[b].at # "idle")
      BY <3>2 DEF TypeOK, Progress
    <3> QED
      BY <3>1, <3>2
  <2> QED
    BY <1>7, <2>2, <2>3 DEF Callback, TableInv
<1>8. ASSUME NEW a \in Actors, ResetCallback(a)
      PROVE  TableInv'
  <2>1. \A b \in Actors : rc'[b].req = rc[b].req /\ (rc'[b].at # "idle" => rc[b].at # "idle")
    BY <1>8 DEF ResetCallback, TypeOK, Progress
  <2> QED
    BY <1>8, <2>1 DEF ResetCallback, TableInv, TypeOK
<1>9. ASSUME NEW a \in Actors, Erase(a)
      PROVE  TableInv'
  <2>1. CASE ~InTable(rc[a].req)
    BY <1>9, <2>1 DEF Erase, TableInv
  <2>2. CASE InTable(rc[a].req)
    <3>1. Destroy({d \in {rc[a].req} : pc[d] \notin {"created", "failing"}},
                  m_ExcludedPeers, age)
      BY <1>9, <2>2 DEF Erase
    <3>2. \A c \in Calls : ~m_RequestComplete[c] =>
                outcomes'[c] = outcomes[c] /\ ~m_RequestComplete'[c]
      BY <1>2, <3>1 DEF TypeOK
    <3>3. /\ rc' = [rc EXCEPT ![a] = Idle]
          /\ m_RequestedDestinations' =
               [m_RequestedDestinations EXCEPT ![ident[rc[a].req]] = None]
          /\ pc' = pc /\ ident' = ident
      BY <1>9, <2>2 DEF Erase
    <3> QED
      BY <3>2, <3>3 DEF TableInv, TypeOK, Idle
  <2> QED
    BY <2>1, <2>2
<1>10. ASSUME NEW c \in Calls, FailReturn(c)
       PROVE  TableInv'
  <2>1. Destroy({d \in {c} : ~InTable(d)}, m_ExcludedPeers, age)
    BY <1>10 DEF FailReturn
  <2>2. \A d \in Calls : ~m_RequestComplete[d] =>
              outcomes'[d] = outcomes[d] /\ ~m_RequestComplete'[d]
    BY <1>2, <2>1 DEF TypeOK
  <2> QED
    BY <1>10, <2>2 DEF FailReturn, TableInv, TypeOK
<1>11. ASSUME NEW i \in Idents, AddRouterInfo(i)
       PROVE  TableInv'
  BY <1>5, <1>11 DEF AddRouterInfo, TableInv, Outcomes
<1>12. ASSUME NEW i \in Idents, HandleDatabaseSearchReply(i)
       PROVE  TableInv'
  <2>1. \A b \in Actors : rc'[b].at # "idle" =>
               rc'[b].req \in Calls /\ pc[rc'[b].req] # "idle"
    <3>1. CASE rc' = rc
      BY <3>1 DEF TableInv
    <3>2. CASE Find(NetDbThread, i, "nullptr")
      BY <1>5, <3>2 DEF Outcomes
    <3> QED
      BY <1>12, <3>1, <3>2 DEF HandleDatabaseSearchReply
  <2> QED
    BY <1>12, <2>1 DEF HandleDatabaseSearchReply, TableInv
<1>13. ASSUME ManageRequests
       PROVE  TableInv'
  <2>1. PICK D : \E peers, ages : Destroy(D, peers, ages)
    BY <1>13 DEF ManageRequests
  <2>2. \A c \in Calls : ~m_RequestComplete[c] =>
              outcomes'[c] = outcomes[c] /\ ~m_RequestComplete'[c]
    BY <2>1 DEF Destroy
  <2>3. \A i \in Idents : \/ m_RequestedDestinations'[i] = m_RequestedDestinations[i]
                          \/ m_RequestedDestinations'[i] = None
    BY <1>13 DEF ManageRequests
  <2> QED
    BY <1>13, <2>2, <2>3 DEF ManageRequests, TableInv
<1>14. ASSUME NEW c \in Calls, Elapse(c)
       PROVE  TableInv'
  BY <1>14 DEF Elapse, TableInv
<1>15. ASSUME Stop
       PROVE  TableInv'
  <2>1. Destroy({c \in Calls : InTable(c)}, m_ExcludedPeers, age)
    BY <1>15 DEF Stop
  <2>2. \A d \in Calls : ~m_RequestComplete[d] =>
              outcomes'[d] = outcomes[d] /\ ~m_RequestComplete'[d]
    BY <1>2, <2>1 DEF TypeOK
  <2> QED
    BY <1>15, <2>2 DEF Stop, TableInv
<1>16. CASE UNCHANGED vars
  BY <1>16 DEF vars, TableInv
<1> QED
  BY <1>1, <1>3, <1>4, <1>6, <1>7, <1>8, <1>9, <1>10, <1>11, <1>12, <1>13, <1>14,
     <1>15, <1>16
  DEF Next, CallStep, CompleteStep, ClientRequest, NetDbRequest
-----------------------------------------------------------------------------
(* Every step that destroys requests (RequestComplete's erasure,            *)
(* ManageRequests, Stop, the return of a call) keeps what CallbackInv says  *)
(* and runs the callbacks of the destroyed ones.                            *)
LEMMA DestroyKeeps ==
  ASSUME TypeOK, CallbackInv, NEW D, NEW peers, NEW ages, Destroy(D, peers, ages),
         peers \in [Calls -> SUBSET Floodfills], ages \in [Calls -> Ages]
  PROVE  /\ \A c \in Calls : outcomes[c] # <<>> => outcomes'[c] # <<>>
         /\ \A c \in ClientCalls : pc[c] # "idle" =>
              /\ m_RequestComplete'[c] \/ outcomes'[c] # <<>>
              /\ c \in D => outcomes'[c] # <<>>
<1>1. /\ \A c \in Calls :
            /\ outcomes[c] # <<>> => outcomes'[c] # <<>>
            /\ (m_RequestComplete[c] \/ outcomes[c] # <<>>)
                 => (m_RequestComplete'[c] \/ outcomes'[c] # <<>>)
            /\ c \in D /\ m_RequestComplete[c] => outcomes'[c] # <<>>
  BY DestroyFacts
<1> QED
  BY <1>1, ActorFacts DEF CallbackInv

(* Retries give every request well-typed fields.                            *)
LEMMA ManageFacts ==
  ASSUME TypeOK, ManageRequests
  PROVE  \E E \in SUBSET Requested :
           \E peers \in [Calls -> SUBSET Floodfills], ages \in [Calls -> Ages] :
             /\ Destroy({c \in E : pc[c] \notin {"created", "failing"}}, peers, ages)
             /\ \A i \in Idents : m_RequestedDestinations'[i] =
                  IF m_RequestedDestinations[i] \in E THEN None
                  ELSE m_RequestedDestinations[i]
             /\ \A c \in E : age[c] # "fresh"
<1>1. PICK next \in [Late -> Floodfills \cup {None}] :
        /\ \A c \in Late \ Erased(next) : next[c] \in Candidates(c)
        /\ m_RequestedDestinations' = [i \in Idents |->
             IF m_RequestedDestinations[i] \in Erased(next) THEN None
             ELSE m_RequestedDestinations[i]]
        /\ Destroy({c \in Erased(next) : pc[c] \notin {"created", "failing"}},
             [c \in Calls |-> m_ExcludedPeers[c] \cup
                 IF c \in Late \ Erased(next) THEN {next[c]} ELSE {}],
             [c \in Calls |-> IF c \in Late \ Erased(next) THEN "fresh" ELSE age[c]])
  BY DEF ManageRequests
<1> DEFINE peers == [c \in Calls |-> m_ExcludedPeers[c] \cup
                      IF c \in Late \ Erased(next) THEN {next[c]} ELSE {}]
           ages == [c \in Calls |-> IF c \in Late \ Erased(next) THEN "fresh"
                                     ELSE age[c]]
<1>2. peers \in [Calls -> SUBSET Floodfills]
  BY <1>1 DEF TypeOK, Candidates
<1>3. ages \in [Calls -> Ages]
  BY DEF TypeOK, Ages
<1>4. Erased(next) \in SUBSET Requested /\ \A c \in Erased(next) : age[c] # "fresh"
  BY DEF Erased, Late, GivenUp, Obsolete, Retriable
<1> HIDE DEF peers, ages
<1>5. Destroy({c \in Erased(next) : pc[c] \notin {"created", "failing"}}, peers, ages)
  BY <1>1 DEF peers, ages
<1> QED
  BY <1>1, <1>2, <1>3, <1>4, <1>5

(* A started client call keeps its callback until it has run.               *)
LEMMA CallbackStep ==
  TypeOK /\ TableInv /\ CallbackInv /\ [Next]_vars => CallbackInv'
<1> SUFFICES ASSUME TypeOK, TableInv, CallbackInv, [Next]_vars PROVE CallbackInv'
  OBVIOUS
<1> USE ActorFacts
<1>1. ASSUME NEW c \in Calls, NEW i \in Idents, CreateRequest(c, i)
      PROVE  CallbackInv'
  <2>1. /\ pc[c] = "idle"
        /\ \A d \in Calls : d # c => /\ pc'[d] = pc[d]
                                     /\ outcomes'[d] = outcomes[d]
                                     /\ m_RequestComplete'[d] = m_RequestComplete[d]
        /\ rc' = rc
    BY <1>1 DEF CreateRequest, TypeOK
  <2>2. c \in ClientCalls => m_RequestComplete'[c] \/ outcomes'[c] # <<>>
    <3>1. CASE m_RequestedDestinations[i] = None
      BY <1>1, <3>1 DEF CreateRequest, TypeOK
    <3>2. CASE m_RequestedDestinations[i] # None /\ c \in ClientCalls
      <4>1. outcomes' = [outcomes EXCEPT ![c] = Append(@, "nullptr")]
        BY <1>1, <3>2 DEF CreateRequest
      <4>2. outcomes[c] \in Seq(Outcomes) /\ "nullptr" \in Outcomes
        BY DEF TypeOK, Outcomes
      <4>3. outcomes'[c] = Append(outcomes[c], "nullptr")
        BY <4>1 DEF TypeOK
      <4> QED
        BY <4>2, <4>3, AppendFacts
    <3> QED
      BY <3>1, <3>2
  <2>3. \A a \in Actors : rc[a].at = "called" => rc[a].req \in Calls /\ rc[a].req # c
    BY <2>1 DEF TableInv
  <2> QED
    BY <2>1, <2>2, <2>3 DEF CallbackInv
<1>2. ASSUME NEW c \in Calls, NEW i \in Idents, Explore(c, i)
      PROVE  CallbackInv'
  BY <1>2 DEF Explore, CallbackInv, NetDbIdle, TypeOK
<1>3. ASSUME NEW D, NEW peers \in [Calls -> SUBSET Floodfills],
             NEW ages \in [Calls -> Ages], Destroy(D, peers, ages),
             \A d \in Calls : pc'[d] # "idle" <=> pc[d] # "idle",
             \A a \in Actors : rc'[a] = rc[a] \/ rc'[a].at # "called"
      PROVE  CallbackInv'
  <2>1. /\ \A c \in Calls : outcomes[c] # <<>> => outcomes'[c] # <<>>
        /\ \A c \in ClientCalls : pc[c] # "idle" =>
              m_RequestComplete'[c] \/ outcomes'[c] # <<>>
    BY <1>3, DestroyKeeps
  <2>2. \A a \in Actors : rc[a].at = "called" => rc[a].req \in Calls
    BY DEF TableInv
  <2> QED
    BY <1>3, <2>1, <2>2 DEF CallbackInv
<1>4. ASSUME NEW c \in Calls, SendLookup(c)
      PROVE  CallbackInv'
  <2>1. PICK f \in Candidates(c) :
          Destroy({d \in {c} : ~InTable(d)}, Asked(c, f), Dated(c))
    BY <1>4 DEF SendLookup
  <2>2. Asked(c, f) \in [Calls -> SUBSET Floodfills] /\ Dated(c) \in [Calls -> Ages]
    BY DEF Asked, Dated, Candidates, TypeOK, Ages
  <2>3. (\A d \in Calls : pc'[d] # "idle" <=> pc[d] # "idle") /\ rc' = rc
    BY <1>4 DEF SendLookup, TypeOK
  <2> QED
    BY <1>3, <2>1, <2>2, <2>3
<1>5. ASSUME NEW c \in Calls, NoFloodfill(c)
      PROVE  CallbackInv'
  <2>1. \A b \in Actors : rc'[b] = rc[b] \/ rc'[b].at # "called"
    BY <1>5 DEF NoFloodfill, Find, Idle, TypeOK
  <2>2. \A d \in Calls : pc'[d] # "idle" <=> pc[d] # "idle"
    BY <1>5 DEF NoFloodfill, TypeOK
  <2> QED
    BY <1>5, <2>1, <2>2 DEF NoFloodfill, CallbackInv
<1>6. ASSUME NEW a \in Actors, Callback(a)
      PROVE  CallbackInv'
  <2> DEFINE r == rc[a].req
  <2>1. r \in Calls /\ rc[a].result \in Outcomes
    BY <1>6 DEF Callback, TableInv, TypeOK, Progress
  <2>2. CASE InTable(r) /\ m_RequestComplete[r]
    <3>1. /\ outcomes' = [outcomes EXCEPT ![r] = Append(@, rc[a].result)]
          /\ rc' = [rc EXCEPT ![a].at = "called"]
      BY <1>6, <2>2 DEF Callback
    <3>2. outcomes[r] \in Seq(Outcomes)
      BY <2>1 DEF TypeOK
    <3>3. outcomes'[r] # <<>> /\ \A d \in Calls : d # r => outcomes'[d] = outcomes[d]
      BY <2>1, <3>1, <3>2, AppendFacts DEF TypeOK
    <3>4. \A b \in Actors : rc'[b].req = rc[b].req /\ (b # a => rc'[b] = rc[b])
      BY <3>1 DEF TypeOK, Progress
    <3>5. \A b \in Actors : rc[b].at = "called" => rc[b].req \in Calls
      BY DEF TableInv
    <3> QED
      BY <1>6, <3>3, <3>4, <3>5 DEF Callback, CallbackInv
  <2>3. CASE ~(InTable(r) /\ m_RequestComplete[r])
    <3>1. outcomes' = outcomes /\ (rc' = rc \/ rc' = [rc EXCEPT ![a].at = "cleared"])
      BY <1>6, <2>3 DEF Callback
    <3>2. \A b \in Actors : rc'[b] = rc[b] \/ rc'[b].at # "called"
      BY <3>1 DEF TypeOK, Progress
    <3> QED
      BY <1>6, <3>1, <3>2 DEF Callback, CallbackInv
  <2> QED
    BY <2>2, <2>3
<1>7. ASSUME NEW a \in Actors, ResetCallback(a)
      PROVE  CallbackInv'
  <2>1. \A b \in Actors : rc'[b] = rc[b] \/ rc'[b].at # "called"
    BY <1>7 DEF ResetCallback, TypeOK, Progress
  <2>2. rc[a].req \in Calls /\ outcomes[rc[a].req] # <<>>
    BY <1>7 DEF ResetCallback, TableInv, CallbackInv
  <2>3. \A d \in Calls : d # rc[a].req => m_RequestComplete'[d] = m_RequestComplete[d]
    BY <1>7 DEF ResetCallback, TypeOK
  <2> QED
    BY <1>7, <2>1, <2>2, <2>3 DEF ResetCallback, CallbackInv
<1>8. ASSUME NEW a \in Actors, Erase(a)
      PROVE  CallbackInv'
  <2>1. CASE ~InTable(rc[a].req)
    BY <1>8, <2>1 DEF Erase, CallbackInv
  <2>2. CASE InTable(rc[a].req)
    <3>1. /\ Destroy({d \in {rc[a].req} : pc[d] \notin {"created", "failing"}},
                     m_ExcludedPeers, age)
          /\ rc' = [rc EXCEPT ![a] = Idle]
          /\ pc' = pc
      BY <1>8, <2>2 DEF Erase
    <3>2. \A b \in Actors : rc'[b] = rc[b] \/ rc'[b].at # "called"
      BY <3>1 DEF TypeOK, Idle
    <3>3. m_ExcludedPeers \in [Calls -> SUBSET Floodfills] /\ age \in [Calls -> Ages]
      BY DEF TypeOK
    <3> QED
      BY <1>3, <3>1, <3>2, <3>3
  <2> QED
    BY <2>1, <2>2
<1>9. ASSUME NEW c \in Calls, FailReturn(c)
      PROVE  CallbackInv'
  <2>1. /\ Destroy({d \in {c} : ~InTable(d)}, m_ExcludedPeers, age)
        /\ rc' = rc
        /\ \A d \in Calls : pc'[d] # "idle" <=> pc[d] # "idle"
    BY <1>9 DEF FailReturn, TypeOK
  <2>2. m_ExcludedPeers \in [Calls -> SUBSET Floodfills] /\ age \in [Calls -> Ages]
    BY DEF TypeOK
  <2> QED
    BY <1>3, <2>1, <2>2
<1>10. ASSUME NEW i \in Idents, AddRouterInfo(i) \/ HandleDatabaseSearchReply(i)
       PROVE  CallbackInv'
  <2>1. /\ pc' = pc /\ outcomes' = outcomes /\ m_RequestComplete' = m_RequestComplete
        /\ rc' = rc \/ Find(NetDbThread, i, "nullptr") \/ Find(NetDbThread, i, "router")
    BY <1>10 DEF AddRouterInfo, HandleDatabaseSearchReply
  <2>2. \A b \in Actors : rc'[b] = rc[b] \/ rc'[b].at # "called"
    BY <2>1 DEF Find, Idle, TypeOK
  <2> QED
    BY <2>1, <2>2 DEF CallbackInv
<1>11. ASSUME ManageRequests
       PROVE  CallbackInv'
  <2>1. PICK E \in SUBSET Requested :
          \E peers \in [Calls -> SUBSET Floodfills], ages \in [Calls -> Ages] :
            Destroy({c \in E : pc[c] \notin {"created", "failing"}}, peers, ages)
    BY <1>11, ManageFacts
  <2>2. pc' = pc /\ rc' = rc
    BY <1>11 DEF ManageRequests
  <2> QED
    BY <1>3, <2>1, <2>2
<1>12. ASSUME NEW c \in Calls, Elapse(c)
       PROVE  CallbackInv'
  BY <1>12 DEF Elapse, CallbackInv
<1>13. ASSUME Stop
       PROVE  CallbackInv'
  <2>1. /\ Destroy({c \in Calls : InTable(c)}, m_ExcludedPeers, age)
        /\ pc' = pc /\ rc' = rc
    BY <1>13 DEF Stop
  <2>2. m_ExcludedPeers \in [Calls -> SUBSET Floodfills] /\ age \in [Calls -> Ages]
    BY DEF TypeOK
  <2> QED
    BY <1>3, <2>1, <2>2
<1>14. CASE UNCHANGED vars
  BY <1>14 DEF vars, CallbackInv
<1> QED
  BY <1>1, <1>2, <1>4, <1>5, <1>6, <1>7, <1>8, <1>9, <1>10, <1>11, <1>12, <1>13, <1>14
  DEF Next, CallStep, CompleteStep, ClientRequest, NetDbRequest
-----------------------------------------------------------------------------
(* No step loses a callback: a request that leaves the table, or whose call *)
(* returns after it has left, has run it or runs it in that step.           *)
LEMMA NoLostStep ==
  LostInv /\ [Next]_vars => NoLostCallback'
<1> SUFFICES ASSUME LostInv, [Next]_vars,
                    NEW c \in ClientCalls,
                    pc'[c] \in {"done", "failed"}, ~InTable(c)', ~dangling'
             PROVE  outcomes'[c] # <<>>
  BY DEF NoLostCallback
<1> USE ActorFacts DEF LostInv
<1>0. /\ pc[c] \in {"done", "failed"} /\ ~InTable(c) /\ ~dangling => outcomes[c] # <<>>
      /\ pc[c] # "idle" => ident[c] \in Idents
      /\ c \in Calls
  BY DEF NoLostCallback, TableInv
<1>1. ASSUME NEW d \in Calls, NEW i \in Idents, CreateRequest(d, i)
      PROVE  outcomes'[c] # <<>>
  <2>1. CASE d = c
    <3>1. m_RequestedDestinations[i] # None
      BY <1>1, <2>1 DEF CreateRequest, TypeOK
    <3>2. outcomes'[c] = Append(outcomes[c], "nullptr")
      BY <1>1, <2>1, <3>1 DEF CreateRequest, TypeOK
    <3>3. outcomes[c] \in Seq(Outcomes) /\ "nullptr" \in Outcomes
      BY DEF TypeOK, Outcomes
    <3> QED
      BY <3>2, <3>3, AppendFacts
  <2>2. CASE d # c
    <3>1. /\ pc'[c] = pc[c] /\ ident'[c] = ident[c] /\ outcomes'[c] = outcomes[c]
          /\ ~dangling
      BY <1>1, <2>2 DEF CreateRequest, TypeOK
    <3>2. InTable(c) => InTable(c)'
      BY <1>1, <2>2, <3>1 DEF CreateRequest, TypeOK, InTable
    <3> QED
      BY <1>0, <3>1, <3>2
  <2> QED
    BY <2>1, <2>2
<1>2. ASSUME NEW d \in Calls, NEW i \in Idents, Explore(d, i)
      PROVE  outcomes'[c] # <<>>
  <2>1. /\ pc'[c] = pc[c] /\ ident'[c] = ident[c] /\ outcomes'[c] = outcomes[c]
        /\ ~dangling
    BY <1>2 DEF Explore, TypeOK, NetDbIdle
  <2>2. InTable(c) => InTable(c)'
    BY <1>2, <2>1 DEF Explore, TypeOK, InTable
  <2> QED
    BY <1>0, <2>1, <2>2
<1>3. ASSUME NEW d \in Calls, NEW peers \in [Calls -> SUBSET Floodfills],
             NEW ages \in [Calls -> Ages],
             Destroy({x \in {d} : ~InTable(x)}, peers, ages),
             pc[d] # "idle", ~dangling,
             \A x \in Calls : x # d => pc'[x] = pc[x],
             ident' = ident, m_RequestedDestinations' = m_RequestedDestinations
      PROVE  outcomes'[c] # <<>>
  <2>1. InTable(c)' = InTable(c)
    BY <1>3 DEF InTable
  <2>2. /\ outcomes[c] # <<>> => outcomes'[c] # <<>>
        /\ pc[c] # "idle" /\ c = d => outcomes'[c] # <<>>
    BY <1>3, <2>1, DestroyKeeps
  <2> QED
    BY <1>0, <1>3, <2>1, <2>2
<1>4. ASSUME NEW d \in Calls, SendLookup(d)
      PROVE  outcomes'[c] # <<>>
  <2>1. PICK f \in Candidates(d) :
          Destroy({x \in {d} : ~InTable(x)}, Asked(d, f), Dated(d))
    BY <1>4 DEF SendLookup
  <2>2. Asked(d, f) \in [Calls -> SUBSET Floodfills] /\ Dated(d) \in [Calls -> Ages]
    BY DEF Asked, Dated, Candidates, TypeOK, Ages
  <2>3. /\ pc[d] # "idle" /\ ~dangling
        /\ \A x \in Calls : x # d => pc'[x] = pc[x]
        /\ ident' = ident /\ m_RequestedDestinations' = m_RequestedDestinations
    BY <1>4 DEF SendLookup, TypeOK
  <2> QED
    BY <1>3, <2>1, <2>2, <2>3
<1>5. ASSUME NEW d \in Calls, FailReturn(d)
      PROVE  outcomes'[c] # <<>>
  <2>1. /\ Destroy({x \in {d} : ~InTable(x)}, m_ExcludedPeers, age)
        /\ pc[d] # "idle" /\ ~dangling
        /\ \A x \in Calls : x # d => pc'[x] = pc[x]
        /\ ident' = ident /\ m_RequestedDestinations' = m_RequestedDestinations
    BY <1>5 DEF FailReturn, TypeOK
  <2>2. m_ExcludedPeers \in [Calls -> SUBSET Floodfills] /\ age \in [Calls -> Ages]
    BY DEF TypeOK
  <2> QED
    BY <1>3, <2>1, <2>2
<1>6. ASSUME NEW D, NEW peers \in [Calls -> SUBSET Floodfills],
             NEW ages \in [Calls -> Ages], Destroy(D, peers, ages),
             pc' = pc, ident' = ident, ~dangling,
             InTable(c) /\ ~InTable(c)' /\ pc[c] \in {"done", "failed"} => c \in D
      PROVE  outcomes'[c] # <<>>
  <2>1. /\ outcomes[c] # <<>> => outcomes'[c] # <<>>
        /\ pc[c] # "idle" /\ c \in D => outcomes'[c] # <<>>
    BY <1>6, DestroyKeeps
  <2> QED
    BY <1>0, <1>6, <2>1
<1>7. ASSUME NEW a \in Actors, Erase(a)
      PROVE  outcomes'[c] # <<>>
  <2> DEFINE r == rc[a].req
  <2>1. InTable(r) /\ ~dangling
    BY <1>7 DEF Erase
  <2>2. /\ Destroy({d \in {r} : pc[d] \notin {"created", "failing"}},
                   m_ExcludedPeers, age)
        /\ m_RequestedDestinations' = [m_RequestedDestinations EXCEPT ![ident[r]] = None]
        /\ pc' = pc /\ ident' = ident
    BY <1>7, <2>1 DEF Erase
  <2>3. m_ExcludedPeers \in [Calls -> SUBSET Floodfills] /\ age \in [Calls -> Ages]
    BY DEF TypeOK
  <2>4. InTable(c) /\ ~InTable(c)' /\ pc[c] \in {"done", "failed"}
          => c \in {d \in {r} : pc[d] \notin {"created", "failing"}}
    BY <2>1, <2>2 DEF InTable, TypeOK
  <2> QED
    BY <1>6, <2>1, <2>2, <2>3, <2>4
<1>8. ASSUME ManageRequests
      PROVE  outcomes'[c] # <<>>
  <2>1. PICK E \in SUBSET Requested :
          /\ \E peers \in [Calls -> SUBSET Floodfills], ages \in [Calls -> Ages] :
               Destroy({d \in E : pc[d] \notin {"created", "failing"}}, peers, ages)
          /\ \A i \in Idents : m_RequestedDestinations'[i] =
               IF m_RequestedDestinations[i] \in E THEN None
               ELSE m_RequestedDestinations[i]
    BY <1>8, ManageFacts
  <2>2. pc' = pc /\ ident' = ident /\ ~dangling
    BY <1>8 DEF ManageRequests, NetDbIdle
  <2>3. InTable(c) /\ ~InTable(c)' /\ pc[c] \in {"done", "failed"}
          => c \in {d \in E : pc[d] \notin {"created", "failing"}}
    BY <1>0, <2>1, <2>2 DEF InTable
  <2> QED
    BY <1>6, <2>1, <2>2, <2>3
<1>9. ASSUME Stop
      PROVE  outcomes'[c] # <<>>
  <2>1. /\ Destroy({d \in Calls : InTable(d)}, m_ExcludedPeers, age)
        /\ pc' = pc /\ ident' = ident /\ ~dangling
    BY <1>9 DEF Stop, NetDbIdle
  <2>2. m_ExcludedPeers \in [Calls -> SUBSET Floodfills] /\ age \in [Calls -> Ages]
    BY DEF TypeOK
  <2> QED
    BY <1>0, <1>6, <2>1, <2>2
<1>10. ASSUME NEW a \in Actors, Callback(a)
       PROVE  outcomes'[c] # <<>>
  <2>1. /\ pc' = pc /\ ident' = ident /\ ~dangling
        /\ m_RequestedDestinations' = m_RequestedDestinations
    BY <1>10 DEF Callback
  <2>2. outcomes[c] # <<>>
    BY <1>0, <2>1 DEF InTable
  <2>3. /\ rc[a].req \in Calls /\ rc[a].result \in Outcomes
        /\ \A d \in Calls : outcomes[d] \in Seq(Outcomes)
    BY <1>10 DEF Callback, TableInv, TypeOK, Progress
  <2>4. outcomes'[c] = outcomes[c] \/ outcomes'[c] = Append(outcomes[c], rc[a].result)
    BY <1>10 DEF Callback, TypeOK
  <2> QED
    BY <1>0, <2>2, <2>3, <2>4, AppendFacts
<1>11. ASSUME UNCHANGED <<ident, m_RequestedDestinations, outcomes>>, ~dangling,
              pc[c] = pc'[c] \/ pc'[c] \notin {"done", "failed"}
       PROVE  outcomes'[c] # <<>>
  BY <1>0, <1>11 DEF InTable
<1>12. ASSUME NEW d \in Calls, NoFloodfill(d)
       PROVE  outcomes'[c] # <<>>
  BY <1>11, <1>12 DEF NoFloodfill, TypeOK
<1>13. ASSUME NEW a \in Actors, ResetCallback(a)
       PROVE  outcomes'[c] # <<>>
  BY <1>11, <1>13 DEF ResetCallback
<1>14. ASSUME NEW i \in Idents, AddRouterInfo(i) \/ HandleDatabaseSearchReply(i)
       PROVE  outcomes'[c] # <<>>
  BY <1>11, <1>14 DEF AddRouterInfo, HandleDatabaseSearchReply, NetDbIdle
<1>15. ASSUME NEW d \in Calls, Elapse(d)
       PROVE  outcomes'[c] # <<>>
  BY <1>11, <1>15 DEF Elapse
<1>16. CASE UNCHANGED vars
  BY <1>11, <1>16 DEF vars
<1> QED
  BY <1>1, <1>2, <1>4, <1>5, <1>7, <1>8, <1>9, <1>10, <1>12, <1>13, <1>14, <1>15, <1>16
  DEF Next, CallStep, CompleteStep, ClientRequest, NetDbRequest

(* The initial state.                                                       *)
LEMMA InitLost == Init => LostInv
<1> SUFFICES ASSUME Init PROVE LostInv
  OBVIOUS
<1>1. <<>> \in Seq(Outcomes)
  OBVIOUS
<1>2. TypeOK
  BY <1>1, ActorFacts DEF Init, TypeOK, PCs, Ages, Outcomes, Idle, Progress
<1>3. TableInv /\ CallbackInv /\ NoLostCallback
  BY ActorFacts DEF Init, TableInv, CallbackInv, NoLostCallback, Idle, InTable
<1> QED
  BY <1>2, <1>3 DEF LostInv

(* Type correctness and no lost callback, for any number of callers, hashes *)
(* and floodfills: every request that is gone has run its callback.         *)
THEOREM NoCallbackLost == Spec => [](TypeOK /\ NoLostCallback)
<1>1. Init => LostInv
  BY InitLost
<1>2. LostInv /\ [Next]_vars => LostInv'
  BY TypeStep, TableStep, CallbackStep, NoLostStep DEF LostInv
<1>3. LostInv => TypeOK /\ NoLostCallback
  BY DEF LostInv
<1> QED
  BY <1>1, <1>2, <1>3, PTL DEF Spec

(* Every handler leaves each variable with a value of its type.             *)
THEOREM SpecTypeOK == Spec => []TypeOK
  BY NoCallbackLost, PTL

-----------------------------------------------------------------------------
(* What a step does to the calls that found no floodfill: they are never    *)
(* forgotten, so AllRouted is backward closed.                              *)
LEMMA RoutedBackward ==
  TypeOK /\ [Next]_vars /\ AllRouted' => AllRouted
<1> SUFFICES ASSUME TypeOK, [Next]_vars, AllRouted' PROVE AllRouted
  OBVIOUS
<1> USE ActorFacts
<1> DEFINE Kept == \A d \in Calls : pc[d] \in {"failing", "failed"}
                                     => pc'[d] \in {"failing", "failed"}
<1>1. ASSUME NEW c \in Calls, NEW i \in Idents,
             ClientRequest(c, i) \/ NetDbRequest(c, i) \/ Explore(c, i)
      PROVE  Kept
  BY <1>1 DEF ClientRequest, NetDbRequest, CreateRequest, Explore, TypeOK
<1>2. ASSUME NEW c \in Calls, CallStep(c)
      PROVE  Kept
  BY <1>2 DEF CallStep, SendLookup, NoFloodfill, FailReturn, TypeOK
<1>3. ASSUME pc' = pc
      PROVE  Kept
  BY <1>3
<1>4. ASSUME NEW c \in Calls, Elapse(c)
      PROVE  Kept
  BY <1>3, <1>4 DEF Elapse
<1>5. ASSUME NEW a \in Actors, CompleteStep(a)
      PROVE  Kept
  BY <1>3, <1>5 DEF CompleteStep, Callback, ResetCallback, Erase
<1>6. ASSUME NEW i \in Idents, AddRouterInfo(i) \/ HandleDatabaseSearchReply(i)
      PROVE  Kept
  BY <1>3, <1>6 DEF AddRouterInfo, HandleDatabaseSearchReply
<1>7. ASSUME ManageRequests \/ Stop \/ UNCHANGED vars
      PROVE  Kept
  BY <1>3, <1>7 DEF ManageRequests, Stop, vars
<1>8. Kept
  BY <1>1, <1>2, <1>4, <1>5, <1>6, <1>7 DEF Next
<1> QED
  BY <1>8 DEF AllRouted

(* The part of OnceInv that speaks of the state while every call has found  *)
(* a floodfill.                                                             *)
Routed ==
  /\ ~dangling
  /\ rc[NetDbThread].at # "idle" => InTable(rc[NetDbThread].req)
  /\ rc[NetDbThread].at = "cleared" => ~m_RequestComplete[rc[NetDbThread].req]
  /\ \A c \in Calls :
       /\ Len(outcomes[c]) <= 1
       /\ m_RequestComplete[c] =>
            \/ outcomes[c] = <<>>
            \/ rc[NetDbThread].at = "called" /\ rc[NetDbThread].req = c

(* The NetDb thread starts a call only when it has none under way.          *)
LEMMA BusyStep ==
  TypeOK /\ TableInv /\ OnceInv /\ [Next]_vars =>
    /\ \A c, d \in NetDbCalls : pc'[c] \in {"created", "failing"}
                               /\ pc'[d] \in {"created", "failing"} => c = d
    /\ \A c \in NetDbCalls : pc'[c] = "created" => rc'[NetDbThread].at = "idle"
<1> DEFINE One == \A c, d \in NetDbCalls : pc'[c] \in {"created", "failing"}
                               /\ pc'[d] \in {"created", "failing"} => c = d
           Free == \A c \in NetDbCalls : pc'[c] = "created" => rc'[NetDbThread].at = "idle"
<1> SUFFICES ASSUME TypeOK, TableInv, OnceInv, [Next]_vars PROVE One /\ Free
  OBVIOUS
<1> USE ActorFacts
<1>1. ASSUME NEW c \in Calls, NEW i \in Idents, ClientRequest(c, i) \/ Explore(c, i)
      PROVE  One /\ Free
  <2>1. rc' = rc /\ \A d \in NetDbCalls : pc'[d] = pc[d] \/ pc'[d] = "done"
    BY <1>1 DEF ClientRequest, CreateRequest, Explore, TypeOK
  <2> QED
    BY <2>1 DEF OnceInv
<1>2. ASSUME NEW c \in Calls, NEW i \in Idents, NetDbRequest(c, i)
      PROVE  One /\ Free
  <2>1. /\ rc' = rc /\ rc[NetDbThread].at = "idle"
        /\ \A d \in NetDbCalls : pc[d] \notin {"created", "failing"}
        /\ \A d \in NetDbCalls : d # c => pc'[d] = pc[d]
    BY <1>2 DEF NetDbRequest, NetDbIdle, CreateRequest, TypeOK
  <2> QED
    BY <2>1
<1>3. ASSUME NEW c \in Calls, SendLookup(c) \/ FailReturn(c) \/ Elapse(c)
      PROVE  One /\ Free
  <2>1. rc' = rc /\ \A d \in NetDbCalls : pc'[d] = pc[d] \/ pc'[d] \in {"done", "failed"}
    BY <1>3 DEF SendLookup, FailReturn, Elapse, TypeOK
  <2> QED
    BY <2>1 DEF OnceInv
<1>4. ASSUME NEW c \in Calls, NoFloodfill(c)
      PROVE  One /\ Free
  <2>1. /\ pc[c] = "created" /\ pc'[c] = "failing"
        /\ \A d \in Calls : d # c => pc'[d] = pc[d]
    BY <1>4 DEF NoFloodfill, TypeOK
  <2>2. One
    BY <2>1 DEF OnceInv
  <2>3. c \in ClientCalls => rc'[NetDbThread] = rc[NetDbThread]
    BY <1>4 DEF NoFloodfill, Find, ActorOf, TypeOK
  <2>4. c \in NetDbCalls => \A d \in NetDbCalls : pc'[d] # "created"
    BY <2>1 DEF OnceInv
  <2> QED
    BY <2>1, <2>2, <2>3, <2>4 DEF OnceInv
<1>5. ASSUME NEW a \in Actors, CompleteStep(a)
      PROVE  One /\ Free
  <2>1. pc' = pc /\ rc[a].at # "idle" /\ \A x \in Actors : x # a => rc'[x] = rc[x]
    BY <1>5 DEF CompleteStep, Callback, ResetCallback, Erase, TypeOK
  <2> QED
    BY <2>1 DEF OnceInv
<1>6. ASSUME NEW i \in Idents, AddRouterInfo(i) \/ HandleDatabaseSearchReply(i)
      PROVE  One /\ Free
  <2>1. pc' = pc /\ \A c \in NetDbCalls : pc[c] \notin {"created", "failing"}
    BY <1>6 DEF AddRouterInfo, HandleDatabaseSearchReply, NetDbIdle
  <2> QED
    BY <2>1
<1>7. CASE ManageRequests \/ Stop \/ UNCHANGED vars
  BY <1>7 DEF ManageRequests, Stop, vars, OnceInv
<1> QED
  BY <1>1, <1>2, <1>3, <1>4, <1>5, <1>6, <1>7 DEF Next, CallStep

(* The single-completion invariant is preserved.                            *)
LEMMA OnceStep ==
  TypeOK /\ TableInv /\ OnceInv /\ [Next]_vars => OnceInv'
<1> SUFFICES ASSUME TypeOK, TableInv, OnceInv, [Next]_vars PROVE OnceInv'
  OBVIOUS
<1> USE ActorFacts
<1>1. \A a \in ClientCalls : pc'[a] # "failing" => rc'[a].at = "idle"
  <2> SUFFICES ASSUME NEW a \in ClientCalls, pc'[a] # "failing" PROVE rc'[a].at = "idle"
    OBVIOUS
  <2>1. pc[a] # "failing" => rc[a].at = "idle"
    BY DEF OnceInv
  <2>2. ASSUME NEW c \in Calls, NoFloodfill(c)
        PROVE  rc'[a].at = "idle"
    BY <2>1, <2>2 DEF NoFloodfill, Find, ActorOf, TypeOK
  <2>3. ASSUME NEW c \in Calls, FailReturn(c)
        PROVE  rc'[a].at = "idle"
    BY <2>1, <2>3 DEF FailReturn, ActorOf, TypeOK
  <2>4. ASSUME NEW b \in Actors, CompleteStep(b)
        PROVE  rc'[a].at = "idle"
    <3>1. pc' = pc /\ rc[b].at # "idle" /\ \A x \in Actors : x # b => rc'[x] = rc[x]
      BY <2>4 DEF CompleteStep, Callback, ResetCallback, Erase, TypeOK
    <3> QED
      BY <2>1, <3>1
  <2>5. ASSUME NEW i \in Idents, AddRouterInfo(i) \/ HandleDatabaseSearchReply(i)
        PROVE  rc'[a].at = "idle"
    <3>1. pc' = pc /\ rc'[a] = rc[a]
      BY <2>5 DEF AddRouterInfo, HandleDatabaseSearchReply, Find, TypeOK
    <3> QED
      BY <2>1, <3>1
  <2>6. CASE rc' = rc /\ (pc[a] = "failing" => pc'[a] = "failing")
    BY <2>1, <2>6
  <2>7. ASSUME NEW c \in Calls, NEW i \in Idents,
               ClientRequest(c, i) \/ NetDbRequest(c, i) \/ Explore(c, i)
        PROVE  rc'[a].at = "idle"
    BY <2>6, <2>7 DEF ClientRequest, NetDbRequest, CreateRequest, Explore, TypeOK
  <2>8. ASSUME NEW c \in Calls, SendLookup(c) \/ Elapse(c)
        PROVE  rc'[a].at = "idle"
    BY <2>6, <2>8 DEF SendLookup, Elapse, TypeOK
  <2>9. CASE ManageRequests \/ Stop \/ UNCHANGED vars
    BY <2>6, <2>9 DEF ManageRequests, Stop, vars
  <2> QED
    BY <2>2, <2>3, <2>4, <2>5, <2>7, <2>8, <2>9 DEF Next, CallStep
<1>21. /\ \A c, d \in NetDbCalls : pc'[c] \in {"created", "failing"}
                               /\ pc'[d] \in {"created", "failing"} => c = d
       /\ \A c \in NetDbCalls : pc'[c] = "created" => rc'[NetDbThread].at = "idle"
  BY BusyStep
<1> SUFFICES ASSUME AllRouted' PROVE Routed'
  BY <1>1, <1>21 DEF OnceInv, Routed
<1>2. AllRouted
  BY RoutedBackward
<1>3. Routed
  BY <1>2 DEF OnceInv, Routed
<1>4. \A a \in Actors : rc[a].at # "idle" => a = NetDbThread
  BY <1>2 DEF OnceInv, AllRouted, Actors
<1>5. ASSUME NEW c \in Calls, NEW i \in Idents, CreateRequest(c, i)
      PROVE  Routed'
  <2>1. /\ pc[c] = "idle" /\ rc' = rc /\ dangling' = dangling
        /\ ident' = [ident EXCEPT ![c] = i]
        /\ \A d \in Calls : d # c => /\ outcomes'[d] = outcomes[d]
                                     /\ m_RequestComplete'[d] = m_RequestComplete[d]
    BY <1>5 DEF CreateRequest, TypeOK
  <2>2. outcomes[c] = <<>> /\ ~m_RequestComplete[c]
    BY <2>1 DEF TableInv
  <2>3. rc[NetDbThread].at # "idle" => rc[NetDbThread].req \in Calls /\ rc[NetDbThread].req # c
    BY <2>1 DEF TableInv
  <2>4. \A d \in Calls : InTable(d) /\ d # c => InTable(d)'
    BY <1>5, <2>1 DEF CreateRequest, InTable, TypeOK
  <2>5. Len(outcomes'[c]) <= 1 /\ (m_RequestComplete'[c] => outcomes'[c] = <<>>)
    <3>1. CASE m_RequestedDestinations[i] = None
      BY <1>5, <2>2, <3>1 DEF CreateRequest
    <3>2. CASE m_RequestedDestinations[i] # None
      <4>1. /\ outcomes'[c] = outcomes[c] \/ outcomes'[c] = Append(outcomes[c], "nullptr")
            /\ ~m_RequestComplete'[c]
        BY <1>5, <2>2, <3>2 DEF CreateRequest, TypeOK
      <4>2. outcomes[c] \in Seq(Outcomes) /\ "nullptr" \in Outcomes /\ Len(outcomes[c]) = 0
        BY <2>2 DEF TypeOK, Outcomes
      <4> QED
        BY <4>1, <4>2, AppendFacts
    <3> QED
      BY <3>1, <3>2
  <2> QED
    BY <1>3, <2>1, <2>3, <2>4, <2>5 DEF Routed
<1>6. ASSUME NEW c \in Calls, NEW i \in Idents, Explore(c, i)
      PROVE  Routed'
  <2>1. /\ rc[NetDbThread].at = "idle" /\ rc' = rc /\ dangling' = dangling
        /\ outcomes' = outcomes /\ m_RequestComplete' = m_RequestComplete
    BY <1>6 DEF Explore, NetDbIdle
  <2> QED
    BY <1>3, <2>1 DEF Routed
<1>7. ASSUME NEW D, NEW peers \in [Calls -> SUBSET Floodfills],
             NEW ages \in [Calls -> Ages], Destroy(D, peers, ages),
             D \subseteq Calls, dangling' = dangling,
             \A c \in D : m_RequestComplete[c] => outcomes[c] = <<>>,
             \/ /\ rc'[NetDbThread] = rc[NetDbThread]
                /\ \A c \in Calls : InTable(c)' = InTable(c)
             \/ rc'[NetDbThread].at = "idle" /\ rc[NetDbThread].at # "called"
      PROVE  Routed'
  <2>1. \A c \in Calls :
          /\ c \notin D => /\ outcomes'[c] = outcomes[c]
                           /\ m_RequestComplete'[c] = m_RequestComplete[c]
          /\ ~m_RequestComplete[c] => /\ outcomes'[c] = outcomes[c]
                                      /\ ~m_RequestComplete'[c]
          /\ c \in D => ~m_RequestComplete'[c]
          /\ c \in D /\ m_RequestComplete[c] => Len(outcomes'[c]) = Len(outcomes[c]) + 1
    BY <1>7, DestroyFacts
  <2>2. \A c \in Calls : outcomes[c] = <<>> => Len(outcomes[c]) = 0
    OBVIOUS
  <2>3. \A c \in Calls : Len(outcomes'[c]) <= 1
    BY <1>3, <1>7, <2>1, <2>2 DEF Routed
  <2>4. \A c \in Calls : m_RequestComplete'[c] =>
          \/ outcomes'[c] = <<>>
          \/ rc'[NetDbThread].at = "called" /\ rc'[NetDbThread].req = c
    BY <1>3, <1>7, <2>1 DEF Routed
  <2>5. rc[NetDbThread].at # "idle" => rc[NetDbThread].req \in Calls
    BY DEF TableInv
  <2> QED
    BY <1>3, <1>7, <2>1, <2>3, <2>4, <2>5 DEF Routed
<1>8. ASSUME NEW c \in Calls, SendLookup(c)
      PROVE  Routed'
  <2>1. PICK f \in Candidates(c) :
          Destroy({d \in {c} : ~InTable(d)}, Asked(c, f), Dated(c))
    BY <1>8 DEF SendLookup
  <2>2. Asked(c, f) \in [Calls -> SUBSET Floodfills] /\ Dated(c) \in [Calls -> Ages]
    BY DEF Asked, Dated, Candidates, TypeOK, Ages
  <2>3. /\ rc' = rc /\ dangling' = dangling
        /\ ident' = ident /\ m_RequestedDestinations' = m_RequestedDestinations
    BY <1>8 DEF SendLookup
  <2>4. \A d \in Calls : InTable(d)' = InTable(d)
    BY <2>3 DEF InTable
  <2>5. \A d \in {x \in {c} : ~InTable(x)} : m_RequestComplete[d] => outcomes[d] = <<>>
    BY <1>3 DEF Routed
  <2> QED
    BY <1>7, <2>1, <2>2, <2>3, <2>4, <2>5
<1>9. ASSUME NEW c \in Calls, FailReturn(c)
      PROVE  Routed'
  <2>1. /\ Destroy({d \in {c} : ~InTable(d)}, m_ExcludedPeers, age)
        /\ rc' = rc /\ dangling' = dangling
        /\ ident' = ident /\ m_RequestedDestinations' = m_RequestedDestinations
    BY <1>9 DEF FailReturn
  <2>2. m_ExcludedPeers \in [Calls -> SUBSET Floodfills] /\ age \in [Calls -> Ages]
    BY DEF TypeOK
  <2>3. \A d \in Calls : InTable(d)' = InTable(d)
    BY <2>1 DEF InTable
  <2>4. \A d \in {x \in {c} : ~InTable(x)} : m_RequestComplete[d] => outcomes[d] = <<>>
    BY <1>3 DEF Routed
  <2> QED
    BY <1>7, <2>1, <2>2, <2>3, <2>4
<1>10. ASSUME NEW i \in Idents, NEW x \in Outcomes, Find(NetDbThread, i, x),
              rc[NetDbThread].at = "idle",
              UNCHANGED <<ident, m_RequestedDestinations, m_RequestComplete, outcomes,
                          dangling>>
       PROVE  Routed'
  <2>1. \/ rc'[NetDbThread].at = "idle"
        \/ /\ rc'[NetDbThread].at = "found"
           /\ m_RequestedDestinations[i] # None
           /\ rc'[NetDbThread].req = m_RequestedDestinations[i]
    <3>1. CASE m_RequestedDestinations[i] = None
      BY <1>10, <3>1 DEF Find, Idle, TypeOK
    <3>2. CASE m_RequestedDestinations[i] # None
      BY <1>10, <3>2 DEF Find, TypeOK
    <3> QED
      BY <3>1, <3>2
  <2>2. rc'[NetDbThread].at = "found" => InTable(rc[NetDbThread].req)'
    <3>1. m_RequestedDestinations[i] # None => ident[m_RequestedDestinations[i]] = i
      BY DEF TableInv
    <3> QED
      BY <1>10, <2>1, <3>1 DEF InTable
  <2> QED
    BY <1>3, <1>10, <2>1, <2>2 DEF Routed
<1>11. ASSUME NEW c \in Calls, NoFloodfill(c)
       PROVE  Routed'
  <2>1. c \in NetDbCalls
    BY <1>11 DEF NoFloodfill, AllRouted, TypeOK
  <2>2. rc[NetDbThread].at = "idle"
    BY <1>11, <2>1 DEF NoFloodfill, OnceInv
  <2> QED
    BY <1>10, <1>11, <2>1, <2>2 DEF NoFloodfill, ActorOf, TableInv, Outcomes
<1>12. ASSUME NEW a \in Actors, Callback(a)
       PROVE  Routed'
  <2> DEFINE r == rc[NetDbThread].req
  <2>1. /\ a = NetDbThread /\ rc[a].at = "found" /\ InTable(r) /\ r \in Calls
        /\ rc[a].result \in Outcomes
    BY <1>3, <1>4, <1>12 DEF Callback, Routed, TableInv, TypeOK, Progress
  <2>2. /\ dangling' = dangling /\ ident' = ident
        /\ m_RequestedDestinations' = m_RequestedDestinations
        /\ m_RequestComplete' = m_RequestComplete
    BY <1>12, <2>1 DEF Callback
  <2>3. CASE m_RequestComplete[r]
    <3>1. /\ outcomes' = [outcomes EXCEPT ![r] = Append(@, rc[a].result)]
          /\ rc' = [rc EXCEPT ![a].at = "called"]
      BY <1>12, <2>1, <2>3 DEF Callback
    <3>2. rc'[NetDbThread].at = "called" /\ rc'[NetDbThread].req = r
      BY <2>1, <3>1 DEF TypeOK, Progress
    <3>3. outcomes[r] = <<>> /\ outcomes[r] \in Seq(Outcomes) /\ Len(outcomes[r]) = 0
      BY <1>3, <2>1, <2>3 DEF Routed, TypeOK
    <3>4. Len(outcomes'[r]) = 1 /\ \A d \in Calls : d # r => outcomes'[d] = outcomes[d]
      BY <2>1, <3>1, <3>3, AppendFacts DEF TypeOK
    <3>5. InTable(rc[NetDbThread].req)'
      BY <2>1, <2>2, <3>2 DEF InTable
    <3>6. \A d \in Calls :
            /\ Len(outcomes'[d]) <= 1
            /\ m_RequestComplete'[d] =>
                 \/ outcomes'[d] = <<>>
                 \/ rc'[NetDbThread].at = "called" /\ rc'[NetDbThread].req = d
      <4> SUFFICES ASSUME NEW d \in Calls
                   PROVE  /\ Len(outcomes'[d]) <= 1
                          /\ m_RequestComplete'[d] =>
                               \/ outcomes'[d] = <<>>
                               \/ rc'[NetDbThread].req = d
        BY <3>2
      <4>1. CASE d = r
        <5>1. Len(outcomes'[d]) = 1 /\ rc'[NetDbThread].req = d
          BY <3>2, <3>4, <4>1, Zenon
        <5>2. \A n : n = 1 => n <= 1
          OBVIOUS
        <5> QED
          BY <5>1, <5>2
      <4>2. CASE d # r
        <5>1. outcomes'[d] = outcomes[d] /\ m_RequestComplete'[d] = m_RequestComplete[d]
          BY <2>2, <3>4, <4>2
        <5> QED
          BY <1>3, <2>1, <4>2, <5>1 DEF Routed
      <4> QED
        BY <4>1, <4>2
    <3> QED
      BY <1>3, <2>2, <3>2, <3>5, <3>6 DEF Routed
  <2>4. CASE ~m_RequestComplete[r]
    <3>1. outcomes' = outcomes /\ rc' = [rc EXCEPT ![a].at = "cleared"]
      BY <1>12, <2>1, <2>4 DEF Callback
    <3>2. rc'[NetDbThread].at = "cleared" /\ rc'[NetDbThread].req = r
      BY <2>1, <3>1 DEF TypeOK, Progress
    <3> QED
      BY <1>3, <2>1, <2>2, <2>4, <3>1, <3>2 DEF Routed, InTable
  <2> QED
    BY <2>3, <2>4
<1>13. ASSUME NEW a \in Actors, ResetCallback(a)
       PROVE  Routed'
  <2> DEFINE r == rc[NetDbThread].req
  <2>1. a = NetDbThread /\ rc[a].at = "called" /\ InTable(r) /\ r \in Calls
    BY <1>3, <1>4, <1>13 DEF ResetCallback, Routed, TableInv
  <2>2. /\ dangling' = dangling /\ ident' = ident /\ outcomes' = outcomes
        /\ m_RequestedDestinations' = m_RequestedDestinations
        /\ m_RequestComplete' = [m_RequestComplete EXCEPT ![r] = FALSE]
        /\ rc' = [rc EXCEPT ![a].at = "cleared"]
    BY <1>13, <2>1 DEF ResetCallback
  <2>3. rc'[NetDbThread].at = "cleared" /\ rc'[NetDbThread].req = r
    BY <2>1, <2>2 DEF TypeOK, Progress
  <2>4. ~m_RequestComplete'[r] /\ \A d \in Calls : d # r =>
          m_RequestComplete'[d] = m_RequestComplete[d]
    BY <2>1, <2>2 DEF TypeOK
  <2> QED
    BY <1>3, <2>1, <2>2, <2>3, <2>4 DEF Routed, InTable
<1>14. ASSUME NEW a \in Actors, Erase(a)
       PROVE  Routed'
  <2> DEFINE r == rc[NetDbThread].req
  <2>1. /\ a = NetDbThread /\ rc[a].at = "cleared" /\ InTable(r) /\ r \in Calls
        /\ ~m_RequestComplete[r]
    BY <1>3, <1>4, <1>14 DEF Erase, Routed, TableInv
  <2>2. /\ Destroy({d \in {r} : pc[d] \notin {"created", "failing"}},
                   m_ExcludedPeers, age)
        /\ dangling' = dangling /\ rc' = [rc EXCEPT ![a] = Idle]
    BY <1>14, <2>1 DEF Erase
  <2>3. rc'[NetDbThread].at = "idle"
    BY <2>1, <2>2 DEF TypeOK, Idle
  <2>4. m_ExcludedPeers \in [Calls -> SUBSET Floodfills] /\ age \in [Calls -> Ages]
    BY DEF TypeOK
  <2> QED
    BY <1>7, <2>1, <2>2, <2>3, <2>4
<1>15. ASSUME NEW i \in Idents, AddRouterInfo(i)
       PROVE  Routed'
  BY <1>10, <1>15 DEF AddRouterInfo, NetDbIdle, Outcomes
<1>16. ASSUME NEW i \in Idents, HandleDatabaseSearchReply(i)
       PROVE  Routed'
  <2>1. /\ rc[NetDbThread].at = "idle"
        /\ UNCHANGED <<ident, m_RequestedDestinations, m_RequestComplete, outcomes,
                       dangling>>
        /\ rc' = rc \/ Find(NetDbThread, i, "nullptr")
    BY <1>16 DEF HandleDatabaseSearchReply, NetDbIdle
  <2>2. CASE rc' = rc
    BY <1>3, <2>1, <2>2 DEF Routed
  <2>3. CASE Find(NetDbThread, i, "nullptr")
    BY <1>10, <2>1, <2>3 DEF Outcomes
  <2> QED
    BY <2>1, <2>2, <2>3
<1>17. ASSUME ManageRequests
       PROVE  Routed'
  <2>1. PICK E \in SUBSET Requested :
          \E peers \in [Calls -> SUBSET Floodfills], ages \in [Calls -> Ages] :
            Destroy({c \in E : pc[c] \notin {"created", "failing"}}, peers, ages)
    BY <1>17, ManageFacts
  <2>2. rc' = rc /\ rc[NetDbThread].at = "idle" /\ dangling' = dangling
    BY <1>17 DEF ManageRequests, NetDbIdle
  <2>3. Requested \subseteq Calls
    BY DEF Requested, TypeOK
  <2>4. \A c \in Calls : m_RequestComplete[c] => outcomes[c] = <<>>
    BY <1>3, <2>2 DEF Routed
  <2> QED
    BY <1>7, <2>1, <2>2, <2>3, <2>4
<1>18. ASSUME Stop
       PROVE  Routed'
  <2>1. /\ Destroy({c \in Calls : InTable(c)}, m_ExcludedPeers, age)
        /\ rc' = rc /\ rc[NetDbThread].at = "idle" /\ dangling' = dangling
    BY <1>18 DEF Stop, NetDbIdle
  <2>2. m_ExcludedPeers \in [Calls -> SUBSET Floodfills] /\ age \in [Calls -> Ages]
    BY DEF TypeOK
  <2>3. \A c \in Calls : m_RequestComplete[c] => outcomes[c] = <<>>
    BY <1>3, <2>1 DEF Routed
  <2> QED
    BY <1>7, <2>1, <2>2, <2>3
<1>19. ASSUME NEW c \in Calls, Elapse(c)
       PROVE  Routed'
  BY <1>3, <1>19 DEF Elapse, Routed, InTable
<1>20. CASE UNCHANGED vars
  BY <1>3, <1>20 DEF vars, Routed, InTable
<1> QED
  BY <1>5, <1>6, <1>8, <1>9, <1>11, <1>12, <1>13, <1>14, <1>15, <1>16, <1>17, <1>18,
     <1>19, <1>20
  DEF Next, CallStep, CompleteStep, ClientRequest, NetDbRequest

(* While every client call has found a floodfill, no callback runs twice    *)
(* and no iterator that was erased is used, for any number of threads.      *)
THEOREM CompletedOnce == Spec => []SingleCompletion
<1>1. Init => LostInv /\ OnceInv
  <2>1. Init => OnceInv
    BY ActorFacts DEF Init, OnceInv, Idle, InTable
  <2> QED
    BY <2>1, InitLost
<1>2. LostInv /\ OnceInv /\ [Next]_vars => (LostInv /\ OnceInv)'
  BY TypeStep, TableStep, CallbackStep, NoLostStep, OnceStep DEF LostInv
<1>3. OnceInv => SingleCompletion
  BY DEF OnceInv, SingleCompletion, AllRouted
<1> QED
  BY <1>1, <1>2, <1>3, PTL DEF Spec

(* ManageRequests never drops a lookup sent less than five seconds ago.     *)
THEOREM FreshLookupKept == Spec => FreshKept
<1>1. Init => LostInv
  BY InitLost
<1>2. LostInv /\ [Next]_vars => LostInv'
  BY TypeStep, TableStep, CallbackStep, NoLostStep DEF LostInv
<1>3. ASSUME LostInv, [Next]_vars
      PROVE  [\A c \in Calls :
                (InTable(c) /\ age[c] = "fresh" /\ ~InTable(c)')
                  => (\E a \in Actors : rc[a].req = c) \/ ~running']_vars
  <2> SUFFICES ASSUME NEW c \in Calls, InTable(c), age[c] = "fresh", ~InTable(c)', running'
               PROVE  \E a \in Actors : rc[a].req = c
    OBVIOUS
  <2> USE <1>3, ActorFacts DEF LostInv
  <2>0. ident[c] \in Idents /\ pc[c] # "idle"
    BY DEF InTable, TableInv, TypeOK
  <2>1. ASSUME NEW d \in Calls, NEW i \in Idents,
               ClientRequest(d, i) \/ NetDbRequest(d, i)
        PROVE  FALSE
    <3>1. CreateRequest(d, i) /\ d # c
      BY <2>0, <2>1 DEF ClientRequest, NetDbRequest, CreateRequest
    <3>2. ident'[c] = ident[c]
      BY <3>1 DEF CreateRequest, TypeOK
    <3> QED
      BY <2>0, <3>1, <3>2 DEF CreateRequest, InTable, TypeOK
  <2>2. ASSUME NEW d \in Calls, NEW i \in Idents, Explore(d, i)
        PROVE  FALSE
    BY <2>0, <2>2 DEF Explore, InTable, TypeOK
  <2>3. ASSUME ident' = ident /\ m_RequestedDestinations' = m_RequestedDestinations
        PROVE  FALSE
    BY <2>3 DEF InTable
  <2>4. ASSUME NEW d \in Calls, CallStep(d) \/ Elapse(d)
        PROVE  FALSE
    BY <2>3, <2>4 DEF CallStep, SendLookup, NoFloodfill, FailReturn, Elapse
  <2>5. ASSUME NEW a \in Actors, CompleteStep(a)
        PROVE  rc[a].req = c
    <3>1. CASE Erase(a) /\ InTable(rc[a].req)
      BY <2>0, <3>1 DEF Erase, InTable, TypeOK
    <3>2. CASE ~(Erase(a) /\ InTable(rc[a].req))
      BY <2>3, <2>5, <3>2 DEF CompleteStep, Callback, ResetCallback, Erase
    <3> QED
      BY <3>1, <3>2
  <2>6. ASSUME NEW i \in Idents, AddRouterInfo(i) \/ HandleDatabaseSearchReply(i)
        PROVE  FALSE
    BY <2>3, <2>6 DEF AddRouterInfo, HandleDatabaseSearchReply
  <2>7. ASSUME ManageRequests
        PROVE  FALSE
    <3>1. PICK E \in SUBSET Requested :
            /\ \A i \in Idents : m_RequestedDestinations'[i] =
                 IF m_RequestedDestinations[i] \in E THEN None
                 ELSE m_RequestedDestinations[i]
            /\ \A d \in E : age[d] # "fresh"
      BY <2>7, ManageFacts
    <3>2. ident' = ident
      BY <2>7 DEF ManageRequests
    <3> QED
      BY <2>0, <3>1, <3>2 DEF InTable
  <2>8. ~Stop
    BY DEF Stop
  <2>9. CASE UNCHANGED vars
    BY <2>3, <2>9 DEF vars
  <2> QED
    BY <2>1, <2>2, <2>4, <2>5, <2>6, <2>7, <2>8, <2>9 DEF Next
<1> QED
  BY <1>1, <1>2, <1>3, PTL DEF Spec, FreshKept

-----------------------------------------------------------------------------
(* The least of a set of numbers.                                           *)
LEMMA NatMin ==
  ASSUME NEW T, T \subseteq Nat, T # {}
  PROVE  \E x \in T : \A y \in T : x <= y
<1> DEFINE R == {ss \in Nat \X Nat : ss[1] < ss[2]}
<1>1. IsWellFoundedOn(R, Nat)
  BY NatLessThanWellFounded DEF OpToRel
<1>2. PICK x \in T : \A y \in T : ~(<<y, x>> \in R)
  <2> HIDE DEF R
  <2> QED
    BY <1>1, WFMin
<1>3. \A y \in T : ~(y < x)
  BY <1>2
<1> QED
  BY <1>2, <1>3

(* Induction for a set of numbers.                                          *)
LEMMA NatSetInduction ==
  ASSUME NEW S, 0 \in S, \A m \in Nat : m \in S => m + 1 \in S
  PROVE  \A m \in Nat : m \in S
<1> DEFINE R == {ss \in Nat \X Nat : ss[1] < ss[2]}
           T == {m \in Nat : m \notin S}
<1>1. IsWellFoundedOn(R, Nat)
  BY NatLessThanWellFounded DEF OpToRel
<1>2. CASE T = {}
  BY <1>2
<1>3. CASE T # {}
  <2>1. PICK x \in T : \A y \in T : ~(<<y, x>> \in R)
    <3>1. T \subseteq Nat
      OBVIOUS
    <3> HIDE DEF R, T
    <3> QED
      BY <1>1, <1>3, <3>1, WFMin
  <2>2. \A y \in T : ~(y < x)
    BY <2>1
  <2>3. x \in Nat /\ x # 0
    OBVIOUS
  <2>4. x - 1 \in Nat /\ x - 1 < x /\ x - 1 + 1 = x
    BY <2>3
  <2>5. x - 1 \in S
    BY <2>2, <2>4
  <2> QED
    BY <2>4, <2>5
<1> QED
  BY <1>2, <1>3


-----------------------------------------------------------------------------
(* The stores of the database.                                              *)

(* The elements of s that are in S are found one after the other.           *)
LEMMA OnlyFacts ==
  ASSUME NEW A, NEW s \in Seq(A), NEW S
  PROVE  Only(s, S) \in Seq(A \cap S)
<1> DEFINE Step(k, before) == IF k = 0 THEN <<>>
                              ELSE IF s[k] \in S THEN Append(before, s[k]) ELSE before
           Rule(n, g) == g = [k \in 0 .. n |-> Step(k, g[k - 1])]
<1>1. Len(s) \in Nat /\ \A k \in 1 .. Len(s) : s[k] \in A
  BY LenProperties
<1>2. ASSUME NEW n \in 0 .. Len(s), NEW g, Rule(n, g)
      PROVE  g[n] \in Seq(A \cap S)
  <2> DEFINE Bad == {k \in 0 .. n : g[k] \notin Seq(A \cap S)}
  <2>1. SUFFICES ASSUME Bad # {}
                 PROVE  FALSE
    BY <1>1
  <2>2. PICK k \in Bad : \A j \in Bad : k <= j
    <3>1. Bad \subseteq Nat
      BY <1>1
    <3> HIDE DEF Bad
    <3> QED
      BY <2>1, <3>1, NatMin
  <2>3. k \in 0 .. n /\ g[k] \notin Seq(A \cap S) /\ k \in Nat /\ n \in Nat
    BY <1>1, <2>2
  <2>4. g[k] = Step(k, g[k - 1])
    BY <1>2, <2>3
  <2>5. k # 0
    BY <2>3, <2>4
  <2>6. k - 1 \in 0 .. n /\ k \in 1 .. Len(s)
    BY <1>1, <2>3, <2>5
  <2>7. g[k - 1] \in Seq(A \cap S)
    BY <2>2, <2>3, <2>6
  <2>8. CASE s[k] \in S
    <3>1. g[k] = Append(g[k - 1], s[k])
      BY <2>4, <2>5, <2>8
    <3>2. s[k] \in A \cap S
      BY <1>1, <2>6, <2>8
    <3> QED
      BY <2>3, <2>7, <3>1, <3>2
  <2>9. CASE s[k] \notin S
    BY <2>3, <2>4, <2>5, <2>7, <2>9
  <2> QED
    BY <2>8, <2>9
<1>3. ASSUME NEW n \in 0 .. Len(s)
      PROVE  \E g : Rule(n, g)
  <2> DEFINE Bad == {k \in 0 .. n : ~\E g : Rule(k, g)}
  <2>1. SUFFICES ASSUME Bad # {}
                 PROVE  FALSE
    <3>1. n \in 0 .. n
      BY <1>1
    <3> HIDE DEF Rule
    <3> QED
      BY <3>1
  <2>2. PICK k \in Bad : \A j \in Bad : k <= j
    <3>1. Bad \subseteq Nat
      BY <1>1
    <3> HIDE DEF Bad
    <3> QED
      BY <2>1, <3>1, NatMin
  <2>3. k \in 0 .. n /\ k \in Nat /\ n \in Nat
    BY <1>1, <2>2
  <2>4. ~\E g : Rule(k, g)
    BY <2>2
  <2>5. k # 0
    <3>1. SUFFICES ASSUME k = 0
                   PROVE  FALSE
      OBVIOUS
    <3>2. PICK g : g = [j \in 0 .. 0 |-> <<>>]
      OBVIOUS
    <3>3. g = [j \in 0 .. 0 |-> Step(j, g[j - 1])]
      BY <3>2
    <3> QED
      BY <2>4, <3>1, <3>3
  <2>6. PICK h : Rule(k - 1, h)
    <3>1. k - 1 \in 0 .. n /\ ~(k <= k - 1)
      BY <2>3, <2>5
    <3> HIDE DEF Rule
    <3>2. k - 1 \notin Bad
      BY <2>2, <3>1
    <3> QED
      BY <3>1, <3>2
  <2>7. PICK g : g = [j \in 0 .. k |-> IF j = k THEN Step(k, h[k - 1]) ELSE h[j]]
    OBVIOUS
  <2>8. ASSUME NEW j \in 0 .. k
        PROVE  g[j] = Step(j, g[j - 1])
    <3>1. j \in Nat
      BY <2>3
    <3>2. CASE j = k
      <4>1. g[k - 1] = h[k - 1] /\ g[k] = Step(k, h[k - 1])
        BY <2>3, <2>5, <2>7
      <4> QED
        BY <3>2, <4>1
    <3>3. CASE j # k
      <4>1. j \in 0 .. k - 1 /\ g[j] = h[j]
        BY <2>3, <2>7, <3>3
      <4>2. h[j] = Step(j, h[j - 1])
        BY <2>6, <4>1
      <4>3. CASE j = 0
        BY <4>1, <4>2, <4>3
      <4>4. CASE j # 0
        <5>1. g[j - 1] = h[j - 1]
          BY <2>3, <2>7, <3>1, <3>3, <4>1, <4>4
        <5> QED
          BY <4>1, <4>2, <5>1
      <4> QED
        BY <4>3, <4>4
    <3> QED
      BY <3>2, <3>3
  <2>9. g = [j \in 0 .. k |-> Step(j, g[j - 1])]
    <3> HIDE DEF Step
    <3> QED
      BY <2>7, <2>8
  <2> QED
    BY <2>4, <2>9
<1>4. PICK taken : taken = CHOOSE g : Rule(Len(s), g)
  OBVIOUS
<1>5. Rule(Len(s), taken)
  <2>0. Len(s) \in 0 .. Len(s)
    BY <1>1
  <2> HIDE DEF Rule
  <2>1. \E g : Rule(Len(s), g)
    BY <2>0, <1>3
  <2> QED
    BY <1>4, <2>1
<1>6. Only(s, S) = taken[Len(s)]
  BY <1>4 DEF Only
<1>7. Len(s) \in 0 .. Len(s)
  BY <1>1
<1> HIDE DEF Rule
<1> QED
  BY <1>2, <1>5, <1>6, <1>7

(* What Only finds is a function on numbers, g[k] in the first k.           *)
Picking(g, s, S, n) ==
  g = [k \in 0..n |-> IF k = 0 THEN <<>> ELSE IF s[k] \in S THEN Append(g[k - 1], s[k]) ELSE g[k - 1]]

(* There is such a function.                                                *)
LEMMA PickingExists ==
  ASSUME NEW s, NEW S, NEW n \in Nat
  PROVE  \E g : Picking(g, s, S, n)
<1> DEFINE M == {m \in Nat : \E g : Picking(g, s, S, m)}
           Step(p, b) == IF b \in S THEN Append(p, b) ELSE p
<1>1. 0 \in M
  <2>1. PICK g : g = [k \in 0..0 |-> <<>>]
    OBVIOUS
  <2>2. Picking(g, s, S, 0)
    BY <2>1 DEF Picking
  <2> QED
    BY <2>2
<1>2. \A m \in Nat : m \in M => m + 1 \in M
  <2> SUFFICES ASSUME NEW m \in Nat, m \in M
               PROVE  m + 1 \in M
    OBVIOUS
  <2>1. PICK f : Picking(f, s, S, m)
    OBVIOUS
  <2>2. PICK g : g = [k \in 0..m + 1 |-> IF k = m + 1 THEN Step(f[m], s[m + 1]) ELSE f[k]]
    OBVIOUS
  <2> HIDE DEF Step
  <2>3. ASSUME NEW k \in 0..m + 1
        PROVE  g[k] = IF k = 0 THEN <<>> ELSE Step(g[k - 1], s[k])
    <3>1. CASE k = m + 1
      BY <2>2, <3>1
    <3>2. CASE k # m + 1
      <4>1. k \in 0..m /\ g[k] = f[k] /\ (k # 0 => g[k - 1] = f[k - 1])
        BY <2>2, <3>2
      <4> QED
        BY <2>1, <4>1 DEF Picking, Step
    <3> QED
      BY <3>1, <3>2
  <2>4. Picking(g, s, S, m + 1)
    BY <2>2, <2>3 DEF Picking, Step
  <2> QED
    BY <2>4
<1> HIDE DEF M
<1>3. n \in M
  BY <1>1, <1>2, NatSetInduction
<1> QED
  BY <1>3 DEF M

(* Only is its last value.                                                  *)
LEMMA OnlyIs ==
  ASSUME NEW A, NEW s \in Seq(A), NEW S
  PROVE  \E g : Picking(g, s, S, Len(s)) /\ Only(s, S) = g[Len(s)]
<1>1. \E g : Picking(g, s, S, Len(s))
  <2>1. Len(s) \in Nat
    OBVIOUS
  <2> QED
    BY <2>1, PickingExists
<1> QED
  BY <1>1 DEF Picking, Only

(* The elements of a sequence, and that none comes twice.                   *)
Members(s) == {s[k] : k \in 1..Len(s)}
Once(s) == \A j, k \in 1..Len(s) : j # k => s[j] # s[k]

(* What Append does to both.                                                *)
LEMMA MembersAppend ==
  ASSUME NEW A, NEW s \in Seq(A), NEW a \in A
  PROVE  /\ Members(Append(s, a)) = Members(s) \cup {a}
         /\ Once(s) /\ a \notin Members(s) => Once(Append(s, a))
<1>1. PICK n \in Nat : n = Len(s)
  OBVIOUS
<1>2. PICK t : t = Append(s, a)
  OBVIOUS
<1>3. Len(t) = n + 1 /\ t[n + 1] = a /\ \A k \in 1..n : t[k] = s[k]
  BY <1>1, <1>2
<1>4. 1..n + 1 = (1..n) \cup {n + 1}
  OBVIOUS
<1>5. Members(t) = Members(s) \cup {a}
  BY <1>1, <1>3, <1>4 DEF Members
<1>6. ASSUME Once(s), a \notin Members(s)
      PROVE  Once(t)
  <2>1. \A k \in 1..n : t[k] = s[k] /\ s[k] # a
    BY <1>1, <1>3, <1>6 DEF Members
  <2>2. \A j, k \in 1..n : j # k => s[j] # s[k]
    BY <1>1, <1>6 DEF Once
  <2>3. ASSUME NEW j \in 1..n + 1, NEW k \in 1..n + 1, j # k
        PROVE  t[j] # t[k]
    BY <1>3, <1>4, <2>1, <2>2, <2>3
  <2> QED
    BY <1>3, <2>3 DEF Once
<1> QED
  BY <1>2, <1>5, <1>6

(* The empty sequence has no members.                                       *)
LEMMA MembersEmpty == Members(<<>>) = {} /\ Once(<<>>)
BY DEF Members, Once

(* Only leaves those in S, and each once if it was.                         *)
LEMMA OnlyMembers ==
  ASSUME NEW A, NEW s \in Seq(A), NEW S
  PROVE  /\ Members(Only(s, S)) = Members(s) \cap S
         /\ Once(s) => Once(Only(s, S))
<1>1. PICK n \in Nat : n = Len(s)
  OBVIOUS
<1>2. PICK g : Picking(g, s, S, n) /\ Only(s, S) = g[n]
  BY <1>1, OnlyIs
<1>3. \A k \in 1..n : s[k] \in A
  BY <1>1
<1> DEFINE Upto(m) == {s[k] : k \in 1..m}
           Good(m) == /\ g[m] \in Seq(A) /\ Members(g[m]) = Upto(m) \cap S
                      /\ Once(s) => Once(g[m])
           M == {m \in Nat : m <= n => Good(m)}
<1>4. 0 \in M
  <2>1. g[0] = <<>>
    BY <1>2 DEF Picking
  <2>2. Upto(0) = {} /\ <<>> \in Seq(A)
    OBVIOUS
  <2> HIDE DEF Upto
  <2>3. Good(0)
    BY <2>1, <2>2, MembersEmpty
  <2> QED
    BY <2>3
<1>5. \A m \in Nat : m \in M => m + 1 \in M
  <2> HIDE DEF Good
  <2> SUFFICES ASSUME NEW m \in Nat, m \in M, m + 1 <= n
               PROVE  Good(m + 1)
    OBVIOUS
  <2>0. Good(m)
    OBVIOUS
  <2>1. g[m] \in Seq(A) /\ Members(g[m]) = Upto(m) \cap S /\ (Once(s) => Once(g[m]))
    BY <2>0 DEF Good
  <2>2. m + 1 \in 0..n /\ m + 1 # 0 /\ (m + 1) - 1 = m /\ m + 1 \in 1..n
    OBVIOUS
  <2>3. g[m + 1] = IF s[m + 1] \in S THEN Append(g[m], s[m + 1]) ELSE g[m]
    BY <1>2, <2>2 DEF Picking
  <2>4. Upto(m + 1) = Upto(m) \cup {s[m + 1]}
    <3>1. 1..m + 1 = (1..m) \cup {m + 1}
      OBVIOUS
    <3> QED
      BY <3>1
  <2>5. Once(s) => s[m + 1] \notin Upto(m)
    <3>1. \A k \in 1..m : k \in 1..n /\ k # m + 1
      OBVIOUS
    <3> QED
      BY <1>1, <2>2, <3>1 DEF Once
  <2> HIDE DEF Upto
  <2>6. CASE s[m + 1] \in S
    <3>1. Append(g[m], s[m + 1]) \in Seq(A) /\ s[m + 1] \in A
      BY <1>3, <2>1, <2>2
    <3> QED
      BY <2>1, <2>3, <2>4, <2>5, <2>6, <3>1, MembersAppend DEF Good
  <2>7. CASE s[m + 1] \notin S
    BY <2>1, <2>3, <2>4, <2>7 DEF Good
  <2> QED
    BY <2>6, <2>7
<1> HIDE DEF M
<1>6. n \in M
  BY <1>4, <1>5, NatSetInduction
<1>7. Members(g[n]) = Upto(n) \cap S /\ (Once(s) => Once(g[n]))
  <2> HIDE DEF Good
  <2>1. Good(n)
    BY <1>6 DEF M
  <2> QED
    BY <2>1 DEF Good
<1> QED
  BY <1>1, <1>2, <1>7 DEF Members

(* The same for the sets SaveUpdated and Load go through in order.          *)
LEMMA InOrderMembers ==
  ASSUME NEW S
  PROVE  Members(InOrder(S)) = DbIdents \cap S /\ Once(InOrder(S))
<1>1. PICK n \in Nat : n = Cardinality(DbIdents)
  BY DbAssumption, FS_CardinalityType
<1>2. DbIdents = 1..n
  BY <1>1, DbAssumption
<1>3. PICK s : s = [k \in 1..n |-> k]
  OBVIOUS
<1>4. s \in Seq(DbIdents) /\ Len(s) = n /\ \A k \in 1..n : s[k] = k
  BY <1>2, <1>3
<1>5. Members(s) = DbIdents /\ Once(s)
  BY <1>2, <1>4 DEF Members, Once
<1> QED
  BY <1>1, <1>3, <1>4, <1>5, OnlyMembers DEF InOrder


-----------------------------------------------------------------------------
(* NetDb: the tables, the files and the round of SaveUpdated.               *)

(* Types; a file or a buffer holds a version, nothing, or what a cut write  *)
(* left of one.                                                             *)
DbRecord ==
  [ident : DbIdents \cup {0}, version : Nat, unreachable : BOOLEAN, updated : BOOLEAN, buffer : Int,
   failed : BOOLEAN, entered : BOOLEAN, replaced : BOOLEAN]
DbSaving == [active : BOOLEAN, ts : Nat, todo : Seq(DbIdents), total : Int, deleted : Nat]
InFloodfills == {floodfills[k] : k \in DOMAIN floodfills}

DbType ==
  /\ infos \in [DbObjects -> DbRecord]
  /\ table \in [DbIdents -> DbObjects \cup {0}]
  /\ floodfills \in Seq(DbObjects)
  /\ files \in [DbIdents -> Int]
  /\ saving \in DbSaving
  /\ dbMixed \subseteq DbIdents
  /\ dbNow \in Nat

(* A round still has only routers of the table before it, each once; what   *)
(* is listed is no forgotten object, and one that could be chosen is in the *)
(* table or was replaced there, which only a store under another key does.  *)
TodoKnown == \A k \in DOMAIN saving.todo : table[saving.todo[k]] # 0
TableOnce == \A i, j \in DbIdents : table[i] # 0 /\ table[i] = table[j] => i = j
ListRight ==
  \A o \in InFloodfills :
    /\ infos[o].ident # 0
    /\ infos[o].unreachable = TRUE \/ infos[o].replaced = TRUE \/ \E i \in DbIdents : table[i] = o
ReplacedMixed == \A o \in DbObjects : infos[o].replaced = TRUE => dbMixed # {}

(* The round will take router i from the table: it is unreachable, its turn *)
(* is over, and a file was deleted.                                         *)
Doomed(i) ==
  /\ infos[table[i]].unreachable = TRUE /\ saving.active = TRUE /\ saving.deleted > 0
  /\ \A k \in DOMAIN saving.todo : saving.todo[k] # i

(* The table names an object by the identity it has, unless a store mixed   *)
(* the two; what was updated has its buffer, and what was saved its file, a *)
(* right one.                                                               *)
RouterRight(i) ==
  /\ infos[table[i]].ident # 0 /\ infos[table[i]].version > 0
  /\ infos[table[i]].ident = i \/ (i \in dbMixed /\ infos[table[i]].ident \in dbMixed)
  /\ infos[table[i]].updated = TRUE => infos[table[i]].buffer = infos[table[i]].version
  /\ i \notin dbMixed /\ infos[table[i]].failed = FALSE =>
       /\ infos[table[i]].buffer \in {0, infos[table[i]].version}
       /\ infos[table[i]].updated = FALSE => files[i] = infos[table[i]].version \/ Doomed(i)
       /\ infos[table[i]].entered = TRUE => table[i] \in InFloodfills \/ Doomed(i)
TableRight == \A i \in DbIdents : table[i] # 0 => RouterRight(i)

DbInv ==
  /\ DbType /\ TodoKnown /\ Once(saving.todo) /\ TableOnce /\ ListRight /\ ReplacedMixed /\ TableRight

LEMMA DbFacts ==
  /\ DbIdents \subseteq DbObjects /\ 0 \notin DbIdents /\ 0 \notin DbObjects
  /\ DbIdents \subseteq Nat
  /\ NoInfo \in DbRecord /\ NoInfo.ident = 0 /\ NoInfo.replaced = FALSE
  /\ NotSaving \in DbSaving /\ NotSaving.active = FALSE
<1>1. Cardinality(DbIdents) \in Nat
  BY DbAssumption, FS_CardinalityType
<1>2. DbIdents = 1 .. Cardinality(DbIdents) /\ DbMaxHandled \in Nat
  BY DbAssumption
<1>3. DbIdents \subseteq DbObjects /\ 0 \notin DbIdents /\ 0 \notin DbObjects
  BY <1>1, <1>2 DEF DbObjects
<1>4. NoInfo \in DbRecord /\ NoInfo.ident = 0 /\ NoInfo.replaced = FALSE
  BY DEF NoInfo, DbRecord
<1>5. NotSaving \in DbSaving /\ NotSaving.active = FALSE
  BY DEF NotSaving, DbSaving
<1> QED
  BY <1>1, <1>2, <1>3, <1>4, <1>5

(* What a router info published by a router says.                           *)
LEMMA VersionFacts ==
  ASSUME NEW i \in DbIdents, NEW v \in DOMAIN DbPublished[i]
  PROVE  /\ v \in Nat /\ v > 0
         /\ DbVersion(i, v) \in [floodfill : BOOLEAN, firewalled : BOOLEAN, usable : BOOLEAN, at : Nat]
<1>1. DbPublished[i] \in Seq([floodfill : BOOLEAN, firewalled : BOOLEAN, usable : BOOLEAN, at : Nat])
  BY DbAssumption
<1>2. PICK p, R : /\ p = DbPublished[i]
                  /\ R = [floodfill : BOOLEAN, firewalled : BOOLEAN, usable : BOOLEAN, at : Nat]
  OBVIOUS
<1>3. p \in Seq(R) /\ v \in DOMAIN p
  BY <1>1, <1>2
<1>4. v \in Nat /\ v > 0 /\ p[v] \in R
  BY <1>3
<1> QED
  BY <1>2, <1>4 DEF DbVersion

(* What an object is once a message is read into it.                        *)
LEMMA UpdatedFacts ==
  ASSUME NEW m \in DbStores, NEW old \in DbRecord
  PROVE  /\ m.key \in DbIdents /\ m.ident \in DbIdents
         /\ Updated(old, m) \in DbRecord
         /\ Updated(old, m).ident = m.ident /\ Updated(old, m).version = m.version /\ m.version > 0
         /\ Updated(old, m).buffer = m.version /\ Updated(old, m).updated = TRUE
         /\ Updated(old, m).failed = old.failed /\ Updated(old, m).entered = old.entered
         /\ Updated(old, m).replaced = old.replaced
<1>1. m.key \in DbIdents /\ m.ident \in DbIdents /\ m.version \in DOMAIN DbPublished[m.ident]
  BY DbAssumption
<1>2. m.version \in Nat /\ m.version > 0
  BY <1>1, VersionFacts
<1>3. PICK u : u = (~m.signed \/ ~DbVersion(m.ident, m.version).usable)
  OBVIOUS
<1>4. u \in BOOLEAN
  BY <1>3, Zenon
<1>5. PICK i, v : i = m.ident /\ v = m.version
  OBVIOUS
<1>6. PICK a : a = [old EXCEPT !.ident = i, !.version = v]
  OBVIOUS
<1>7. PICK c, b : c = [a EXCEPT !.buffer = v] /\ b = [c EXCEPT !.updated = TRUE]
  OBVIOUS
<1>8. PICK new : new = [b EXCEPT !.unreachable = u]
  OBVIOUS
<1>9. /\ new \in DbRecord /\ new.ident = i /\ new.version = v /\ new.buffer = v /\ new.updated = TRUE
      /\ new.failed = old.failed /\ new.entered = old.entered /\ new.replaced = old.replaced
      /\ Updated(old, m) = new
  <2>1. i \in DbIdents /\ v \in Nat
    BY <1>1, <1>2, <1>5
  <2>2. /\ a \in DbRecord /\ a.ident = i /\ a.version = v
        /\ a.failed = old.failed /\ a.entered = old.entered /\ a.replaced = old.replaced
    BY <1>6, <2>1 DEF DbRecord
  <2>3. /\ b \in DbRecord /\ b.ident = a.ident /\ b.version = a.version /\ b.buffer = v /\ b.updated = TRUE
        /\ b.failed = a.failed /\ b.entered = a.entered /\ b.replaced = a.replaced
    <3>1. /\ c \in DbRecord /\ c.ident = a.ident /\ c.version = a.version /\ c.buffer = v
          /\ c.failed = a.failed /\ c.entered = a.entered /\ c.replaced = a.replaced
      BY <1>7, <2>1, <2>2 DEF DbRecord
    <3> QED
      BY <1>7, <3>1 DEF DbRecord
  <2>4. /\ new \in DbRecord /\ new.ident = b.ident /\ new.version = b.version /\ new.buffer = b.buffer
        /\ new.updated = b.updated
        /\ new.failed = b.failed /\ new.entered = b.entered /\ new.replaced = b.replaced
    BY <1>4, <1>8, <2>3 DEF DbRecord
  <2>5. Updated(old, m) = new
    BY <1>3, <1>5, <1>6, <1>7, <1>8 DEF Updated
  <2> QED
    BY <2>2, <2>3, <2>4, <2>5
<1>10. PICK r : r = Updated(old, m)
  OBVIOUS
<1>11. r = new
  BY <1>9, <1>10
<1>12. /\ r \in DbRecord /\ r.ident = i /\ r.version = v /\ r.buffer = v /\ r.updated = TRUE
       /\ r.failed = old.failed /\ r.entered = old.entered /\ r.replaced = old.replaced
  BY <1>9, <1>11, Zenon
<1> QED
  BY <1>1, <1>2, <1>5, <1>10, <1>12, Zenon

LEMMA InOrderFacts ==
  ASSUME NEW S
  PROVE  InOrder(S) \in Seq(DbIdents \cap S)
<1> DEFINE s == [k \in 1 .. Cardinality(DbIdents) |-> k]
<1>1. Cardinality(DbIdents) \in Nat /\ DbIdents = 1 .. Cardinality(DbIdents)
  BY DbAssumption, FS_CardinalityType
<1>2. s \in Seq(DbIdents)
  BY <1>1
<1> HIDE DEF s
<1>3. Only(s, S) \in Seq(DbIdents \cap S)
  BY <1>2, OnlyFacts
<1> QED
  BY <1>3 DEF InOrder, s

LEMMA ListedFacts ==
  ASSUME floodfills \in Seq(DbObjects)
  PROVE  floodfills \in Seq(InFloodfills) /\ InFloodfills \subseteq DbObjects
<1>1. /\ Len(floodfills) \in Nat /\ DOMAIN floodfills = 1 .. Len(floodfills)
      /\ floodfills = [k \in 1 .. Len(floodfills) |-> floodfills[k]]
      /\ \A k \in 1 .. Len(floodfills) : floodfills[k] \in DbObjects
  BY LenProperties
<1>2. floodfills \in [1 .. Len(floodfills) -> InFloodfills]
  BY <1>1 DEF InFloodfills
<1>3. floodfills \in Seq(InFloodfills)
  BY <1>1, <1>2, SeqDef
<1> QED
  BY <1>1, <1>3 DEF InFloodfills

(* What an action leaves alone stays right.                                 *)
LEMMA RouterKept ==
  ASSUME NEW i \in DbIdents, RouterRight(i), table'[i] = table[i], infos'[table[i]] = infos[table[i]],
         dbMixed \subseteq dbMixed', i \notin dbMixed' => files'[i] = files[i],
         table[i] \in InFloodfills => table[i] \in InFloodfills' \/ Doomed(i)', Doomed(i) => Doomed(i)'
  PROVE  RouterRight(i)'
BY DEF RouterRight

(* Outside a round no router is about to leave.                             *)
LEMMA NotDoomed ==
  ASSUME DbType, ~saving.active
  PROVE  \A i : ~Doomed(i)
<1>1. saving.active = FALSE
  BY DEF DbType, DbSaving
<1> QED
  BY <1>1 DEF Doomed

(* An action that alters one object of the table and no more of the tables. *)
LEMMA OneAltered ==
  ASSUME DbInv, NEW i \in DbIdents, table[i] # 0, NEW new \in DbRecord,
         infos' = [infos EXCEPT ![table[i]] = new], table' = table
  PROVE  /\ infos' \in [DbObjects -> DbRecord] /\ infos'[table[i]] = new
         /\ table[i] \in DbObjects
         /\ \A p \in DbObjects : p # table[i] => infos'[p] = infos[p]
         /\ \A j \in DbIdents : j # i /\ table[j] # 0 => infos'[table[j]] = infos[table[j]]
         /\ TableOnce'
<1>1. table[i] \in DbObjects
  BY DEF DbInv, DbType
<1>2. /\ infos' \in [DbObjects -> DbRecord] /\ infos'[table[i]] = new
      /\ \A p \in DbObjects : p # table[i] => infos'[p] = infos[p]
  BY <1>1 DEF DbInv, DbType
<1>3. \A j \in DbIdents : j # i /\ table[j] # 0 => table[j] \in DbObjects /\ table[j] # table[i]
  BY DEF DbInv, DbType, TableOnce
<1>4. TableOnce'
  BY DEF DbInv, TableOnce
<1> QED
  BY <1>1, <1>2, <1>3, <1>4

LEMMA LookupRouterStep ==
  ASSUME NEW i \in DbIdents, DbInv, LookupRouter(i)
  PROVE  DbInv'
<1>1. table[i] # 0 /\ ~saving.active /\ UNCHANGED <<table, floodfills, files, saving, dbMixed, dbNow>>
  BY DEF LookupRouter
<1>2. PICK b \in LoadBuffer(i) : infos' = [infos EXCEPT ![table[i]] = [infos[table[i]] EXCEPT !.buffer = b]]
  BY DEF LookupRouter
<1>3. PICK o : o = table[i] /\ o \in DbObjects
  BY <1>1 DEF DbInv, DbType
<1>4. PICK new : new = [infos[o] EXCEPT !.buffer = b]
  OBVIOUS
<1>5. infos[o] \in DbRecord /\ RouterRight(i)
  BY <1>1, <1>3 DEF DbInv, DbType, TableRight
<1>6. infos[o].ident \in DbIdents
  BY <1>3, <1>5 DEF RouterRight, DbRecord
<1>7. b \in Int /\ (infos[o].buffer # 0 => b = infos[o].buffer)
      /\ (infos[o].buffer = 0 => b = files[infos[o].ident] \/ files[infos[o].ident] = Torn)
  <2>1. infos[o].buffer \in Int /\ files[infos[o].ident] \in Int /\ Torn \in Int
    BY <1>5, <1>6 DEF DbRecord, DbInv, DbType, Torn
  <2>2. o # 0
    BY <1>1, <1>3
  <2> QED
    BY <1>3, <2>1, <2>2 DEF LoadBuffer
<1>8. /\ new \in DbRecord /\ new.ident = infos[o].ident /\ new.version = infos[o].version
      /\ new.unreachable = infos[o].unreachable /\ new.updated = infos[o].updated /\ new.buffer = b
      /\ new.failed = infos[o].failed /\ new.entered = infos[o].entered /\ new.replaced = infos[o].replaced
  BY <1>4, <1>5, <1>7 DEF DbRecord
<1>9. infos' = [infos EXCEPT ![table[i]] = new]
  BY <1>2, <1>3, <1>4
<1>10. /\ infos' \in [DbObjects -> DbRecord] /\ infos'[o] = new
       /\ \A p \in DbObjects : p # o => infos'[p] = infos[p]
       /\ \A j \in DbIdents : j # i /\ table[j] # 0 => infos'[table[j]] = infos[table[j]]
       /\ TableOnce'
  BY <1>1, <1>3, <1>8, <1>9, OneAltered
<1>11. InFloodfills' = InFloodfills /\ InFloodfills \subseteq DbObjects
  BY <1>1, ListedFacts DEF InFloodfills, DbInv, DbType
<1>12. DbType' /\ TodoKnown' /\ Once(saving.todo)'
  BY <1>1, <1>10 DEF DbInv, DbType, TodoKnown, Once
<1>13. ListRight' /\ ReplacedMixed'
  <2>1. \A p \in DbObjects : /\ infos'[p].ident = infos[p].ident /\ infos'[p].unreachable = infos[p].unreachable
                             /\ infos'[p].replaced = infos[p].replaced
    BY <1>8, <1>10
  <2> QED
    BY <1>1, <1>11, <2>1 DEF DbInv, ListRight, ReplacedMixed
<1>14. \A j : ~Doomed(j)
  BY <1>1, NotDoomed DEF DbInv
<1>15. RouterRight(i)'
  <2>1. i \notin dbMixed /\ infos[o].failed = FALSE => b \in {0, infos[o].version}
    <3> SUFFICES ASSUME i \notin dbMixed, infos[o].failed = FALSE, infos[o].buffer = 0
                 PROVE  b \in {0, infos[o].version}
      BY <1>3, <1>5, <1>7 DEF RouterRight
    <3>1. infos[o].ident = i /\ infos[o].updated # TRUE /\ infos[o].version > 0
      <4>1. /\ infos[o].ident = i /\ infos[o].version > 0
            /\ infos[o].updated = TRUE => infos[o].buffer = infos[o].version
        BY <1>3, <1>5 DEF RouterRight
      <4>2. infos[o].buffer = 0 /\ infos[o].version # 0
        BY <1>5, <4>1 DEF DbRecord
      <4> QED
        BY <4>1, <4>2
    <3>2. infos[o].updated = FALSE
      BY <1>5, <3>1 DEF DbRecord
    <3>3. files[i] = infos[o].version
      BY <1>3, <1>5, <1>14, <3>2 DEF RouterRight
    <3> QED
      BY <1>5, <1>7, <3>1, <3>3 DEF Torn, DbRecord
  <2>2. infos[o].updated = TRUE => b = infos[o].version
    BY <1>3, <1>5, <1>7 DEF RouterRight
  <2>3. table'[i] = o /\ infos'[o] = new /\ dbMixed' = dbMixed /\ files' = files
    BY <1>1, <1>3, <1>10
  <2>4. RouterRight(i) <=>
          /\ infos[o].ident # 0 /\ infos[o].version > 0
          /\ infos[o].ident = i \/ (i \in dbMixed /\ infos[o].ident \in dbMixed)
          /\ infos[o].updated = TRUE => infos[o].buffer = infos[o].version
          /\ i \notin dbMixed /\ infos[o].failed = FALSE =>
               /\ infos[o].buffer \in {0, infos[o].version}
               /\ infos[o].updated = FALSE => files[i] = infos[o].version
               /\ infos[o].entered = TRUE => o \in InFloodfills
    BY <1>3, <1>14 DEF RouterRight
  <2> QED
    BY <1>5, <1>8, <1>11, <2>1, <2>2, <2>3, <2>4 DEF RouterRight
<1>16. TableRight'
  <2> SUFFICES ASSUME NEW j \in DbIdents, table'[j] # 0, j # i
               PROVE  RouterRight(j)'
    BY <1>15 DEF TableRight
  <2>1. table[j] # 0 /\ RouterRight(j) /\ table'[j] = table[j] /\ infos'[table[j]] = infos[table[j]]
    BY <1>1, <1>10 DEF DbInv, TableRight
  <2> QED
    BY <1>1, <1>11, <1>14, <2>1, RouterKept
<1> QED
  BY <1>10, <1>12, <1>13, <1>16 DEF DbInv

LEMMA SetUnreachableStep ==
  ASSUME NEW i \in DbIdents, DbInv, SetUnreachable(i)
  PROVE  DbInv'
<1>1. table[i] # 0 /\ UNCHANGED <<table, floodfills, files, saving, dbMixed, dbNow>>
  BY DEF SetUnreachable
<1>3. PICK o : o = table[i] /\ o \in DbObjects
  BY <1>1 DEF DbInv, DbType
<1>4. PICK new : new = [infos[o] EXCEPT !.unreachable = TRUE]
  OBVIOUS
<1>5. infos[o] \in DbRecord /\ RouterRight(i)
  BY <1>1, <1>3 DEF DbInv, DbType, TableRight
<1>8. /\ new \in DbRecord /\ new.ident = infos[o].ident /\ new.version = infos[o].version
      /\ new.unreachable = TRUE /\ new.updated = infos[o].updated /\ new.buffer = infos[o].buffer
      /\ new.failed = infos[o].failed /\ new.entered = infos[o].entered /\ new.replaced = infos[o].replaced
  BY <1>4, <1>5 DEF DbRecord
<1>9. infos' = [infos EXCEPT ![table[i]] = new]
  BY <1>3, <1>4 DEF SetUnreachable
<1>10. /\ infos' \in [DbObjects -> DbRecord] /\ infos'[o] = new
       /\ \A p \in DbObjects : p # o => infos'[p] = infos[p]
       /\ \A j \in DbIdents : j # i /\ table[j] # 0 => infos'[table[j]] = infos[table[j]]
       /\ TableOnce'
  BY <1>1, <1>3, <1>8, <1>9, OneAltered
<1>11. InFloodfills' = InFloodfills /\ InFloodfills \subseteq DbObjects
  BY <1>1, ListedFacts DEF InFloodfills, DbInv, DbType
<1>12. DbType' /\ TodoKnown' /\ Once(saving.todo)'
  BY <1>1, <1>10 DEF DbInv, DbType, TodoKnown, Once
<1>13. ListRight' /\ ReplacedMixed'
  <2>1. \A p \in DbObjects : /\ infos'[p].ident = infos[p].ident
                             /\ infos[p].unreachable = TRUE => infos'[p].unreachable = TRUE
                             /\ infos'[p].replaced = infos[p].replaced
    BY <1>8, <1>10
  <2> QED
    BY <1>1, <1>11, <2>1 DEF DbInv, ListRight, ReplacedMixed
<1>14. \A j \in DbIdents : table[j] # 0 /\ Doomed(j) => Doomed(j)'
  <2> SUFFICES ASSUME NEW j \in DbIdents, table[j] # 0, Doomed(j)
               PROVE  Doomed(j)'
    OBVIOUS
  <2>1. infos'[table'[j]].unreachable = TRUE
    BY <1>1, <1>3, <1>8, <1>10 DEF Doomed
  <2> QED
    BY <1>1, <2>1 DEF Doomed
<1>15. RouterRight(i)'
  <2>3. table'[i] = o /\ infos'[o] = new /\ dbMixed' = dbMixed /\ files' = files
    BY <1>1, <1>3, <1>10
  <2>4. Doomed(i) => Doomed(i)'
    BY <1>1, <1>14
  <2> QED
    BY <1>3, <1>5, <1>8, <1>11, <2>3, <2>4 DEF RouterRight
<1>16. TableRight'
  <2> SUFFICES ASSUME NEW j \in DbIdents, table'[j] # 0, j # i
               PROVE  RouterRight(j)'
    BY <1>15 DEF TableRight
  <2>1. table[j] # 0 /\ RouterRight(j) /\ table'[j] = table[j] /\ infos'[table[j]] = infos[table[j]]
    BY <1>1, <1>10 DEF DbInv, TableRight
  <2> QED
    BY <1>1, <1>11, <1>14, <2>1, RouterKept
<1> QED
  BY <1>10, <1>12, <1>13, <1>16 DEF DbInv

LEMMA SaveBeginStep == DbInv /\ SaveBegin => DbInv'
<1> SUFFICES ASSUME DbInv, SaveBegin
             PROVE  DbInv'
  OBVIOUS
<1>1. ~saving.active /\ UNCHANGED <<infos, table, floodfills, files, dbMixed, dbNow>>
  BY DEF SaveBegin
<1>2. PICK order : order = InOrder(Known)
  OBVIOUS
<1>3. order \in Seq(DbIdents \cap Known) /\ Once(order)
  BY <1>2, InOrderFacts, InOrderMembers
<1>4. Cardinality(Known) \in Nat
  <2>1. Known \subseteq DbIdents /\ IsFiniteSet(DbIdents)
    BY DbAssumption DEF Known
  <2> QED
    BY <2>1, FS_Subset, FS_CardinalityType
<1>5. saving' = [active |-> TRUE, ts |-> dbNow, todo |-> order, total |-> Cardinality(Known), deleted |-> 0]
  BY <1>2 DEF SaveBegin
<1>6. saving' \in DbSaving /\ saving'.todo = order
  <2>1. order \in Seq(DbIdents)
    BY <1>3
  <2>2. dbNow \in Nat
    BY DEF DbInv, DbType
  <2> QED
    BY <1>4, <1>5, <2>1, <2>2 DEF DbSaving
<1>7. TodoKnown' /\ Once(saving.todo)'
  <2>1. \A k \in DOMAIN order : order[k] \in Known
    BY <1>3
  <2> QED
    BY <1>1, <1>3, <1>6, <2>1 DEF TodoKnown, Known, Once
<1>8. DbType' /\ TableOnce' /\ ListRight' /\ ReplacedMixed'
  BY <1>1, <1>6 DEF DbInv, DbType, TableOnce, ListRight, ReplacedMixed, InFloodfills
<1>9. TableRight'
  <2> SUFFICES ASSUME NEW j \in DbIdents, table'[j] # 0
               PROVE  RouterRight(j)'
    BY DEF TableRight
  <2>1. RouterRight(j) /\ ~Doomed(j)
    BY <1>1, NotDoomed DEF DbInv, TableRight
  <2> QED
    BY <1>1, <2>1, RouterKept DEF InFloodfills
<1> QED
  BY <1>7, <1>8, <1>9 DEF DbInv

(* A store under a key the table has: its object is read anew.              *)
LEMMA StoreKnownStep ==
  ASSUME NEW m \in DbStores, DbInv, StoreRouterInfo(m), table[m.key] # 0
  PROVE  DbInv'
<1>1. ~saving.active /\ UNCHANGED <<table, floodfills, files, saving, dbNow>>
  BY DEF StoreRouterInfo
<1>2. m.key \in DbIdents /\ m.ident \in DbIdents
  BY DbAssumption
<1>3. PICK k : k = m.key
  OBVIOUS
<1>4. PICK o : o = table[k] /\ o \in DbObjects
  BY <1>2, <1>3 DEF DbInv, DbType
<1>5. k \in DbIdents /\ table[k] # 0 /\ infos[o] \in DbRecord /\ RouterRight(k)
  BY <1>2, <1>3, <1>4 DEF DbInv, DbType, TableRight
<1>6. PICK new : new = Updated(infos[o], m)
  OBVIOUS
<1>7. /\ new \in DbRecord /\ new.ident = m.ident /\ new.version > 0 /\ new.buffer = new.version
      /\ new.updated = TRUE /\ new.failed = infos[o].failed /\ new.entered = infos[o].entered
      /\ new.replaced = infos[o].replaced
  BY <1>5, <1>6, UpdatedFacts
<1>8. infos' = [infos EXCEPT ![table[k]] = new]
  BY <1>3, <1>4, <1>6 DEF StoreRouterInfo
<1>9. dbMixed' \in SUBSET DbIdents /\ dbMixed \subseteq dbMixed' /\ (m.ident # k => {k, m.ident} \subseteq dbMixed')
  BY <1>2, <1>3 DEF StoreRouterInfo, DbInv, DbType
<1>10. /\ infos' \in [DbObjects -> DbRecord] /\ infos'[o] = new
       /\ \A p \in DbObjects : p # o => infos'[p] = infos[p]
       /\ \A j \in DbIdents : j # k /\ table[j] # 0 => infos'[table[j]] = infos[table[j]]
       /\ TableOnce'
  BY <1>1, <1>4, <1>5, <1>7, <1>8, OneAltered
<1>11. InFloodfills' = InFloodfills /\ InFloodfills \subseteq DbObjects
  BY <1>1, ListedFacts DEF InFloodfills, DbInv, DbType
<1>12. DbType' /\ TodoKnown' /\ Once(saving.todo)'
  BY <1>1, <1>9, <1>10 DEF DbInv, DbType, TodoKnown, Once
<1>13. m.ident # 0
  BY <1>2, DbFacts
<1>14. ListRight'
  <2> SUFFICES ASSUME NEW p \in InFloodfills
               PROVE  /\ infos'[p].ident # 0
                      /\ infos'[p].unreachable = TRUE \/ infos'[p].replaced = TRUE \/ \E j \in DbIdents : table'[j] = p
    BY <1>11 DEF ListRight
  <2>1. CASE p = o
    BY <1>1, <1>4, <1>5, <1>7, <1>10, <1>13, <2>1
  <2>2. CASE p # o
    BY <1>1, <1>10, <1>11, <2>2 DEF DbInv, ListRight
  <2> QED
    BY <2>1, <2>2
<1>15. ReplacedMixed'
  <2>1. \A p \in DbObjects : infos'[p].replaced = infos[p].replaced
    BY <1>7, <1>10
  <2> QED
    BY <1>9, <2>1 DEF DbInv, ReplacedMixed
<1>16. \A j : ~Doomed(j)
  BY <1>1, NotDoomed DEF DbInv
<1>17. RouterRight(k)'
  <2>1. table'[k] = o /\ infos'[o] = new
    BY <1>1, <1>4, <1>10
  <2>2. k \notin dbMixed' /\ new.failed = FALSE => (new.entered = TRUE => o \in InFloodfills)
    BY <1>4, <1>5, <1>7, <1>9, <1>16 DEF RouterRight
  <2>3. new.ident # 0 /\ new.updated # FALSE
    BY <1>7, <1>13
  <2> QED
    BY <1>7, <1>9, <1>11, <2>1, <2>2, <2>3 DEF RouterRight
<1>18. TableRight'
  <2> SUFFICES ASSUME NEW j \in DbIdents, table'[j] # 0, j # k
               PROVE  RouterRight(j)'
    BY <1>17 DEF TableRight
  <2>1. table[j] # 0 /\ RouterRight(j) /\ table'[j] = table[j] /\ infos'[table[j]] = infos[table[j]]
    BY <1>1, <1>10 DEF DbInv, TableRight
  <2> QED
    BY <1>1, <1>9, <1>11, <1>16, <2>1, RouterKept
<1> QED
  BY <1>10, <1>12, <1>14, <1>15, <1>18 DEF DbInv

(* A store under an unknown key: a new object takes the table's entry of    *)
(* the identity that was read.                                              *)
LEMMA StoreNewStep ==
  ASSUME NEW m \in DbStores, DbInv, StoreRouterInfo(m), table[m.key] = 0
  PROVE  DbInv'
<1>1. ~saving.active /\ UNCHANGED <<files, saving, dbNow>>
  BY DEF StoreRouterInfo
<1>2. m.key \in DbIdents /\ m.ident \in DbIdents /\ m.version \in DOMAIN DbPublished[m.ident]
  BY DbAssumption
<1>3. PICK k, i : k = m.key /\ i = m.ident
  OBVIOUS
<1>4. PICK f : f = DbFresh /\ f \in DbObjects /\ infos[f] = NoInfo
  <2>1. \E o \in DbObjects : infos[o] = NoInfo
    BY DEF StoreRouterInfo
  <2> QED
    BY <2>1 DEF DbFresh
<1>5. PICK listed : listed = DbVersion(m.ident, m.version).floodfill /\ listed \in BOOLEAN
  <2>1. DbVersion(m.ident, m.version) \in [floodfill : BOOLEAN, firewalled : BOOLEAN, usable : BOOLEAN, at : Nat]
    BY <1>2, VersionFacts
  <2> QED
    BY <2>1
<1>6. PICK u : u = Updated(NoInfo, m)
  OBVIOUS
<1>7. /\ u \in DbRecord /\ u.ident = i /\ u.version > 0 /\ u.buffer = u.version
      /\ u.updated = TRUE /\ u.failed = NoInfo.failed /\ u.replaced = FALSE
  <2>1. NoInfo \in DbRecord /\ NoInfo.replaced = FALSE
    BY DbFacts
  <2>2. PICK none : none = NoInfo
    OBVIOUS
  <2>3. /\ u \in DbRecord /\ u.ident = m.ident /\ u.version = m.version /\ m.version > 0 /\ u.buffer = m.version
        /\ u.updated = TRUE /\ u.failed = none.failed /\ u.replaced = none.replaced
    BY <1>6, <2>1, <2>2, UpdatedFacts
  <2> QED
    BY <1>3, <2>1, <2>2, <2>3, Zenon
<1>8. PICK new : new = [u EXCEPT !.entered = listed]
  OBVIOUS
<1>9. /\ new \in DbRecord /\ new.ident = i /\ new.version > 0 /\ new.buffer = new.version
      /\ new.updated = TRUE /\ new.replaced = FALSE /\ new.entered = listed
  BY <1>5, <1>7, <1>8 DEF DbRecord
<1>10. PICK q : q = table[i] /\ q \in DbObjects \cup {0}
  BY <1>2, <1>3 DEF DbInv, DbType
<1>11. PICK marked : marked = [infos[q] EXCEPT !.replaced = TRUE]
  OBVIOUS
<1>12. infos' = [o \in DbObjects |-> IF o = f THEN new ELSE IF o = q THEN marked ELSE infos[o]]
  BY <1>2, <1>3, <1>4, <1>5, <1>6, <1>8, <1>10, <1>11 DEF StoreRouterInfo
<1>13. table' = [table EXCEPT ![i] = f] /\ floodfills' = IF listed THEN Append(floodfills, f) ELSE floodfills
  BY <1>2, <1>3, <1>4, <1>5 DEF StoreRouterInfo
<1>14. dbMixed' \in SUBSET DbIdents /\ dbMixed \subseteq dbMixed' /\ (i # k => {k, i} \subseteq dbMixed')
  BY <1>2, <1>3 DEF StoreRouterInfo, DbInv, DbType
<1>15. q # 0 => i # k
  BY <1>3, <1>10
<1>16. q # 0 => /\ marked \in DbRecord /\ marked.ident = infos[q].ident /\ marked.replaced = TRUE
                /\ marked.unreachable = infos[q].unreachable
  <2> SUFFICES ASSUME q # 0
               PROVE  /\ marked \in DbRecord /\ marked.ident = infos[q].ident /\ marked.replaced = TRUE
                      /\ marked.unreachable = infos[q].unreachable
    OBVIOUS
  <2>1. infos[q] \in DbRecord
    BY <1>10 DEF DbInv, DbType
  <2> QED
    BY <1>11, <2>1 DEF DbRecord
<1>17. i \in DbIdents /\ i # 0 /\ f # 0 /\ infos[f].ident = 0
  BY <1>2, <1>3, <1>4, DbFacts
<1>18. /\ infos' \in [DbObjects -> DbRecord] /\ infos'[f] = new
       /\ q # 0 /\ q # f => infos'[q] = marked
       /\ \A p \in DbObjects : p # f /\ p # q => infos'[p] = infos[p]
  <2>1. \A p \in DbObjects : infos[p] \in DbRecord /\ p # 0
    BY DbFacts DEF DbInv, DbType
  <2>2. infos' \in [DbObjects -> DbRecord]
    BY <1>9, <1>12, <1>16, <2>1
  <2>3. infos'[f] = new
    BY <1>4, <1>12
  <2>4. q # 0 /\ q # f => infos'[q] = marked
    BY <1>10, <1>12
  <2>5. \A p \in DbObjects : p # f /\ p # q => infos'[p] = infos[p]
    BY <1>12
  <2> QED
    BY <2>2, <2>3, <2>4, <2>5
<1>19. \A j \in DbIdents : table[j] # f
  BY <1>4, <1>17 DEF DbInv, TableRight, RouterRight
<1>20. f \notin InFloodfills /\ InFloodfills \subseteq DbObjects /\ q # f
  <2>1. f \notin InFloodfills
    BY <1>17 DEF DbInv, ListRight
  <2> QED
    BY <1>10, <1>17, <1>19, <2>1, ListedFacts DEF DbInv, DbType
<1>21. /\ floodfills' \in Seq(DbObjects) /\ InFloodfills \subseteq InFloodfills'
       /\ InFloodfills' \subseteq InFloodfills \cup {f} /\ (listed = TRUE => f \in InFloodfills')
  <2>1. floodfills \in Seq(DbObjects)
    BY DEF DbInv, DbType
  <2>2. CASE listed = TRUE
    <3>1. floodfills' = Append(floodfills, f)
      BY <1>13, <2>2
    <3>2. /\ Len(floodfills) \in Nat /\ DOMAIN floodfills = 1 .. Len(floodfills)
          /\ Append(floodfills, f) \in Seq(DbObjects)
          /\ DOMAIN Append(floodfills, f) = 1 .. Len(floodfills) + 1
          /\ \A n \in 1 .. Len(floodfills) : Append(floodfills, f)[n] = floodfills[n]
          /\ Append(floodfills, f)[Len(floodfills) + 1] = f
      BY <1>4, <2>1
    <3>3. \A n \in 1 .. Len(floodfills) + 1 : n \in 1 .. Len(floodfills) \/ n = Len(floodfills) + 1
      BY <3>2
    <3>4. Len(floodfills) + 1 \in 1 .. Len(floodfills) + 1 /\ 1 .. Len(floodfills) \subseteq 1 .. Len(floodfills) + 1
      BY <3>2
    <3> HIDE DEF InFloodfills
    <3>5. InFloodfills' = {floodfills'[n] : n \in 1 .. Len(floodfills) + 1}
      BY <3>1, <3>2 DEF InFloodfills
    <3>6. InFloodfills = {floodfills[n] : n \in 1 .. Len(floodfills)}
      BY <3>2 DEF InFloodfills
    <3> QED
      BY <3>1, <3>2, <3>3, <3>4, <3>5, <3>6
  <2>3. CASE listed = FALSE
    BY <1>13, <2>1, <2>3 DEF InFloodfills
  <2> QED
    BY <1>5, <2>2, <2>3
<1>22. \A j \in DbIdents : table'[j] = IF j = i THEN f ELSE table[j]
  BY <1>13, <1>17 DEF DbInv, DbType
<1>23. DbType'
  <2>1. table' \in [DbIdents -> DbObjects \cup {0}]
    BY <1>4, <1>13 DEF DbInv, DbType
  <2>2. /\ files' \in [DbIdents -> Int] /\ saving' \in DbSaving /\ dbNow' \in Nat
    BY <1>1 DEF DbInv, DbType
  <2> QED
    BY <1>14, <1>18, <1>21, <2>1, <2>2 DEF DbType
<1>24. TodoKnown' /\ Once(saving.todo)'
  <2>1. saving.todo \in Seq(DbIdents)
    BY DEF DbInv, DbType, DbSaving
  <2>2. \A n \in DOMAIN saving.todo : saving.todo[n] \in DbIdents
    BY <2>1
  <2> QED
    BY <1>1, <1>17, <1>22, <2>2 DEF DbInv, TodoKnown, Once
<1>25. TableOnce'
  BY <1>19, <1>22 DEF DbInv, TableOnce
<1>26. ListRight'
  <2> SUFFICES ASSUME NEW p \in InFloodfills'
               PROVE  /\ infos'[p].ident # 0
                      /\ infos'[p].unreachable = TRUE \/ infos'[p].replaced = TRUE \/ \E j \in DbIdents : table'[j] = p
    BY DEF ListRight
  <2>1. CASE p = f
    BY <1>9, <1>17, <1>18, <1>22, <2>1
  <2>2. CASE p = q /\ p # f
    <3>1. p \in InFloodfills /\ q # 0
      BY <1>20, <1>21, <2>2, DbFacts
    <3>2. infos[q].ident # 0
      BY <2>2, <3>1 DEF DbInv, ListRight
    <3> QED
      BY <1>16, <1>18, <2>2, <3>1, <3>2
  <2>3. CASE p # q /\ p # f
    <3>1. p \in InFloodfills /\ p \in DbObjects
      BY <1>20, <1>21, <2>3
    <3>2. /\ infos[p].ident # 0
          /\ infos[p].unreachable = TRUE \/ infos[p].replaced = TRUE \/ \E j \in DbIdents : table[j] = p
      BY <3>1 DEF DbInv, ListRight
    <3>3. infos'[p] = infos[p]
      BY <1>18, <2>3, <3>1
    <3>4. (\E j \in DbIdents : table[j] = p) => \E j \in DbIdents : table'[j] = p
      BY <1>10, <1>22, <2>3
    <3> QED
      BY <3>2, <3>3, <3>4
  <2> QED
    BY <2>1, <2>2, <2>3
<1>27. ReplacedMixed'
  <2> SUFFICES ASSUME NEW p \in DbObjects, infos'[p].replaced = TRUE
               PROVE  dbMixed' # {}
    BY DEF ReplacedMixed
  <2>1. p # f
    BY <1>9, <1>18
  <2>2. CASE p = q
    <3>1. q # 0
      BY <2>2, DbFacts
    <3> QED
      BY <1>14, <1>15, <3>1
  <2>3. CASE p # q
    BY <1>14, <1>18, <2>1, <2>3 DEF DbInv, ReplacedMixed
  <2> QED
    BY <2>2, <2>3
<1>28. \A j : ~Doomed(j)
  BY <1>1, NotDoomed DEF DbInv
<1>29. RouterRight(i)'
  <2>1. table'[i] = f /\ infos'[f] = new /\ new.updated # FALSE
    BY <1>9, <1>17, <1>18, <1>22
  <2>2. new.entered = TRUE => f \in InFloodfills'
    BY <1>9, <1>21
  <2> QED
    BY <1>9, <1>17, <2>1, <2>2 DEF RouterRight
<1>30. TableRight'
  <2> SUFFICES ASSUME NEW j \in DbIdents, table'[j] # 0, j # i
               PROVE  RouterRight(j)'
    BY <1>29 DEF TableRight
  <2>1. table'[j] = table[j] /\ table[j] # 0
    BY <1>22
  <2>2. RouterRight(j) /\ table[j] # f /\ table[j] # q /\ table[j] \in DbObjects
    BY <1>10, <1>17, <1>19, <2>1 DEF DbInv, DbType, TableRight, TableOnce
  <2>3. infos'[table[j]] = infos[table[j]]
    BY <1>18, <2>2
  <2> QED
    BY <1>1, <1>14, <1>21, <1>28, <2>1, <2>2, <2>3, RouterKept
<1> QED
  BY <1>23, <1>24, <1>25, <1>26, <1>27, <1>30 DEF DbInv

(* The router whose turn it is comes once in the round, and is known.       *)
LEMMA RoundHead ==
  ASSUME DbInv, saving.todo # <<>>
  PROVE  /\ Head(saving.todo) \in DbIdents /\ table[Head(saving.todo)] # 0
         /\ Tail(saving.todo) \in Seq(DbIdents) /\ Once(Tail(saving.todo))
         /\ \E k \in DOMAIN saving.todo : saving.todo[k] = Head(saving.todo)
         /\ \A k \in DOMAIN Tail(saving.todo) :
              /\ k + 1 \in DOMAIN saving.todo /\ Tail(saving.todo)[k] = saving.todo[k + 1]
              /\ Tail(saving.todo)[k] # Head(saving.todo)
<1>1. PICK todo : todo = saving.todo
  OBVIOUS
<1>2. todo \in Seq(DbIdents) /\ todo # <<>>
  BY <1>1 DEF DbInv, DbType, DbSaving
<1>3. /\ Len(todo) \in Nat \ {0} /\ DOMAIN todo = 1 .. Len(todo)
      /\ Head(todo) = todo[1] /\ Tail(todo) \in Seq(DbIdents) /\ Len(Tail(todo)) = Len(todo) - 1
      /\ \A k \in 1 .. Len(Tail(todo)) : Tail(todo)[k] = todo[k + 1]
  BY <1>2, HeadTailProperties, LenProperties
<1>4. DOMAIN Tail(todo) = 1 .. Len(todo) - 1
  BY <1>3, LenProperties
<1>5. \A k \in 1 .. Len(todo) - 1 : k + 1 \in 1 .. Len(todo) /\ k + 1 # 1
  BY <1>3
<1>6. 1 \in 1 .. Len(todo)
  BY <1>3
<1>7. Once(todo)
  BY <1>1 DEF DbInv
<1>8. \A k \in 1 .. Len(todo) - 1 : Tail(todo)[k] = todo[k + 1] /\ todo[k + 1] # todo[1]
  BY <1>3, <1>5, <1>6, <1>7 DEF Once
<1>9. Once(Tail(todo))
  <2> SUFFICES ASSUME NEW j \in 1 .. Len(todo) - 1, NEW k \in 1 .. Len(todo) - 1, j # k
               PROVE  Tail(todo)[j] # Tail(todo)[k]
    BY <1>3 DEF Once
  <2>1. j + 1 # k + 1
    BY <1>3
  <2> QED
    BY <1>5, <1>7, <1>8, <2>1 DEF Once
<1>10. todo[1] \in DbIdents /\ table[todo[1]] # 0
  BY <1>1, <1>2, <1>3, <1>6 DEF DbInv, TodoKnown
<1> QED
  BY <1>1, <1>3, <1>4, <1>5, <1>6, <1>8, <1>9, <1>10

(* A turn of the round alters one object and leaves the other routers right. *)
TurnOf(h, o, new) ==
  /\ saving.active /\ saving.todo # <<>> /\ h = Head(saving.todo) /\ o = table[h]
  /\ new \in DbRecord /\ new.ident = infos[o].ident /\ new.replaced = infos[o].replaced
  /\ infos' = [infos EXCEPT ![o] = new] /\ table' = table /\ dbMixed' = dbMixed /\ dbNow' = dbNow
  /\ saving' \in DbSaving /\ saving'.todo = Tail(saving.todo) /\ saving'.active = TRUE
  /\ saving'.deleted >= saving.deleted
  /\ files' \in [DbIdents -> Int] /\ \A j \in DbIdents : j # infos[o].ident => files'[j] = files[j]
  /\ floodfills' \in Seq(DbObjects) /\ InFloodfills' \subseteq InFloodfills
  /\ InFloodfills \ {o} \subseteq InFloodfills'

LEMMA TurnKept ==
  ASSUME DbInv, NEW h, NEW o, NEW new, TurnOf(h, o, new), infos'[o] = new => RouterRight(h)'
  PROVE  DbInv'
<1>1. /\ h \in DbIdents /\ table[h] # 0 /\ Tail(saving.todo) \in Seq(DbIdents) /\ Once(Tail(saving.todo))
      /\ \A k \in DOMAIN Tail(saving.todo) :
           k + 1 \in DOMAIN saving.todo /\ Tail(saving.todo)[k] = saving.todo[k + 1]
  BY RoundHead DEF TurnOf
<1>2. /\ infos' = [infos EXCEPT ![table[h]] = new] /\ o = table[h] /\ new \in DbRecord /\ table' = table
  BY DEF TurnOf
<1>3. /\ infos' \in [DbObjects -> DbRecord] /\ infos'[o] = new /\ o \in DbObjects
      /\ \A p \in DbObjects : p # o => infos'[p] = infos[p]
      /\ \A j \in DbIdents : j # h /\ table[j] # 0 => infos'[table[j]] = infos[table[j]]
      /\ TableOnce'
  BY <1>1, <1>2, OneAltered
<1>4. DbType'
  BY <1>3 DEF DbInv, DbType, TurnOf
<1>5. TodoKnown' /\ Once(saving.todo)'
  BY <1>1 DEF DbInv, TodoKnown, Once, TurnOf
<1>6. InFloodfills \subseteq DbObjects
  BY ListedFacts DEF DbInv, DbType
<1>7. infos[o].ident # 0
  BY <1>1, <1>2 DEF DbInv, TableRight, RouterRight
<1>8. ListRight'
  <2> SUFFICES ASSUME NEW p \in InFloodfills'
               PROVE  /\ infos'[p].ident # 0
                      /\ infos'[p].unreachable = TRUE \/ infos'[p].replaced = TRUE \/ \E j \in DbIdents : table'[j] = p
    BY DEF ListRight
  <2>1. CASE p = o
    BY <1>1, <1>2, <1>3, <1>7, <2>1 DEF TurnOf
  <2>2. CASE p # o
    BY <1>2, <1>3, <1>6, <2>2 DEF DbInv, ListRight, TurnOf
  <2> QED
    BY <2>1, <2>2
<1>9. ReplacedMixed'
  <2>1. \A p \in DbObjects : infos'[p].replaced = infos[p].replaced
    BY <1>3 DEF TurnOf
  <2> QED
    BY <2>1 DEF DbInv, ReplacedMixed, TurnOf
<1>10. TableRight'
  <2> SUFFICES ASSUME NEW j \in DbIdents, table'[j] # 0, j # h
               PROVE  RouterRight(j)'
    BY <1>3 DEF TableRight
  <2>1. table[j] # 0 /\ RouterRight(j) /\ infos'[table[j]] = infos[table[j]]
    BY <1>2, <1>3 DEF DbInv, TableRight
  <2>2. table[j] # o
    BY <1>1, <1>2, <2>1 DEF DbInv, TableOnce
  <2>3. j \notin dbMixed => j # infos[o].ident
    BY <1>1, <1>2 DEF DbInv, TableRight, RouterRight
  <2>4. Doomed(j) => Doomed(j)'
    <3> SUFFICES ASSUME Doomed(j)
                 PROVE  Doomed(j)'
      OBVIOUS
    <3>1. saving.deleted > 0 /\ \A k \in DOMAIN saving.todo : saving.todo[k] # j
      BY DEF Doomed
    <3>2. \A k \in DOMAIN Tail(saving.todo) : Tail(saving.todo)[k] # j
      BY <1>1, <3>1
    <3>3. saving'.deleted > 0
      BY <3>1 DEF DbInv, DbType, DbSaving, TurnOf
    <3> QED
      BY <1>2, <2>1, <3>2, <3>3 DEF Doomed, TurnOf
  <2> QED
    BY <1>2, <2>1, <2>2, <2>3, <2>4, RouterKept DEF TurnOf
<1> QED
  BY <1>3, <1>4, <1>5, <1>8, <1>9, <1>10 DEF DbInv

(* What makes a router of the table right after a step.                     *)
LEMMA RouterRightNew ==
  ASSUME NEW h, NEW o, NEW n, table'[h] = o, infos'[o] = n,
         n.ident # 0, n.version > 0, n.ident = h \/ (h \in dbMixed' /\ n.ident \in dbMixed'),
         n.updated = TRUE => n.buffer = n.version,
         h \notin dbMixed' /\ n.failed = FALSE =>
           /\ n.buffer \in {0, n.version}
           /\ n.updated = FALSE => files'[h] = n.version \/ Doomed(h)'
           /\ n.entered = TRUE => o \in InFloodfills' \/ Doomed(h)'
  PROVE  RouterRight(h)'
BY DEF RouterRight

(* A router that was updated is written, or its write leaves something else. *)
LEMMA SaveUpdatedTurn ==
  ASSUME DbInv, SaveNext, infos[table[Head(saving.todo)]].updated = TRUE
  PROVE  DbInv'
<1>1. saving.active /\ saving.todo # <<>> /\ table' = table /\ dbMixed' = dbMixed /\ dbNow' = dbNow
  BY DEF SaveNext
<1>2. PICK h, o : h = Head(saving.todo) /\ o = table[h]
  OBVIOUS
<1>3. /\ h \in DbIdents /\ table[h] # 0 /\ Tail(saving.todo) \in Seq(DbIdents)
      /\ \E k \in DOMAIN saving.todo : saving.todo[k] = h
  BY <1>1, <1>2, RoundHead
<1>4. o \in DbObjects /\ infos[o] \in DbRecord /\ RouterRight(h)
  BY <1>2, <1>3 DEF DbInv, DbType, TableRight
<1>5. PICK i, v : i = infos[o].ident /\ v = infos[o].version
  OBVIOUS
<1>6. i \in DbIdents /\ v \in Nat /\ (h \notin dbMixed => i = h)
  BY <1>2, <1>4, <1>5 DEF DbRecord, RouterRight
<1>7. PICK left \in Written(i, v) :
        /\ files' = [files EXCEPT ![i] = left]
        /\ infos' = [infos EXCEPT ![o] = [infos[o] EXCEPT !.updated = FALSE, !.unreachable = FALSE, !.buffer = 0,
                        !.failed = IF left = v THEN infos[o].failed ELSE TRUE]]
        /\ saving' = [saving EXCEPT !.todo = Tail(saving.todo)]
        /\ floodfills' = floodfills
  BY <1>2, <1>5 DEF SaveNext
<1>8. left \in Int
  <2>1. DbCuts[i] \subseteq Nat
    BY <1>6, DbAssumption
  <2>2. files[i] \in Int
    BY <1>6 DEF DbInv, DbType
  <2> QED
    BY <1>6, <2>1, <2>2 DEF Written, Torn
<1>9. PICK failed : failed = (IF left = v THEN infos[o].failed ELSE TRUE)
  OBVIOUS
<1>10. failed \in BOOLEAN /\ (failed = FALSE => left = v /\ infos[o].failed = FALSE)
  BY <1>4, <1>9 DEF DbRecord
<1>11. PICK new : new = [infos[o] EXCEPT !.updated = FALSE, !.unreachable = FALSE, !.buffer = 0, !.failed = failed]
  OBVIOUS
<1>12. /\ new \in DbRecord /\ new.ident = i /\ new.version = v /\ new.updated = FALSE /\ new.unreachable = FALSE
       /\ new.buffer = 0 /\ new.failed = failed /\ new.entered = infos[o].entered /\ new.replaced = infos[o].replaced
  <2>1. PICK a : a = [infos[o] EXCEPT !.updated = FALSE]
    OBVIOUS
  <2>2. PICK b : b = [a EXCEPT !.unreachable = FALSE]
    OBVIOUS
  <2>3. PICK c : c = [b EXCEPT !.buffer = 0]
    OBVIOUS
  <2>4. PICK d : d = [c EXCEPT !.failed = failed]
    OBVIOUS
  <2>5. /\ a \in DbRecord /\ a.ident = i /\ a.version = v /\ a.updated = FALSE
        /\ a.entered = infos[o].entered /\ a.replaced = infos[o].replaced
    BY <1>4, <1>5, <2>1 DEF DbRecord
  <2>6. /\ b \in DbRecord /\ b.ident = i /\ b.version = v /\ b.updated = FALSE /\ b.unreachable = FALSE
        /\ b.entered = a.entered /\ b.replaced = a.replaced
    BY <2>2, <2>5 DEF DbRecord
  <2>7. /\ c \in DbRecord /\ c.ident = i /\ c.version = v /\ c.updated = FALSE /\ c.unreachable = FALSE
        /\ c.buffer = 0 /\ c.entered = b.entered /\ c.replaced = b.replaced
    BY <2>3, <2>6 DEF DbRecord
  <2>8. /\ d \in DbRecord /\ d.ident = i /\ d.version = v /\ d.updated = FALSE /\ d.unreachable = FALSE
        /\ d.buffer = 0 /\ d.failed = failed /\ d.entered = c.entered /\ d.replaced = c.replaced
    BY <1>10, <2>4, <2>7 DEF DbRecord
  <2>9. d = new
    BY <1>11, <2>1, <2>2, <2>3, <2>4
  <2> QED
    BY <2>5, <2>6, <2>7, <2>8, <2>9
<1>13. infos' = [infos EXCEPT ![o] = new]
  BY <1>7, <1>9, <1>11, Zenon
<1>14. /\ saving' \in DbSaving /\ saving'.todo = Tail(saving.todo) /\ saving'.active = TRUE
       /\ saving'.deleted >= saving.deleted
  <2>1. saving \in DbSaving /\ saving.active = TRUE
    BY <1>1 DEF DbInv, DbType, DbSaving
  <2>2. PICK t : t = Tail(saving.todo)
    OBVIOUS
  <2>3. saving' = [saving EXCEPT !.todo = t]
    BY <1>7, <2>2, Zenon
  <2>4. PICK x : x = [saving EXCEPT !.todo = t]
    OBVIOUS
  <2>5. x \in DbSaving /\ x.todo = t /\ x.active = TRUE /\ x.deleted = saving.deleted /\ saving.deleted \in Nat
    BY <1>3, <2>1, <2>2, <2>4 DEF DbSaving
  <2>6. saving' = x /\ saving.deleted >= saving.deleted
    BY <2>3, <2>4, <2>5
  <2> QED
    BY <2>2, <2>5, <2>6, Zenon
<1>15. /\ files' \in [DbIdents -> Int] /\ files'[i] = left
       /\ \A j \in DbIdents : j # i => files'[j] = files[j]
  BY <1>6, <1>7, <1>8 DEF DbInv, DbType
<1>16. floodfills' \in Seq(DbObjects) /\ InFloodfills' = InFloodfills
  BY <1>7 DEF DbInv, DbType, InFloodfills
<1>17. ASSUME infos'[o] = new
       PROVE  RouterRight(h)'
  <2>1. table'[h] = o /\ v > 0 /\ ~Doomed(h) /\ i # 0 /\ (i = h \/ (h \in dbMixed /\ i \in dbMixed))
    BY <1>1, <1>2, <1>3, <1>4, <1>5 DEF RouterRight, Doomed
  <2>2. h \notin dbMixed /\ failed = FALSE => files'[h] = v /\ (infos[o].entered = TRUE => o \in InFloodfills)
    BY <1>2, <1>4, <1>6, <1>10, <1>15, <2>1 DEF RouterRight
  <2>3. new.updated # TRUE
    BY <1>12
  <2>4. /\ new.ident # 0 /\ new.version > 0
        /\ new.ident = h \/ (h \in dbMixed' /\ new.ident \in dbMixed')
        /\ new.updated = TRUE => new.buffer = new.version
        /\ h \notin dbMixed' /\ new.failed = FALSE =>
             /\ new.buffer \in {0, new.version}
             /\ new.updated = FALSE => files'[h] = new.version
             /\ new.entered = TRUE => o \in InFloodfills'
    BY <1>1, <1>12, <1>16, <2>1, <2>2, <2>3
  <2> QED
    BY <1>17, <2>1, <2>4, RouterRightNew
<1>18. i = infos[o].ident
  BY <1>5
<1>19. /\ new \in DbRecord /\ new.ident = infos[o].ident /\ new.replaced = infos[o].replaced
       /\ \A j \in DbIdents : j # infos[o].ident => files'[j] = files[j]
       /\ InFloodfills' \subseteq InFloodfills /\ InFloodfills \ {o} \subseteq InFloodfills'
       /\ infos'[o] = new => RouterRight(h)'
  BY <1>12, <1>15, <1>16, <1>17, <1>18
<1>20. TurnOf(h, o, new)
  BY <1>1, <1>2, <1>13, <1>14, <1>15, <1>16, <1>19 DEF TurnOf
<1> QED
  BY <1>17, <1>20, TurnKept

(* One that was not loses its file and its place in the list when it goes.  *)
LEMMA SaveOtherTurn ==
  ASSUME DbInv, SaveNext, infos[table[Head(saving.todo)]].updated = FALSE
  PROVE  DbInv'
<1>1. saving.active /\ saving.todo # <<>> /\ table' = table /\ dbMixed' = dbMixed /\ dbNow' = dbNow
  BY DEF SaveNext
<1>2. PICK h, o : h = Head(saving.todo) /\ o = table[h]
  OBVIOUS
<1>3. /\ h \in DbIdents /\ table[h] # 0 /\ Tail(saving.todo) \in Seq(DbIdents)
      /\ \E k \in DOMAIN saving.todo : saving.todo[k] = h
      /\ \A k \in DOMAIN Tail(saving.todo) : Tail(saving.todo)[k] # h
  BY <1>1, <1>2, RoundHead
<1>4. o \in DbObjects /\ infos[o] \in DbRecord /\ RouterRight(h)
  BY <1>2, <1>3 DEF DbInv, DbType, TableRight
<1>5. PICK i : i = infos[o].ident
  OBVIOUS
<1>6. i \in DbIdents /\ (h \notin dbMixed => i = h)
  BY <1>2, <1>4, <1>5 DEF DbRecord, RouterRight
<1>7. PICK old : old = (UsesIntroducer(o) /\ saving.ts - DbSays(o).at > 1)
  OBVIOUS
<1>8. PICK gone : gone = (infos[o].unreachable \/ old \/ Aged(o))
  OBVIOUS
<1>9. gone \in BOOLEAN
  BY <1>8, Zenon
<1>10. /\ files' = IF gone THEN [files EXCEPT ![i] = 0] ELSE files
       /\ infos' = [infos EXCEPT ![o] = [infos[o] EXCEPT !.unreachable = gone]]
       /\ floodfills' = IF gone /\ IsFloodfill(o) THEN Only(floodfills, DbObjects \ {o}) ELSE floodfills
       /\ saving' = [saving EXCEPT !.todo = Tail(saving.todo),
                       !.total = saving.total - (IF gone THEN 1 ELSE 0) - (IF ~old /\ Aged(o) THEN 1 ELSE 0),
                       !.deleted = saving.deleted + (IF gone /\ files[i] # 0 THEN 1 ELSE 0)]
  BY <1>2, <1>5, <1>7, <1>8, Zenon DEF SaveNext
<1>11. PICK new : new = [infos[o] EXCEPT !.unreachable = gone]
  OBVIOUS
<1>12. /\ new \in DbRecord /\ new.ident = i /\ new.version = infos[o].version /\ new.unreachable = gone
       /\ new.updated = infos[o].updated /\ new.buffer = infos[o].buffer /\ new.failed = infos[o].failed
       /\ new.entered = infos[o].entered /\ new.replaced = infos[o].replaced
  BY <1>4, <1>5, <1>9, <1>11 DEF DbRecord
<1>13. infos' = [infos EXCEPT ![o] = new]
  BY <1>10, <1>11, Zenon
<1>14. PICK d : d = (IF gone /\ files[i] # 0 THEN 1 ELSE 0) /\ d \in Nat
  OBVIOUS
<1>15. /\ saving' \in DbSaving /\ saving'.todo = Tail(saving.todo) /\ saving'.active = TRUE
       /\ saving'.deleted = saving.deleted + d /\ saving.deleted \in Nat
  <2>1. saving \in DbSaving /\ saving.active = TRUE
    BY <1>1 DEF DbInv, DbType, DbSaving
  <2>2. PICK a, b : a = (IF gone THEN 1 ELSE 0) /\ b = IF ~old /\ Aged(o) THEN 1 ELSE 0
    OBVIOUS
  <2>3. a \in Int /\ b \in Int
    BY <2>2
  <2>4. saving' = [saving EXCEPT !.todo = Tail(saving.todo), !.total = saving.total - a - b, !.deleted = saving.deleted + d]
    BY <1>10, <1>14, <2>2, Zenon
  <2>5. PICK t, e : t = saving.total - a - b /\ e = saving.deleted + d
    OBVIOUS
  <2>6. t \in Int /\ e \in Nat
    BY <1>14, <2>1, <2>3, <2>5 DEF DbSaving
  <2>7. PICK x, y, z : /\ x = [saving EXCEPT !.todo = Tail(saving.todo)]
                       /\ y = [x EXCEPT !.total = t] /\ z = [y EXCEPT !.deleted = e]
    OBVIOUS
  <2>8. x \in DbSaving /\ x.todo = Tail(saving.todo) /\ x.active = TRUE
    BY <1>3, <2>1, <2>7 DEF DbSaving
  <2>9. y \in DbSaving /\ y.todo = x.todo /\ y.active = TRUE
    BY <2>6, <2>7, <2>8 DEF DbSaving
  <2>10. z \in DbSaving /\ z.todo = y.todo /\ z.active = TRUE /\ z.deleted = e
    BY <2>6, <2>7, <2>9 DEF DbSaving
  <2>11. saving' = z
    BY <2>1, <2>4, <2>5, <2>7 DEF DbSaving
  <2> QED
    BY <2>1, <2>5, <2>8, <2>9, <2>10, <2>11 DEF DbSaving
<1>16. /\ files' \in [DbIdents -> Int] /\ (gone = FALSE => files' = files)
       /\ \A j \in DbIdents : j # i => files'[j] = files[j]
  BY <1>6, <1>9, <1>10 DEF DbInv, DbType
<1>17. /\ floodfills' \in Seq(DbObjects) /\ InFloodfills' \subseteq InFloodfills
       /\ InFloodfills \ {o} \subseteq InFloodfills' /\ (gone = FALSE => InFloodfills' = InFloodfills)
  <2>1. floodfills \in Seq(DbObjects) /\ floodfills \in Seq(InFloodfills) /\ InFloodfills \subseteq DbObjects
    BY ListedFacts DEF DbInv, DbType
  <2>2. InFloodfills = Members(floodfills)
    <3>1. DOMAIN floodfills = 1 .. Len(floodfills)
      BY <2>1
    <3> QED
      BY <3>1 DEF InFloodfills, Members
  <2>3. CASE floodfills' = floodfills
    BY <2>1, <2>3 DEF InFloodfills
  <2>4. CASE gone = TRUE /\ floodfills' = Only(floodfills, DbObjects \ {o})
    <3>1. floodfills' \in Seq(DbObjects \cap (DbObjects \ {o}))
      BY <2>1, <2>4, OnlyFacts
    <3>2. floodfills' \in Seq(DbObjects)
      BY <3>1
    <3>3. Members(floodfills') = InFloodfills \cap (DbObjects \ {o})
      BY <2>1, <2>2, <2>4, OnlyMembers
    <3>4. InFloodfills' = Members(floodfills')
      <4>1. DOMAIN floodfills' = 1 .. Len(floodfills')
        BY <3>2
      <4> QED
        BY <4>1 DEF InFloodfills, Members
    <3> QED
      BY <2>1, <2>4, <3>2, <3>3, <3>4
  <2> QED
    BY <1>9, <1>10, <2>3, <2>4
<1>18. ASSUME infos'[o] = new
       PROVE  RouterRight(h)'
  <2>1. table'[h] = o /\ ~Doomed(h)
    BY <1>1, <1>2, <1>3 DEF Doomed
  <2>2. /\ infos[o].ident # 0 /\ infos[o].version > 0
        /\ infos[o].ident = h \/ (h \in dbMixed /\ infos[o].ident \in dbMixed)
        /\ infos[o].updated = TRUE => infos[o].buffer = infos[o].version
        /\ h \notin dbMixed /\ infos[o].failed = FALSE =>
             /\ infos[o].buffer \in {0, infos[o].version}
             /\ files[h] = infos[o].version
             /\ infos[o].entered = TRUE => o \in InFloodfills
    BY <1>2, <1>4, <2>1 DEF RouterRight
  <2>3. CASE gone = FALSE
    <3>1. files' = files /\ InFloodfills' = InFloodfills
      BY <1>16, <1>17, <2>3
    <3>2. /\ new.ident # 0 /\ new.version > 0
          /\ new.ident = h \/ (h \in dbMixed' /\ new.ident \in dbMixed')
          /\ new.updated = TRUE => new.buffer = new.version
          /\ h \notin dbMixed' /\ new.failed = FALSE =>
               /\ new.buffer \in {0, new.version}
               /\ new.updated = FALSE => files'[h] = new.version
               /\ new.entered = TRUE => o \in InFloodfills'
      BY <1>1, <1>5, <1>12, <2>2, <3>1
    <3> QED
      BY <1>18, <2>1, <3>2, RouterRightNew
  <2>4. CASE gone = TRUE
    <3>1. h \notin dbMixed /\ infos[o].failed = FALSE => Doomed(h)'
      <4> SUFFICES ASSUME h \notin dbMixed, infos[o].failed = FALSE
                   PROVE  Doomed(h)'
        OBVIOUS
      <4>1. i = h /\ files[i] # 0
        BY <1>6, <2>2
      <4>2. saving'.deleted > 0
        BY <1>14, <1>15, <2>4, <4>1
      <4>3. infos'[table'[h]].unreachable = TRUE
        BY <1>12, <1>18, <2>1, <2>4
      <4>4. \A k \in DOMAIN saving'.todo : saving'.todo[k] # h
        BY <1>3, <1>15
      <4> QED
        BY <1>15, <4>2, <4>3, <4>4 DEF Doomed
    <3>2. /\ new.ident # 0 /\ new.version > 0
          /\ new.ident = h \/ (h \in dbMixed' /\ new.ident \in dbMixed')
          /\ new.updated = TRUE => new.buffer = new.version
          /\ h \notin dbMixed' /\ new.failed = FALSE => new.buffer \in {0, new.version} /\ Doomed(h)'
      BY <1>1, <1>5, <1>12, <2>2, <3>1
    <3> QED
      BY <1>18, <2>1, <3>2, RouterRightNew
  <2> QED
    BY <1>9, <2>3, <2>4
<1>19. saving'.deleted >= saving.deleted /\ i = infos[o].ident
  BY <1>5, <1>14, <1>15
<1>20. /\ new \in DbRecord /\ new.ident = infos[o].ident /\ new.replaced = infos[o].replaced
       /\ \A j \in DbIdents : j # infos[o].ident => files'[j] = files[j]
       /\ infos'[o] = new => RouterRight(h)'
  BY <1>12, <1>16, <1>18, <1>19
<1>21. TurnOf(h, o, new)
  BY <1>1, <1>2, <1>13, <1>15, <1>16, <1>17, <1>19, <1>20 DEF TurnOf
<1> QED
  BY <1>18, <1>21, TurnKept

LEMMA SaveNextStep == DbInv /\ SaveNext => DbInv'
<1> SUFFICES ASSUME DbInv, SaveNext
             PROVE  DbInv'
  OBVIOUS
<1>1. Head(saving.todo) \in DbIdents /\ table[Head(saving.todo)] # 0
  BY RoundHead DEF SaveNext
<1>2. infos[table[Head(saving.todo)]] \in DbRecord
  BY <1>1 DEF DbInv, DbType
<1>3. \/ infos[table[Head(saving.todo)]].updated = TRUE
      \/ infos[table[Head(saving.todo)]].updated = FALSE
  BY <1>2 DEF DbRecord
<1> QED
  BY <1>3, SaveUpdatedTurn, SaveOtherTurn

LEMMA SaveEndStep == DbInv /\ SaveEnd => DbInv'
<1> SUFFICES ASSUME DbInv, SaveEnd
             PROVE  DbInv'
  OBVIOUS
<1>1. /\ saving.active /\ saving.todo = <<>>
      /\ UNCHANGED <<floodfills, files, dbMixed, dbNow>> /\ saving' = NotSaving
      /\ table' = [i \in DbIdents |-> IF saving.deleted > 0 /\ i \in Unreachables THEN 0 ELSE table[i]]
      /\ infos' = [o \in DbObjects |->
                 IF (\E i \in DbIdents : table'[i] = o) \/ (\E k \in DOMAIN floodfills : floodfills[k] = o)
                 THEN infos[o] ELSE NoInfo]
  BY DEF SaveEnd
<1>2. \A i \in DbIdents : \/ table'[i] = table[i] /\ (table[i] # 0 => ~Doomed(i))
                          \/ table'[i] = 0 /\ infos[table[i]].unreachable = TRUE
  <2> SUFFICES ASSUME NEW i \in DbIdents, table[i] # 0
               PROVE  \/ table'[i] = table[i] /\ ~Doomed(i)
                      \/ table'[i] = 0 /\ infos[table[i]].unreachable = TRUE
    BY <1>1
  <2>1. infos[table[i]] \in DbRecord
    BY DEF DbInv, DbType
  <2>2. infos[table[i]].unreachable = TRUE => infos[table[i]].unreachable
    OBVIOUS
  <2>3. i \in Unreachables => infos[table[i]].unreachable = TRUE
    BY <2>1 DEF Unreachables, DbRecord
  <2>4. Doomed(i) => i \in Unreachables /\ saving.deleted > 0
    BY <2>2 DEF Doomed, Unreachables, Known
  <2>5. CASE saving.deleted > 0 /\ i \in Unreachables
    BY <1>1, <2>3, <2>5
  <2>6. CASE ~(saving.deleted > 0 /\ i \in Unreachables)
    BY <1>1, <2>4, <2>6
  <2> QED
    BY <2>5, <2>6
<1>3. \A i \in DbIdents : table'[i] # 0 => infos'[table[i]] = infos[table[i]] /\ table'[i] = table[i]
  BY <1>1, <1>2 DEF DbInv, DbType
<1>4. InFloodfills' = InFloodfills /\ \A o \in InFloodfills : infos'[o] = infos[o] /\ o \in DbObjects
  <2>1. InFloodfills \subseteq DbObjects
    BY ListedFacts DEF DbInv, DbType
  <2> QED
    BY <1>1, <2>1 DEF InFloodfills
<1>5. DbType'
  <2>1. \A i \in DbIdents : table'[i] \in DbObjects \cup {0}
    BY <1>2 DEF DbInv, DbType
  <2>2. table' \in [DbIdents -> DbObjects \cup {0}]
    BY <1>1, <2>1
  <2>3. infos' \in [DbObjects -> DbRecord]
    BY <1>1, DbFacts DEF DbInv, DbType
  <2> QED
    BY <1>1, <2>2, <2>3, DbFacts DEF DbInv, DbType
<1>6. TodoKnown' /\ Once(saving.todo)' /\ TableOnce'
  <2>1. saving'.todo = <<>>
    BY <1>1 DEF NotSaving
  <2>2. TableOnce'
    BY <1>2 DEF DbInv, TableOnce
  <2> QED
    BY <2>1, <2>2 DEF TodoKnown, Once
<1>7. ListRight'
  <2> SUFFICES ASSUME NEW o \in InFloodfills
               PROVE  /\ infos'[o].ident # 0
                      /\ infos'[o].unreachable = TRUE \/ infos'[o].replaced = TRUE \/ \E j \in DbIdents : table'[j] = o
    BY <1>4 DEF ListRight
  <2>1. infos'[o] = infos[o]
    BY <1>4
  <2>2. /\ infos[o].ident # 0
        /\ infos[o].unreachable = TRUE \/ infos[o].replaced = TRUE \/ \E j \in DbIdents : table[j] = o
    BY DEF DbInv, ListRight
  <2> QED
    BY <1>2, <2>1, <2>2
<1>8. ReplacedMixed'
  <2>1. \A o \in DbObjects : infos'[o] = infos[o] \/ infos'[o] = NoInfo
    BY <1>1
  <2>2. \A o \in DbObjects : infos'[o].replaced = TRUE => infos[o].replaced = TRUE
    BY <2>1, DbFacts
  <2> QED
    BY <1>1, <2>2 DEF DbInv, ReplacedMixed
<1>9. TableRight'
  <2> SUFFICES ASSUME NEW j \in DbIdents, table'[j] # 0
               PROVE  RouterRight(j)'
    BY DEF TableRight
  <2>1. table'[j] = table[j] /\ table[j] # 0 /\ infos'[table[j]] = infos[table[j]] /\ ~Doomed(j)
    BY <1>2, <1>3
  <2>2. RouterRight(j)
    BY <2>1 DEF DbInv, TableRight
  <2> QED
    BY <1>1, <1>4, <2>1, <2>2, RouterKept
<1> QED
  BY <1>5, <1>6, <1>7, <1>8, <1>9 DEF DbInv

(* What Load makes of the files: each router under its own identity, with   *)
(* its file kept, and in the list when it says so.                          *)
LoadedRight(I, T, F, L) ==
  /\ I \in [DbObjects -> DbRecord] /\ T \in [DbIdents -> DbObjects \cup {0}]
  /\ F \in Seq(DbObjects) /\ L \in [DbIdents -> Int]
  /\ \A o \in DbObjects : I[o].replaced = FALSE
  /\ \A i \in DbIdents : T[i] # 0 =>
       /\ T[i] = i /\ I[i].ident = i /\ I[i].version > 0 /\ I[i].buffer = 0 /\ I[i].updated = FALSE
       /\ L[i] = I[i].version
       /\ I[i].entered = TRUE => \E k \in DOMAIN F : F[k] = i
  /\ \A k \in DOMAIN F : F[k] \in DbIdents /\ I[F[k]].ident # 0 /\ T[F[k]] = F[k]

LEMMA LoadedFacts ==
  ASSUME NEW f \in [DbIdents -> Int], NEW torn,
         NEW I, I = LoadedInfos(f), NEW T, T = LoadedTable(f),
         NEW F, F = LoadedFloodfills(f), NEW L, L = LeftFiles(f, torn)
  PROVE  LoadedRight(I, T, F, L)
<1>1. Taken(f) \subseteq DbIdents /\ \A i \in Taken(f) : f[i] \in Nat /\ f[i] > 0
  BY DEF Taken
<1>2. PICK S : S = FloodfillsTaken(f)
  OBVIOUS
<1>3. S \subseteq Taken(f)
  BY <1>2 DEF FloodfillsTaken
<1>4. PICK none : none = NoInfo
  OBVIOUS
<1>5. none \in DbRecord /\ none.replaced = FALSE /\ none.buffer = 0 /\ none.updated = FALSE
  BY <1>4, DbFacts DEF NoInfo
<1>6. \A o \in Taken(f) :
        /\ I[o] \in DbRecord /\ I[o].ident = o /\ I[o].version = f[o] /\ I[o].buffer = 0 /\ I[o].updated = FALSE
        /\ I[o].entered = (o \in S) /\ I[o].replaced = FALSE
  <2> SUFFICES ASSUME NEW o \in Taken(f)
               PROVE  /\ I[o] \in DbRecord /\ I[o].ident = o /\ I[o].version = f[o] /\ I[o].buffer = 0 /\ I[o].updated = FALSE
                      /\ I[o].entered = (o \in S) /\ I[o].replaced = FALSE
    OBVIOUS
  <2>1. o \in DbIdents /\ o \in DbObjects
    BY <1>1, DbFacts
  <2>2. PICK v, e : v = f[o] /\ e = (o \in S)
    OBVIOUS
  <2>3. e \in BOOLEAN
    BY <2>2
  <2>4. I[o] = [none EXCEPT !.ident = o, !.version = v, !.unreachable = FALSE, !.entered = e]
    BY <1>2, <1>4, <2>1, <2>2, Zenon DEF LoadedInfos
  <2>5. PICK a : a = [none EXCEPT !.ident = o]
    OBVIOUS
  <2>6. PICK b : b = [a EXCEPT !.version = v]
    OBVIOUS
  <2>7. PICK c : c = [b EXCEPT !.unreachable = FALSE]
    OBVIOUS
  <2>8. PICK d : d = [c EXCEPT !.entered = e]
    OBVIOUS
  <2>9. a \in DbRecord /\ a.ident = o /\ a.buffer = 0 /\ a.updated = FALSE /\ a.replaced = FALSE
    BY <1>5, <2>1, <2>5 DEF DbRecord
  <2>10. b \in DbRecord /\ b.ident = o /\ b.version = v /\ b.buffer = 0 /\ b.updated = FALSE /\ b.replaced = FALSE
    BY <1>1, <2>2, <2>6, <2>9 DEF DbRecord
  <2>11. c \in DbRecord /\ c.ident = o /\ c.version = v /\ c.buffer = 0 /\ c.updated = FALSE /\ c.replaced = FALSE
    BY <2>7, <2>10 DEF DbRecord
  <2>12. /\ d \in DbRecord /\ d.ident = o /\ d.version = v /\ d.buffer = 0 /\ d.updated = FALSE /\ d.replaced = FALSE
         /\ d.entered = e
    BY <2>3, <2>8, <2>11 DEF DbRecord
  <2>13. I[o] = d
    BY <2>4, <2>5, <2>6, <2>7, <2>8
  <2> QED
    BY <2>2, <2>12, <2>13, Zenon
<1>7. \A o \in DbObjects : o \notin Taken(f) => I[o] = none
  BY <1>4 DEF LoadedInfos
<1>8. I \in [DbObjects -> DbRecord] /\ \A o \in DbObjects : I[o].replaced = FALSE
  <2>1. \A o \in DbObjects : I[o] \in DbRecord /\ I[o].replaced = FALSE
    BY <1>5, <1>6, <1>7
  <2>2. DOMAIN I = DbObjects /\ I = [o \in DbObjects |-> I[o]]
    BY DEF LoadedInfos
  <2> QED
    BY <2>1, <2>2
<1>9. T \in [DbIdents -> DbObjects \cup {0}]
  BY DbFacts DEF LoadedTable
<1>10. \A i \in DbIdents : T[i] = IF i \in Taken(f) THEN i ELSE 0
  BY DEF LoadedTable
<1>11. L \in [DbIdents -> Int] /\ \A i \in Taken(f) : L[i] = f[i]
  BY <1>1 DEF LeftFiles
<1>12. F \in Seq(DbIdents \cap S) /\ Members(F) = DbIdents \cap S
  BY <1>2, InOrderFacts, InOrderMembers DEF LoadedFloodfills
<1>13. F \in Seq(DbObjects) /\ DOMAIN F = 1 .. Len(F) /\ \A k \in DOMAIN F : F[k] \in DbIdents \cap S
  <2>1. F \in Seq(DbObjects)
    BY <1>12, DbFacts
  <2>2. DOMAIN F = 1 .. Len(F)
    BY <2>1
  <2>3. \A k \in DOMAIN F : F[k] \in Members(F)
    BY <2>2 DEF Members
  <2> QED
    BY <1>12, <2>1, <2>2, <2>3
<1>14. \A i \in DbIdents : T[i] # 0 =>
         /\ T[i] = i /\ I[i].ident = i /\ I[i].version > 0 /\ I[i].buffer = 0 /\ I[i].updated = FALSE
         /\ L[i] = I[i].version
         /\ I[i].entered = TRUE => \E k \in DOMAIN F : F[k] = i
  <2> SUFFICES ASSUME NEW i \in DbIdents, T[i] # 0
               PROVE  /\ T[i] = i /\ I[i].ident = i /\ I[i].version > 0 /\ I[i].buffer = 0 /\ I[i].updated = FALSE
                      /\ L[i] = I[i].version
                      /\ I[i].entered = TRUE => \E k \in DOMAIN F : F[k] = i
    OBVIOUS
  <2>1. i \in Taken(f) /\ T[i] = i
    BY <1>10
  <2>2. I[i].entered = TRUE => i \in Members(F)
    BY <1>6, <1>12, <2>1
  <2>3. I[i].entered = TRUE => \E k \in DOMAIN F : F[k] = i
    BY <1>13, <2>2 DEF Members
  <2> QED
    BY <1>1, <1>6, <1>11, <2>1, <2>3
<1>15. \A k \in DOMAIN F : F[k] \in DbIdents /\ I[F[k]].ident # 0 /\ T[F[k]] = F[k]
  <2> SUFFICES ASSUME NEW i \in DbIdents \cap S
               PROVE  i \in DbIdents /\ I[i].ident # 0 /\ T[i] = i
    BY <1>13
  <2>1. i \in Taken(f) /\ i # 0
    BY <1>3, DbFacts
  <2> QED
    BY <1>6, <1>10, <2>1
<1> QED
  BY <1>8, <1>9, <1>11, <1>13, <1>14, <1>15 DEF LoadedRight

(* What the files give is right.                                            *)
DbLoaded ==
  LoadedRight(infos, table, floodfills, files) /\ saving = NotSaving /\ dbMixed = {} /\ dbNow \in Nat

LEMMA LoadedInv == DbLoaded => DbInv
<1> SUFFICES ASSUME DbLoaded
             PROVE  DbInv
  OBVIOUS
<1>0. /\ LoadedRight(infos, table, floodfills, files) /\ saving = NotSaving /\ dbMixed = {} /\ dbNow \in Nat
  BY DEF DbLoaded
<1>1. DbType
  BY <1>0, DbFacts DEF DbType, LoadedRight
<1>2. saving.todo = <<>>
  BY <1>0 DEF NotSaving
<1>3. TodoKnown /\ Once(saving.todo) /\ TableOnce /\ ReplacedMixed
  BY <1>0, <1>2 DEF TodoKnown, Once, TableOnce, ReplacedMixed, LoadedRight
<1>4. ListRight
  BY <1>0 DEF ListRight, InFloodfills, LoadedRight
<1>5. TableRight
  <2> SUFFICES ASSUME NEW i \in DbIdents, table[i] # 0
               PROVE  RouterRight(i)
    BY DEF TableRight
  <2>1. /\ table[i] = i /\ i # 0 /\ infos[i].ident = i /\ infos[i].version > 0 /\ infos[i].buffer = 0
        /\ infos[i].updated = FALSE /\ files[i] = infos[i].version
        /\ infos[i].entered = TRUE => i \in InFloodfills
    BY <1>0, DbFacts DEF InFloodfills, LoadedRight
  <2>2. infos[i].updated # TRUE
    BY <2>1
  <2> QED
    BY <2>1, <2>2 DEF RouterRight
<1> QED
  BY <1>1, <1>3, <1>4, <1>5 DEF DbInv

LEMMA LoadedInvNext == DbLoaded' => DbInv'
BY LoadedInv, PTL

LEMMA RestartStep == DbInv /\ Restart => DbInv'
<1> SUFFICES ASSUME DbInv, Restart
             PROVE  DbInv'
  OBVIOUS
<1>1. PICK torn : /\ infos' = LoadedInfos(files) /\ table' = LoadedTable(files)
                  /\ floodfills' = LoadedFloodfills(files) /\ files' = LeftFiles(files, torn)
                  /\ saving' = NotSaving /\ dbMixed' = {} /\ dbNow' = dbNow
  BY DEF Restart
<1>2. files \in [DbIdents -> Int] /\ dbNow \in Nat
  BY DEF DbInv, DbType
<1>3. LoadedRight(infos', table', floodfills', files')
  BY <1>1, <1>2, LoadedFacts
<1>4. DbLoaded'
  BY <1>1, <1>2, <1>3 DEF DbLoaded
<1> QED
  BY <1>4, LoadedInvNext

LEMMA DbInitInv == DbInit => DbInv
<1> SUFFICES ASSUME DbInit
             PROVE  DbInv
  OBVIOUS
<1>1. PICK left : LET f == [i \in DbIdents |-> IF i \in left THEN 1 ELSE 0] IN
                  /\ infos = LoadedInfos(f) /\ table = LoadedTable(f)
                  /\ floodfills = LoadedFloodfills(f) /\ files = LeftFiles(f, {})
  BY DEF DbInit
<1>2. PICK f : f = [i \in DbIdents |-> IF i \in left THEN 1 ELSE 0]
  OBVIOUS
<1>3. f \in [DbIdents -> Int]
  BY <1>2
<1>4. /\ infos = LoadedInfos(f) /\ table = LoadedTable(f)
      /\ floodfills = LoadedFloodfills(f) /\ files = LeftFiles(f, {})
  BY <1>1, <1>2
<1>5. saving = NotSaving /\ dbNow \in Nat /\ dbMixed = {}
  BY DEF DbInit
<1>6. LoadedRight(infos, table, floodfills, files)
  BY <1>3, <1>4, LoadedFacts
<1>7. DbLoaded
  BY <1>5, <1>6 DEF DbLoaded
<1> QED
  BY <1>7, LoadedInv

(* What leaves the tables, the files and the round alone keeps it.          *)
LEMMA DbSame ==
  ASSUME DbInv, UNCHANGED <<infos, table, floodfills, files, saving, dbMixed>>, dbNow' \in Nat
  PROVE  DbInv'
BY DEF DbInv, DbType, TodoKnown, Once, TableOnce, ListRight, ReplacedMixed, TableRight, RouterRight, Doomed, InFloodfills

LEMMA DbStep == DbInv /\ [DbNext]_dbVars => DbInv'
<1> SUFFICES ASSUME DbInv, [DbNext]_dbVars
             PROVE  DbInv'
  OBVIOUS
<1>1. ASSUME NEW m \in DbStores, StoreRouterInfo(m)
      PROVE  DbInv'
  <2>1. table[m.key] = 0 \/ table[m.key] # 0
    OBVIOUS
  <2> QED
    BY <1>1, <2>1, StoreKnownStep, StoreNewStep
<1>2. dbNow \in Nat
  BY DEF DbInv, DbType
<1>3. ASSUME NEW d, NEW ends, NEW direct, StoreLeaseSet(d, ends, direct)
      PROVE  DbInv'
  <2>1. UNCHANGED <<infos, table, floodfills, files, saving, dbMixed>> /\ dbNow' = dbNow
    BY <1>3 DEF StoreLeaseSet
  <2> QED
    BY <1>2, <2>1, DbSame
<1>4. ASSUME NEW i \in DbIdents, LookupRouter(i) \/ SetUnreachable(i)
      PROVE  DbInv'
  BY <1>4, LookupRouterStep, SetUnreachableStep
<1>5. CASE DbTick
  <2>1. UNCHANGED <<infos, table, floodfills, files, saving, dbMixed>> /\ dbNow' \in Nat
    BY <1>2, <1>5 DEF DbTick
  <2> QED
    BY <2>1, DbSame
<1>6. CASE UNCHANGED dbVars
  <2>1. UNCHANGED <<infos, table, floodfills, files, saving, dbMixed>> /\ dbNow' = dbNow
    BY <1>6 DEF dbVars
  <2> QED
    BY <1>2, <2>1, DbSame
<1> QED
  BY <1>1, <1>3, <1>4, <1>5, <1>6, SaveBeginStep, SaveNextStep, SaveEndStep, RestartStep DEF DbNext

LEMMA SpecDbInv == DbSpec => []DbInv
<1> QED
  BY DbInitInv, DbStep, PTL DEF DbSpec

(* A router whose saves succeeded, and whose identity no store mixed with   *)
(* another key, is on disk as it is in memory once it is neither            *)
(* unreachable nor waiting to be saved, and what a lookup reads is that     *)
(* version, after any stores, lookups, rounds of SaveUpdated, failures to   *)
(* connect and crashes (FileKept).                                          *)
THEOREM SpecFileKept == DbSpec => []FileKept
<1>1. DbInv => FileKept
  <2> SUFFICES ASSUME DbInv, NEW i \in Known \ dbMixed, ~infos[table[i]].failed
               PROVE  /\ ~infos[table[i]].updated /\ ~infos[table[i]].unreachable => files[i] = infos[table[i]].version
                      /\ infos[table[i]].buffer \in {0, infos[table[i]].version}
    BY DEF FileKept
  <2>1. i \in DbIdents /\ table[i] # 0 /\ i \notin dbMixed
    BY DEF Known
  <2>2. infos[table[i]] \in DbRecord /\ RouterRight(i)
    BY <2>1 DEF DbInv, DbType, TableRight
  <2>3. infos[table[i]].failed = FALSE
    BY <2>2 DEF DbRecord
  <2>4. ~infos[table[i]].updated => infos[table[i]].updated = FALSE
    BY <2>2 DEF DbRecord
  <2>5. Doomed(i) => infos[table[i]].unreachable
    BY DEF Doomed
  <2> QED
    BY <2>1, <2>2, <2>3, <2>4, <2>5 DEF RouterRight
<1> QED
  BY <1>1, SpecDbInv, PTL

(* A floodfill that could be chosen is one the table knows, unless a store  *)
(* under another key took its entry, whatever left the table before it; and *)
(* between two rounds a router that came as a floodfill and was not lost by *)
(* a save is still in the list (FloodfillKnown).                            *)
THEOREM SpecFloodfillKnown == DbSpec => []FloodfillKnown
<1>1. DbInv => FloodfillKnown
  <2> SUFFICES ASSUME DbInv
               PROVE  /\ \A o \in InFloodfills :
                           infos[o].unreachable \/ infos[o].replaced \/ \E i \in DbIdents : table[i] = o
                      /\ ~saving.active =>
                           \A i \in Known \ dbMixed : infos[table[i]].entered /\ ~infos[table[i]].failed
                              => table[i] \in InFloodfills
    BY DEF FloodfillKnown, InFloodfills
  <2>1. ASSUME NEW o \in InFloodfills
        PROVE  infos[o].unreachable \/ infos[o].replaced \/ \E i \in DbIdents : table[i] = o
    <3>1. infos[o].unreachable = TRUE \/ infos[o].replaced = TRUE \/ \E i \in DbIdents : table[i] = o
      BY DEF DbInv, ListRight
    <3> QED
      BY <3>1
  <2>2. ASSUME ~saving.active, NEW i \in Known \ dbMixed, infos[table[i]].entered, ~infos[table[i]].failed
        PROVE  table[i] \in InFloodfills
    <3>1. i \in DbIdents /\ table[i] # 0 /\ i \notin dbMixed
      BY DEF Known
    <3>2. infos[table[i]] \in DbRecord /\ RouterRight(i)
      BY <3>1 DEF DbInv, DbType, TableRight
    <3>3. infos[table[i]].failed = FALSE /\ infos[table[i]].entered = TRUE
      BY <2>2, <3>2 DEF DbRecord
    <3>4. ~Doomed(i)
      BY <2>2, NotDoomed DEF DbInv
    <3> QED
      BY <3>1, <3>2, <3>3, <3>4 DEF RouterRight
  <2> QED
    BY <2>1, <2>2
<1> QED
  BY <1>1, SpecDbInv, PTL

-----------------------------------------------------------------------------
(* NetDb: choice by distance. The insertions of GetClosestFloodfills keep   *)
(* the nearest of the floodfills seen so far, in order; those with fewer    *)
(* than n nearer ones are the n nearest.                                    *)

(* No object is listed twice as a floodfill.                                *)
ListOnce == Once(floodfills)

(* The objects of the list.                                                 *)
LEMMA ListedMembers ==
  ASSUME DbInv
  PROVE  Members(floodfills) = InFloodfills
<1>1. floodfills \in Seq(DbObjects)
  BY DEF DbInv, DbType
<1>2. DOMAIN floodfills = 1..Len(floodfills)
  BY <1>1
<1> QED
  BY <1>2 DEF Members, InFloodfills

(* A new object is not listed, a round of SaveUpdated only takes objects    *)
(* from the list, and Load makes it anew.                                   *)
LEMMA ListOnceKept ==
  ASSUME DbInv, ListOnce, [DbNext]_dbVars
  PROVE  ListOnce'
<1>1. CASE floodfills' = floodfills
  BY <1>1 DEF ListOnce, Once
<1>2. ASSUME NEW S, floodfills' = Only(floodfills, S)
      PROVE  ListOnce'
  <2>1. floodfills \in Seq(DbObjects)
    BY DEF DbInv, DbType
  <2> QED
    BY <1>2, <2>1, OnlyMembers DEF ListOnce
<1>3. ASSUME NEW m \in DbStores, StoreRouterInfo(m)
      PROVE  ListOnce'
  <2>1. CASE floodfills' = Append(floodfills, DbFresh) /\ \E o \in DbObjects : infos[o] = NoInfo
    <3>1. DbFresh \in DbObjects /\ infos[DbFresh] = NoInfo
      BY <2>1 DEF DbFresh
    <3>2. DbFresh \notin InFloodfills
      BY <3>1, DbFacts DEF DbInv, ListRight
    <3>3. floodfills \in Seq(DbObjects)
      BY DEF DbInv, DbType
    <3> QED
      BY <2>1, <3>1, <3>2, <3>3, ListedMembers, MembersAppend DEF ListOnce
  <2> QED
    BY <1>1, <1>3, <2>1 DEF StoreRouterInfo
<1>4. CASE SaveNext
  <2>1. floodfills' = floodfills \/ \E S : floodfills' = Only(floodfills, S)
    BY <1>4 DEF SaveNext
  <2> QED
    BY <1>1, <1>2, <2>1
<1>5. CASE Restart
  BY <1>5, InOrderMembers DEF Restart, LoadedFloodfills, ListOnce
<1>6. ASSUME NEW d \in DbDestinations, NEW ends \in {0, dbNow + 1}, NEW direct \in BOOLEAN,
             StoreLeaseSet(d, ends, direct)
      PROVE  ListOnce'
  BY <1>1, <1>6 DEF StoreLeaseSet
<1>7. ASSUME NEW i \in DbIdents, LookupRouter(i) \/ SetUnreachable(i)
      PROVE  ListOnce'
  BY <1>1, <1>7 DEF LookupRouter, SetUnreachable
<1>8. CASE SaveBegin \/ SaveEnd \/ DbTick \/ UNCHANGED dbVars
  BY <1>1, <1>8 DEF SaveBegin, SaveEnd, DbTick, dbVars
<1> QED
  BY <1>3, <1>4, <1>5, <1>6, <1>7, <1>8 DEF DbNext

-----------------------------------------------------------------------------
(* Objects by distance.                                                     *)
Dist(o) == DbDistance[infos[o].ident]
Far(Q) ==
  /\ \A o \in Q : Dist(o) \in Nat
  /\ \A o, p \in Q : Dist(o) = Dist(p) => o = p
Sorted(s) == \A j, k \in 1..Len(s) : j < k => Dist(s[j]) < Dist(s[k])

(* s has the n nearest of Q in order, or all when there are no more.        *)
BestOf(s, Q, n) ==
  /\ s \in Seq(Q) /\ Sorted(s) /\ Len(s) <= n
  /\ \A q \in Q : \/ q \in Members(s)
                  \/ Len(s) = n /\ \A k \in 1..Len(s) : Dist(s[k]) < Dist(q)

(* Where an object goes in a sorted sequence.                               *)
LEMMA PlaceExists ==
  ASSUME NEW Q, NEW s \in Seq(Q), Sorted(s), NEW o, Far(Q \cup {o})
  PROVE  \E n \in 0..Len(s) : \A k \in DOMAIN s : k <= n <=> Dist(s[k]) < Dist(o)
<1>1. PICK m \in Nat : m = Len(s)
  OBVIOUS
<1>2. PICK d : d = [k \in 1..m |-> Dist(s[k])]
  OBVIOUS
<1>3. /\ \A k \in 1..m : d[k] \in Nat
      /\ \A j, k \in 1..m : j < k => d[j] < d[k]
  BY <1>1, <1>2 DEF Far, Sorted
<1>4. PICK e \in Nat : e = Dist(o)
  BY DEF Far
<1> DEFINE Split(n) == \E i \in 0..n : \A k \in 1..n : k <= i <=> d[k] < e
           M == {n \in Nat : n <= m => Split(n)}
<1>5. 0 \in M
  <2>1. 0 \in 0..0 /\ \A k \in 1..0 : k <= 0 <=> d[k] < e
    OBVIOUS
  <2> QED
    BY <2>1
<1>6. \A n \in Nat : n \in M => n + 1 \in M
  <2> HIDE DEF Split
  <2> SUFFICES ASSUME NEW n \in Nat, n \in M, n + 1 <= m
               PROVE  Split(n + 1)
    OBVIOUS
  <2>0. Split(n)
    OBVIOUS
  <2> USE DEF Split
  <2> HIDE DEF M
  <2>1. PICK i \in 0..n : \A k \in 1..n : k <= i <=> d[k] < e
    BY <2>0
  <2>2. CASE d[n + 1] < e
    <3>1. \A k \in 1..n + 1 : d[k] < e
      <4>1. \A k \in 1..n : d[k] < d[n + 1] /\ d[k] \in Nat /\ d[n + 1] \in Nat
        BY <1>3
      <4> QED
        BY <2>2, <4>1
    <3>2. \A k \in 1..n + 1 : k <= n + 1 <=> d[k] < e
      BY <3>1
    <3> QED
      BY <3>2
  <2>3. CASE ~(d[n + 1] < e)
    <3>1. i \in 0..n + 1 /\ ~(n + 1 <= i)
      OBVIOUS
    <3>2. \A k \in 1..n + 1 : k \in 1..n \/ k = n + 1
      OBVIOUS
    <3>3. \A k \in 1..n + 1 : k <= i <=> d[k] < e
      BY <2>1, <2>3, <3>1, <3>2
    <3> QED
      BY <3>1, <3>3
  <2> QED
    BY <2>2, <2>3
<1> HIDE DEF M, Split
<1>7. m \in M
  BY <1>5, <1>6, NatSetInduction
<1>8. \E i \in 0..m : \A k \in 1..m : k <= i <=> d[k] < e
  <2>1. Split(m)
    BY <1>7 DEF M
  <2> QED
    BY <2>1 DEF Split
<1> QED
  BY <1>1, <1>2, <1>4, <1>8

(* r is s with o after the first n.                                         *)
Placed(s, o, r, n) ==
  /\ r[n + 1] = o
  /\ \A k \in 1..Len(s) : IF k <= n THEN r[k] = s[k] /\ Dist(s[k]) < Dist(o)
                          ELSE r[k + 1] = s[k] /\ Dist(o) < Dist(s[k])

(* std::set::insert.                                                        *)
LEMMA InsertedFacts ==
  ASSUME NEW Q, NEW s \in Seq(Q), Sorted(s), NEW o, o \notin Q, Far(Q \cup {o}),
         NEW r, r = Inserted(s, o)
  PROVE  /\ r \in Seq(Q \cup {o}) /\ Len(r) = Len(s) + 1 /\ Sorted(r)
         /\ \E n \in 0..Len(s) : Placed(s, o, r, n)
<1>1. PICK m \in Nat : m = Len(s)
  OBVIOUS
<1>2. \A k \in 1..m : s[k] \in Q /\ s[k] # o /\ Dist(s[k]) \in Nat /\ Dist(s[k]) # Dist(o)
  BY <1>1 DEF Far
<1>3. Dist(o) \in Nat
  BY DEF Far
<1>4. PICK n \in 0..m :
        /\ \A k \in 1..m : k <= n <=> Dist(s[k]) < Dist(o)
        /\ r = [k \in 1..m + 1 |-> IF k <= n THEN s[k] ELSE IF k = n + 1 THEN o ELSE s[k - 1]]
  <2>1. ~\E k \in DOMAIN s : DbDistance[infos[s[k]].ident] = DbDistance[infos[o].ident]
    BY <1>1, <1>2 DEF Dist
  <2>2. PICK n : n = CHOOSE c \in 0..Len(s) :
                       \A k \in DOMAIN s : k <= c <=> DbDistance[infos[s[k]].ident] < DbDistance[infos[o].ident]
    OBVIOUS
  <2>3. n \in 0..Len(s) /\ \A k \in DOMAIN s : k <= n <=> Dist(s[k]) < Dist(o)
    BY <2>2, PlaceExists DEF Dist
  <2>4. r = [k \in 1..Len(s) + 1 |-> IF k <= n THEN s[k] ELSE IF k = n + 1 THEN o ELSE s[k - 1]]
    BY <2>1, <2>2 DEF Inserted
  <2>5. DOMAIN s = 1..m
    BY <1>1
  <2>6. n \in 0..m /\ \A k \in 1..m : k <= n <=> Dist(s[k]) < Dist(o)
    BY <1>1, <2>3, <2>5
  <2>7. r = [k \in 1..m + 1 |-> IF k <= n THEN s[k] ELSE IF k = n + 1 THEN o ELSE s[k - 1]]
    BY <1>1, <2>4
  <2> QED
    BY <2>6, <2>7
<1>5. /\ \A k \in 1..n : r[k] = s[k]
      /\ r[n + 1] = o
      /\ \A k \in n + 1..m : r[k + 1] = s[k]
  BY <1>4
<1>6. r \in Seq(Q \cup {o}) /\ Len(r) = m + 1
  <2>1. ASSUME NEW k \in 1..m + 1
        PROVE  r[k] \in Q \cup {o}
    <3>1. CASE k <= n
      BY <1>2, <1>5, <3>1
    <3>2. CASE k = n + 1
      BY <1>5, <3>2
    <3>3. CASE k > n + 1
      <4>1. PICK j : j = k - 1
        OBVIOUS
      <4>2. j \in n + 1..m /\ j \in 1..m /\ j + 1 = k
        BY <3>3, <4>1
      <4>3. r[j + 1] = s[j]
        BY <1>5, <4>2
      <4>4. s[j] \in Q
        BY <1>2, <4>2
      <4> QED
        BY <4>2, <4>3, <4>4
    <3> QED
      BY <3>1, <3>2, <3>3
  <2> QED
    BY <1>4, <2>1
<1>7. Sorted(r)
  <2>1. ASSUME NEW j \in 1..m + 1, NEW k \in 1..m + 1, j < k
        PROVE  Dist(r[j]) < Dist(r[k])
    <3>0. \A x, y \in 1..m : x < y => Dist(s[x]) < Dist(s[y])
      BY <1>1 DEF Sorted
    <3>1. CASE k <= n
      BY <1>5, <2>1, <3>0, <3>1
    <3>2. CASE k = n + 1
      <4>1. j \in 1..n /\ r[k] = o /\ r[j] = s[j]
        BY <1>5, <2>1, <3>2
      <4> QED
        BY <1>4, <4>1
    <3>3. CASE k > n + 1
      <4>1. PICK y \in n + 1..m : y + 1 = k
        <5>1. k - 1 \in n + 1..m /\ (k - 1) + 1 = k
          BY <3>3
        <5> QED
          BY <5>1
      <4>2. r[k] = s[y] /\ y \in 1..m /\ Dist(o) < Dist(s[y])
        <5>1. y \in 1..m /\ ~(y <= n) /\ r[y + 1] = s[y]
          BY <1>5, <4>1
        <5>2. ~(Dist(s[y]) < Dist(o))
          BY <1>4, <5>1
        <5> QED
          BY <1>2, <1>3, <4>1, <5>1, <5>2
      <4>3. CASE j <= n
        <5>1. r[j] = s[j] /\ j \in 1..m /\ j < y
          BY <1>5, <4>1, <4>3
        <5> QED
          BY <3>0, <4>2, <5>1
      <4>4. CASE j = n + 1
        BY <1>5, <4>2, <4>4
      <4>5. CASE j > n + 1
        <5>1. PICK x \in n + 1..m : x + 1 = j
          <6>1. j - 1 \in n + 1..m /\ (j - 1) + 1 = j
            BY <2>1, <4>5
          <6> QED
            BY <6>1
        <5>2. r[j] = s[x] /\ x \in 1..m /\ x < y
          BY <1>5, <2>1, <4>1, <5>1
        <5> QED
          BY <3>0, <4>2, <5>2
      <4> QED
        BY <4>3, <4>4, <4>5
    <3> QED
      BY <3>1, <3>2, <3>3
  <2> QED
    BY <1>6, <2>1 DEF Sorted
<1>8. \A k \in 1..m : IF k <= n THEN r[k] = s[k] /\ Dist(s[k]) < Dist(o)
                      ELSE r[k + 1] = s[k] /\ Dist(o) < Dist(s[k])
  <2> SUFFICES ASSUME NEW k \in 1..m
               PROVE  IF k <= n THEN r[k] = s[k] /\ Dist(s[k]) < Dist(o)
                      ELSE r[k + 1] = s[k] /\ Dist(o) < Dist(s[k])
    OBVIOUS
  <2>1. k <= n <=> Dist(s[k]) < Dist(o)
    BY <1>4
  <2>2. Dist(s[k]) \in Nat /\ Dist(s[k]) # Dist(o)
    BY <1>2
  <2> QED
    BY <1>3, <1>5, <2>1, <2>2
<1>9. Placed(s, o, r, n)
  BY <1>1, <1>5, <1>8 DEF Placed
<1> QED
  BY <1>1, <1>6, <1>7, <1>9

(* Another object is tried: it enters while there is room, or when it is    *)
(* nearer than the farthest, which leaves.                                  *)
LEMMA SortedWithBest ==
  ASSUME NEW Q, NEW s, BestOf(s, Q, DbNumClosest), NEW o, o \notin Q, Far(Q \cup {o})
  PROVE  BestOf(SortedWith(s, o), Q \cup {o}, DbNumClosest)
<1>1. PICK m \in Nat, N \in Nat \ {0} : m = Len(s) /\ N = DbNumClosest
  BY DbAssumption DEF BestOf
<1>2. /\ s \in Seq(Q) /\ Sorted(s) /\ m <= N
      /\ \A q \in Q : \/ \E k \in 1..m : q = s[k]
                      \/ m = N /\ \A k \in 1..m : Dist(s[k]) < Dist(q)
  BY <1>1 DEF BestOf, Members
<1>3. PICK r : r = Inserted(s, o)
  OBVIOUS
<1>4. r \in Seq(Q \cup {o}) /\ Len(r) = m + 1 /\ Sorted(r)
  BY <1>1, <1>2, <1>3, InsertedFacts
<1>5. PICK n \in 0..m :
              /\ r[n + 1] = o
              /\ \A k \in 1..m : IF k <= n THEN r[k] = s[k] /\ Dist(s[k]) < Dist(o)
                                 ELSE r[k + 1] = s[k] /\ Dist(o) < Dist(s[k])
  <2>1. \E n \in 0..Len(s) : Placed(s, o, r, n)
    BY <1>2, <1>3, InsertedFacts
  <2> QED
    BY <1>1, <2>1 DEF Placed
<1>6. \A q \in Q \cup {o} : Dist(q) \in Nat
  BY DEF Far
<1>7. \A k \in 1..m : s[k] \in Q
  BY <1>1, <1>2
<1>8. \A j, k \in 1..m : j < k => Dist(s[j]) < Dist(s[k])
  BY <1>1, <1>2 DEF Sorted
<1>9. CASE m < N
  <2>1. SortedWith(s, o) = r
    BY <1>1, <1>3, <1>9 DEF SortedWith
  <2>2. ASSUME NEW q \in Q \cup {o}
        PROVE  \E k \in 1..m + 1 : q = r[k]
    <3>1. CASE q = o
      BY <1>5, <3>1
    <3>2. CASE q \in Q
      <4>1. PICK k \in 1..m : q = s[k]
        BY <1>2, <1>9, <3>2
      <4> QED
        BY <1>5, <4>1
    <3> QED
      BY <3>1, <3>2
  <2>3. m + 1 <= N
    BY <1>9
  <2> QED
    BY <1>1, <1>4, <2>1, <2>2, <2>3 DEF BestOf, Members
<1>10. CASE m = N /\ Dist(o) < Dist(s[m])
  <2>1. n < m /\ r[m + 1] = s[m] /\ m \in 1..m
    <3>1. m \in 1..m /\ s[m] \in Q
      BY <1>7, <1>10
    <3>2. ~(Dist(s[m]) < Dist(o))
      BY <1>6, <1>10, <3>1
    <3> QED
      BY <1>5, <3>1, <3>2
  <2>2. PICK t : t = SubSeq(r, 1, m)
    OBVIOUS
  <2>3. t \in Seq(Q \cup {o}) /\ Len(t) = m /\ \A k \in 1..m : t[k] = r[k]
    BY <1>4, <2>2
  <2>4. SortedWith(s, o) = t
    <3>1. Len(r) - 1 = m
      BY <1>4
    <3>2. ~(Len(s) < DbNumClosest) /\ DbDistance[infos[o].ident] < DbDistance[infos[s[Len(s)]].ident]
      BY <1>1, <1>10 DEF Dist
    <3> QED
      BY <1>3, <2>2, <3>1, <3>2 DEF SortedWith
  <2>5. Sorted(t)
    <3>1. \A j, k \in 1..m + 1 : j < k => Dist(r[j]) < Dist(r[k])
      BY <1>4 DEF Sorted
    <3>2. \A k \in 1..m : k \in 1..m + 1
      OBVIOUS
    <3> QED
      BY <2>3, <3>1, <3>2 DEF Sorted
  <2>6. ASSUME NEW k \in 1..m
        PROVE  Dist(t[k]) < Dist(s[m])
    <3>1. \A i, j \in 1..m + 1 : i < j => Dist(r[i]) < Dist(r[j])
      BY <1>4 DEF Sorted
    <3>2. k \in 1..m + 1 /\ m + 1 \in 1..m + 1 /\ k < m + 1
      OBVIOUS
    <3> QED
      BY <2>1, <2>3, <3>1, <3>2
  <2>7. ASSUME NEW q \in Q \cup {o}
        PROVE  (\E k \in 1..m : q = t[k]) \/ \A k \in 1..m : Dist(t[k]) < Dist(q)
    <3>1. CASE q = o
      <4>1. n + 1 \in 1..m
        BY <2>1
      <4> QED
        BY <1>5, <2>3, <3>1, <4>1
    <3>2. CASE q \in Q /\ \E k \in 1..m : q = s[k]
      <4>1. PICK k \in 1..m : q = s[k]
        BY <3>2
      <4>2. CASE k = m
        BY <2>6, <4>1, <4>2
      <4>3. CASE k # m
        <5>1. k + 1 \in 1..m
          BY <4>3
        <5>2. r[k] = s[k] \/ r[k + 1] = s[k]
          BY <1>5
        <5> QED
          BY <2>3, <4>1, <5>1, <5>2
      <4> QED
        BY <4>2, <4>3
    <3>3. CASE q \in Q /\ \A k \in 1..m : Dist(s[k]) < Dist(q)
      <4>1. ASSUME NEW k \in 1..m
            PROVE  Dist(t[k]) < Dist(q)
        <5>1. Dist(t[k]) < Dist(s[m]) /\ Dist(s[m]) < Dist(q)
          BY <2>1, <2>6, <3>3
        <5>2. t[k] \in Q \cup {o} /\ s[m] \in Q \cup {o}
          BY <1>7, <2>1, <2>3
        <5> QED
          BY <1>6, <5>1, <5>2
      <4> QED
        BY <4>1
    <3> QED
      BY <1>2, <3>1, <3>2, <3>3
  <2> QED
    BY <1>1, <1>10, <2>3, <2>4, <2>5, <2>7 DEF BestOf, Members
<1>11. CASE m = N /\ ~(Dist(o) < Dist(s[m]))
  <2>1. SortedWith(s, o) = s
    <3>1. ~(Len(s) < DbNumClosest) /\ ~(DbDistance[infos[o].ident] < DbDistance[infos[s[Len(s)]].ident])
      BY <1>1, <1>11 DEF Dist
    <3> QED
      BY <3>1 DEF SortedWith
  <2>2. ASSUME NEW k \in 1..m
        PROVE  Dist(s[k]) < Dist(o)
    <3>1. m \in 1..m /\ s[m] \in Q /\ s[k] \in Q /\ s[k] # o
      BY <1>7, <1>11
    <3>2. k = m \/ Dist(s[k]) < Dist(s[m])
      BY <1>8, <3>1
    <3>3. Dist(s[k]) # Dist(o) /\ Dist(s[m]) # Dist(o)
      BY <3>1 DEF Far
    <3>4. Dist(s[k]) \in Nat /\ Dist(s[m]) \in Nat /\ Dist(o) \in Nat
      BY <1>6, <3>1
    <3> QED
      BY <1>11, <3>2, <3>3, <3>4
  <2>3. s \in Seq(Q \cup {o})
    BY <1>2
  <2> QED
    BY <1>1, <1>2, <1>11, <2>1, <2>2, <2>3 DEF BestOf, Members
<1> QED
  BY <1>2, <1>9, <1>10, <1>11

(* Without mixed stores the table names each router by its identity.        *)
LEMMA KnownIdent ==
  ASSUME DbInv, dbMixed = {}
  PROVE  \A i \in DbIdents : table[i] \in DbObjects => infos[table[i]].ident = i
<1>1. \A i \in DbIdents : table[i] \in DbObjects => table[i] # 0
  BY DbFacts
<1> QED
  BY <1>1 DEF DbInv, TableRight, RouterRight

(* The floodfills that may be chosen.                                       *)
Choosable == {o \in InFloodfills : infos[o].unreachable = FALSE}

(* They are in the table, so no two of them are equally far.                *)
LEMMA ChoosableFacts ==
  ASSUME DbInv, dbMixed = {}
  PROVE  /\ Choosable \subseteq DbObjects /\ Far(Choosable)
         /\ \A o \in Choosable : infos[o].ident \in DbIdents
<1>1. Choosable \subseteq DbObjects
  BY ListedFacts DEF Choosable, DbInv, DbType
<1>2. ASSUME NEW o \in Choosable
      PROVE  infos[o].ident \in DbIdents /\ table[infos[o].ident] = o /\ Dist(o) \in Nat
  <2>1. infos[o].unreachable = FALSE /\ infos[o].replaced # TRUE
    BY <1>1 DEF Choosable, DbInv, ReplacedMixed
  <2>2. PICK i \in DbIdents : table[i] = o
    BY <2>1 DEF Choosable, DbInv, ListRight
  <2>3. infos[o].ident = i
    BY <1>1, <2>2, KnownIdent
  <2> QED
    BY <2>2, <2>3, DbAssumption DEF Dist
<1>3. ASSUME NEW o \in Choosable, NEW p \in Choosable, Dist(o) = Dist(p)
      PROVE  o = p
  <2>1. infos[o].ident = infos[p].ident
    BY <1>2, <1>3, DbAssumption DEF Dist
  <2> QED
    BY <1>2, <2>1
<1> QED
  BY <1>1, <1>2, <1>3 DEF Far

(* What GetClosestFloodfills has after the first k floodfills.              *)
Sorting(g, n) ==
  g = [k \in 0..n |-> IF k = 0 THEN <<>>
                      ELSE IF infos[floodfills[k]].unreachable THEN g[k - 1]
                      ELSE SortedWith(g[k - 1], floodfills[k])]

(* There is such a function.                                                *)
LEMMA SortingExists ==
  ASSUME NEW n \in Nat
  PROVE  \E g : Sorting(g, n)
<1> DEFINE M == {m \in Nat : \E g : Sorting(g, m)}
           Step(p, o) == IF infos[o].unreachable THEN p ELSE SortedWith(p, o)
<1>1. 0 \in M
  <2>1. PICK g : g = [k \in 0..0 |-> <<>>]
    OBVIOUS
  <2>2. Sorting(g, 0)
    BY <2>1 DEF Sorting
  <2> QED
    BY <2>2
<1>2. \A m \in Nat : m \in M => m + 1 \in M
  <2> SUFFICES ASSUME NEW m \in Nat, m \in M
               PROVE  m + 1 \in M
    OBVIOUS
  <2>1. PICK f : Sorting(f, m)
    OBVIOUS
  <2>2. PICK g : g = [k \in 0..m + 1 |-> IF k = m + 1 THEN Step(f[m], floodfills[m + 1]) ELSE f[k]]
    OBVIOUS
  <2> HIDE DEF Step
  <2>3. ASSUME NEW k \in 0..m + 1
        PROVE  g[k] = IF k = 0 THEN <<>> ELSE Step(g[k - 1], floodfills[k])
    <3>1. CASE k = m + 1
      BY <2>2, <3>1
    <3>2. CASE k # m + 1
      <4>1. k \in 0..m /\ g[k] = f[k] /\ (k # 0 => g[k - 1] = f[k - 1])
        BY <2>2, <3>2
      <4> QED
        BY <2>1, <4>1 DEF Sorting, Step
    <3> QED
      BY <3>1, <3>2
  <2>4. Sorting(g, m + 1)
    BY <2>2, <2>3 DEF Sorting, Step
  <2> QED
    BY <2>4
<1> HIDE DEF M
<1>3. n \in M
  BY <1>1, <1>2, NatSetInduction
<1> QED
  BY <1>3 DEF M

(* GetClosestFloodfills leaves the excluded ones out of the nearest.        *)
LEMMA ClosestIs ==
  ASSUME NEW e, floodfills \in Seq(DbObjects)
  PROVE  \E g : /\ Sorting(g, Len(floodfills))
                /\ GetClosestFloodfills(e) = Only(g[Len(floodfills)], {o \in DbObjects : infos[o].ident \notin e})
<1>1. Len(floodfills) \in Nat
  OBVIOUS
<1>2. \E g : Sorting(g, Len(floodfills))
  BY <1>1, SortingExists
<1>3. PICK c : c = CHOOSE g : Sorting(g, Len(floodfills))
  OBVIOUS
<1>4. Sorting(c, Len(floodfills))
  BY <1>2, <1>3
<1>5. GetClosestFloodfills(e) = Only(c[Len(floodfills)], {o \in DbObjects : infos[o].ident \notin e})
  BY <1>3 DEF GetClosestFloodfills, Sorting
<1> QED
  BY <1>4, <1>5

(* What it leaves them out of is the nearest of all, whatever the order of  *)
(* the list.                                                                *)
LEMMA FloodfillsBest ==
  ASSUME DbInv, dbMixed = {}, ListOnce
  PROVE  \A e : \E s : /\ BestOf(s, Choosable, DbNumClosest)
                       /\ GetClosestFloodfills(e) = Only(s, {o \in DbObjects : infos[o].ident \notin e})
<1> SUFFICES ASSUME NEW e
             PROVE  \E s : /\ BestOf(s, Choosable, DbNumClosest)
                           /\ GetClosestFloodfills(e) = Only(s, {o \in DbObjects : infos[o].ident \notin e})
  OBVIOUS
<1>1. floodfills \in Seq(DbObjects)
  BY DEF DbInv, DbType
<1>2. PICK n \in Nat : n = Len(floodfills)
  BY <1>1
<1>3. PICK g : /\ Sorting(g, n)
               /\ GetClosestFloodfills(e) = Only(g[n], {o \in DbObjects : infos[o].ident \notin e})
  BY <1>1, <1>2, ClosestIs
<1>4. InFloodfills = {floodfills[k] : k \in 1..n}
  BY <1>2, ListedMembers DEF Members
<1>5. Far(Choosable)
  BY ChoosableFacts
<1> DEFINE Upto(m) == {o \in {floodfills[k] : k \in 1..m} : infos[o].unreachable = FALSE}
           Good(m) == BestOf(g[m], Upto(m), DbNumClosest)
           M == {m \in Nat : m <= n => Good(m)}
<1>6. 0 \in M
  <2>1. g[0] = <<>>
    BY <1>3 DEF Sorting
  <2>2. Upto(0) = {} /\ <<>> \in Seq({}) /\ Len(<<>>) = 0 /\ DbNumClosest \in Nat
    BY DbAssumption
  <2> HIDE DEF Upto
  <2>3. Good(0)
    BY <2>1, <2>2 DEF BestOf, Sorted
  <2> QED
    BY <2>3
<1>7. \A m \in Nat : m \in M => m + 1 \in M
  <2> HIDE DEF Good
  <2> SUFFICES ASSUME NEW m \in Nat, m \in M, m + 1 <= n
               PROVE  Good(m + 1)
    OBVIOUS
  <2>0. Good(m)
    OBVIOUS
  <2> HIDE DEF M
  <2>1. PICK o : o = floodfills[m + 1]
    OBVIOUS
  <2>2. m + 1 \in 0..n /\ m + 1 # 0 /\ (m + 1) - 1 = m /\ m + 1 \in 1..n
    OBVIOUS
  <2>3. g[m + 1] = IF infos[o].unreachable THEN g[m] ELSE SortedWith(g[m], o)
    BY <1>3, <2>1, <2>2 DEF Sorting
  <2>4. infos[o].unreachable \in BOOLEAN
    BY <1>1, <1>2, <2>1, <2>2 DEF DbInv, DbType, DbRecord
  <2>5. {floodfills[k] : k \in 1..m + 1} = {floodfills[k] : k \in 1..m} \cup {o}
    <3>1. 1..m + 1 = (1..m) \cup {m + 1}
      OBVIOUS
    <3> QED
      BY <2>1, <3>1
  <2>6. o \notin {floodfills[k] : k \in 1..m}
    <3>1. \A k \in 1..m : k \in 1..n /\ k # m + 1
      OBVIOUS
    <3> QED
      BY <1>2, <2>1, <2>2, <3>1 DEF ListOnce, Once
  <2>7. CASE infos[o].unreachable = TRUE
    <3>1. Upto(m + 1) = Upto(m)
      BY <2>5, <2>7
    <3>2. g[m + 1] = g[m]
      BY <2>3, <2>7
    <3> QED
      BY <2>0, <3>1, <3>2 DEF Good
  <2>8. CASE infos[o].unreachable = FALSE
    <3>1. Upto(m + 1) = Upto(m) \cup {o}
      BY <2>5, <2>8
    <3>2. o \notin Upto(m)
      BY <2>6
    <3>3. Far(Upto(m) \cup {o})
      <4>1. \A k \in 1..m + 1 : k \in 1..n
        OBVIOUS
      <4>2. Upto(m + 1) \subseteq Choosable
        BY <1>4, <4>1 DEF Choosable
      <4> QED
        BY <1>5, <3>1, <4>2 DEF Far
    <3>4. g[m + 1] = SortedWith(g[m], o)
      BY <2>3, <2>8
    <3> HIDE DEF Upto
    <3> QED
      BY <2>0, <3>1, <3>2, <3>3, <3>4, SortedWithBest DEF Good
  <2> QED
    BY <2>4, <2>7, <2>8
<1> HIDE DEF M, Good, Upto
<1>8. n \in M
  BY <1>6, <1>7, NatSetInduction
<1>9. Good(n)
  BY <1>8 DEF M
<1>10. Upto(n) = Choosable
  BY <1>4 DEF Choosable, Upto
<1> QED
  BY <1>3, <1>9, <1>10 DEF Good

(* A set whose elements are all among f[1], ..., f[b] has at most b.        *)
LEMMA CoveredBound ==
  ASSUME NEW N, IsFiniteSet(N), NEW b \in Nat, NEW f, \A j \in N : \E l \in 1..b : f[l] = j
  PROVE  Cardinality(N) <= b
<1>1. Cardinality(N) \in Nat
  BY FS_CardinalityType
<1>2. IsFiniteSet(1..b) /\ Cardinality(1..b) = b
  BY FS_Interval
<1> SUFFICES ASSUME b < Cardinality(N)
             PROVE  FALSE
  BY <1>1
<1>3. PICK h : h = [j \in N |-> CHOOSE l \in 1..b : f[l] = j]
  OBVIOUS
<1>4. \A j \in N : h[j] \in 1..b /\ f[h[j]] = j
  BY <1>3
<1>5. h \in [N -> 1..b]
  BY <1>3, <1>4
<1>6. \E x, y \in N : x # y /\ h[x] = h[y]
  BY <1>2, <1>5, FS_PigeonHole
<1> QED
  BY <1>4, <1>6

(* The n nearest are those with fewer than n nearer ones.                   *)
NearerThan(X, i) == {j \in X : DbDistance[j] < DbDistance[i]}

IdentsOf(Q) == {infos[o].ident : o \in Q}

(* BestOf has exactly those.                                                *)
LEMMA BestCounts ==
  ASSUME NEW Q, Far(Q), \A o \in Q : infos[o].ident \in DbIdents,
         NEW n \in Nat, NEW s, BestOf(s, Q, n)
  PROVE  IdentsOf(Members(s)) = {i \in IdentsOf(Q) : Cardinality(NearerThan(IdentsOf(Q), i)) < n}
<1>0. PICK X : X = IdentsOf(Q) /\ X = {infos[o].ident : o \in Q}
  BY DEF IdentsOf
<1>1. PICK m \in Nat : m = Len(s)
  BY DEF BestOf
<1>2. /\ m <= n /\ \A k \in 1..m : s[k] \in Q
      /\ \A q \in Q : \/ \E k \in 1..m : q = s[k]
                      \/ m = n /\ \A k \in 1..m : Dist(s[k]) < Dist(q)
  BY <1>1 DEF BestOf, Members
<1>3. \A j, k \in 1..m : j < k => Dist(s[j]) < Dist(s[k])
  BY <1>1 DEF BestOf, Sorted
<1>4. \A q \in Q : Dist(q) \in Nat
  BY DEF Far
<1>5. \A i : IsFiniteSet(NearerThan(X, i)) /\ Cardinality(NearerThan(X, i)) \in Nat
  <2>1. \A i : NearerThan(X, i) \in SUBSET DbIdents
    BY <1>0 DEF NearerThan
  <2> QED
    BY <2>1, DbAssumption, FS_Subset, FS_CardinalityType
<1>6. ASSUME NEW k \in 1..m
      PROVE  infos[s[k]].ident \in X /\ Cardinality(NearerThan(X, infos[s[k]].ident)) < n
  <2>1. PICK i : i = infos[s[k]].ident
    OBVIOUS
  <2>2. i \in X /\ DbDistance[i] = Dist(s[k])
    BY <1>0, <1>2, <2>1 DEF Dist
  <2>3. PICK b \in Nat : b = k - 1
    OBVIOUS
  <2>4. PICK f : f = [l \in 1..b |-> infos[s[l]].ident]
    OBVIOUS
  <2>5. ASSUME NEW j \in NearerThan(X, i)
        PROVE  \E l \in 1..b : f[l] = j
    <3>1. PICK q \in Q : j = infos[q].ident
      BY <1>0 DEF NearerThan
    <3>2. Dist(q) < Dist(s[k])
      BY <2>2, <3>1 DEF NearerThan, Dist
    <3>3. Dist(q) \in Nat /\ Dist(s[k]) \in Nat
      BY <1>2, <1>4
    <3>4. PICK l \in 1..m : q = s[l]
      BY <1>2, <3>2, <3>3
    <3>5. l < k
      BY <1>3, <3>2, <3>3, <3>4
    <3>6. l \in 1..b
      BY <2>3, <3>5
    <3> QED
      BY <2>4, <3>1, <3>4, <3>6
  <2>6. Cardinality(NearerThan(X, i)) <= b
    BY <1>5, <2>5, CoveredBound
  <2> QED
    BY <1>2, <1>5, <2>1, <2>2, <2>3, <2>6
<1>7. ASSUME NEW i \in X, Cardinality(NearerThan(X, i)) < n
      PROVE  \E k \in 1..m : infos[s[k]].ident = i
  <2>1. PICK q \in Q : i = infos[q].ident
    BY <1>0
  <2>2. CASE \E k \in 1..m : q = s[k]
    BY <2>1, <2>2
  <2>3. CASE m = n /\ \A k \in 1..m : Dist(s[k]) < Dist(q)
    <3>1. PICK f : f = [k \in 1..n |-> infos[s[k]].ident]
      OBVIOUS
    <3>2. ASSUME NEW k \in 1..n
          PROVE  f[k] \in NearerThan(X, i)
      <4>1. s[k] \in Q /\ Dist(s[k]) < Dist(q)
        BY <1>2, <2>3
      <4> QED
        BY <1>0, <2>1, <3>1, <4>1 DEF NearerThan, Dist
    <3>3. f \in [1..n -> NearerThan(X, i)]
      BY <3>1, <3>2
    <3>4. IsFiniteSet(1..n) /\ Cardinality(1..n) = n
      BY FS_Interval
    <3>5. PICK x \in 1..n, y \in 1..n : x # y /\ f[x] = f[y]
      BY <1>5, <1>7, <3>3, <3>4, FS_PigeonHole
    <3>6. Dist(s[x]) = Dist(s[y])
      BY <3>1, <3>5 DEF Dist
    <3>7. Dist(s[x]) < Dist(s[y]) \/ Dist(s[y]) < Dist(s[x])
      BY <1>3, <2>3, <3>5
    <3>8. Dist(s[x]) \in Nat /\ Dist(s[y]) \in Nat
      BY <1>2, <1>4, <2>3
    <3> QED
      BY <3>6, <3>7, <3>8
  <2> QED
    BY <1>2, <2>2, <2>3
<1>8. IdentsOf(Members(s)) = {i \in X : Cardinality(NearerThan(X, i)) < n}
  BY <1>1, <1>6, <1>7 DEF IdentsOf, Members
<1> QED
  BY <1>0, <1>8

(* One more floodfill, found among those that are not in s.                 *)
LEMMA NearestIs ==
  ASSUME NEW S, S # {}, \A o \in S : Dist(o) \in Nat
  PROVE  \E o \in S : Nearest(S) = <<o>> /\ \A p \in S : Dist(o) <= Dist(p)
<1>1. PICK T : T = {Dist(o) : o \in S}
  OBVIOUS
<1>2. PICK x \in T : \A y \in T : x <= y
  BY <1>1, NatMin
<1>3. \E o \in S : \A p \in S : DbDistance[infos[o].ident] <= DbDistance[infos[p].ident]
  BY <1>1, <1>2 DEF Dist
<1>4. PICK o : o = CHOOSE c \in S : \A p \in S : DbDistance[infos[c].ident] <= DbDistance[infos[p].ident]
  OBVIOUS
<1>5. o \in S /\ \A p \in S : Dist(o) <= Dist(p)
  BY <1>3, <1>4 DEF Dist
<1> QED
  BY <1>4, <1>5 DEF Nearest

(* With it, s has one more of the nearest.                                  *)
LEMMA BestMore ==
  ASSUME NEW Q, Far(Q), NEW n \in Nat, NEW s, BestOf(s, Q, n)
  PROVE  BestOf(s \o Nearest(Q \ Members(s)), Q, n + 1)
<1>1. PICK m \in Nat : m = Len(s)
  BY DEF BestOf
<1>2. /\ m <= n /\ s \in Seq(Q) /\ Sorted(s)
      /\ \A q \in Q : \/ q \in Members(s)
                      \/ m = n /\ \A k \in 1..m : Dist(s[k]) < Dist(q)
  BY <1>1 DEF BestOf
<1>3. \A q \in Q : Dist(q) \in Nat
  BY DEF Far
<1>4. CASE Q \ Members(s) = {}
  <2>1. s \o Nearest(Q \ Members(s)) = s
    BY <1>2, <1>4, ConcatEmptySeq DEF Nearest
  <2>2. m <= n + 1 /\ \A q \in Q : q \in Members(s)
    BY <1>2, <1>4
  <2> QED
    BY <1>1, <1>2, <2>1, <2>2 DEF BestOf
<1>5. CASE Q \ Members(s) # {}
  <2>1. PICK o \in Q \ Members(s) : /\ Nearest(Q \ Members(s)) = <<o>>
                                    /\ \A p \in Q \ Members(s) : Dist(o) <= Dist(p)
    BY <1>3, <1>5, NearestIs
  <2>2. PICK t : t = Append(s, o)
    OBVIOUS
  <2>3. s \o Nearest(Q \ Members(s)) = t
    BY <1>2, <2>1, <2>2, AppendIsConcat
  <2>4. t \in Seq(Q) /\ Len(t) = m + 1 /\ t[m + 1] = o /\ \A k \in 1..m : t[k] = s[k]
    BY <1>1, <1>2, <2>2
  <2>5. m = n /\ \A k \in 1..m : Dist(s[k]) < Dist(o)
    BY <1>2, <2>1
  <2>6. Members(t) = Members(s) \cup {o}
    BY <1>2, <2>2, MembersAppend
  <2>7. Sorted(t)
    <3>1. \A j, k \in 1..m : j < k => Dist(s[j]) < Dist(s[k])
      BY <1>1, <1>2 DEF Sorted
    <3>2. ASSUME NEW j \in 1..m + 1, NEW k \in 1..m + 1, j < k
          PROVE  Dist(t[j]) < Dist(t[k])
      <4>1. j \in 1..m /\ t[j] = s[j]
        BY <2>4, <3>2
      <4>2. CASE k = m + 1
        BY <2>4, <2>5, <4>1, <4>2
      <4>3. CASE k # m + 1
        <5>1. k \in 1..m /\ t[k] = s[k]
          BY <2>4, <4>3
        <5> QED
          BY <3>1, <3>2, <4>1, <5>1
      <4> QED
        BY <4>2, <4>3
    <3> QED
      BY <2>4, <3>2 DEF Sorted
  <2>8. ASSUME NEW q \in Q, q \notin Members(t)
        PROVE  \A k \in 1..m + 1 : Dist(t[k]) < Dist(q)
    <3>1. q \notin Members(s) /\ q # o
      BY <2>6, <2>8
    <3>2. Dist(o) <= Dist(q) /\ Dist(o) # Dist(q)
      BY <2>1, <3>1 DEF Far
    <3>3. Dist(o) \in Nat /\ Dist(q) \in Nat
      BY <1>3, <2>1
    <3>4. Dist(o) < Dist(q)
      BY <3>2, <3>3
    <3> SUFFICES ASSUME NEW k \in 1..m + 1
                 PROVE  Dist(t[k]) < Dist(q)
      OBVIOUS
    <3>5. CASE k = m + 1
      BY <2>4, <3>4, <3>5
    <3>6. CASE k # m + 1
      <4>1. k \in 1..m /\ t[k] = s[k]
        BY <2>4, <3>6
      <4> QED
        BY <1>2, <3>1, <4>1
    <3> QED
      BY <3>5, <3>6
  <2>9. Len(t) = n + 1 /\ Len(t) <= n + 1
    BY <2>4, <2>5
  <2>10. \A q \in Q : \/ q \in Members(t)
                      \/ Len(t) = n + 1 /\ \A k \in 1..Len(t) : Dist(t[k]) < Dist(q)
    <3>1. 1..Len(t) = 1..m + 1
      BY <2>4
    <3> SUFFICES ASSUME NEW q \in Q, q \notin Members(t)
                 PROVE  Len(t) = n + 1 /\ \A k \in 1..Len(t) : Dist(t[k]) < Dist(q)
      OBVIOUS
    <3>2. \A k \in 1..m + 1 : Dist(t[k]) < Dist(q)
      BY <2>8
    <3> QED
      BY <2>9, <3>1, <3>2
  <2>11. t \in Seq(Q)
    BY <2>4
  <2> QED
    BY <2>3, <2>7, <2>9, <2>10, <2>11 DEF BestOf
<1> QED
  BY <1>4, <1>5

(* ClosestInTurn: the routers found so far are excluded from the next       *)
(* choice.                                                                  *)
Besides(e, s) == e \cup {infos[s[j]].ident : j \in DOMAIN s}
Further(fl, e, s) ==
  IF fl THEN GetClosestFloodfill(Besides(e, s)) ELSE GetClosestNonFloodfill(Besides(e, s))
InTurn(g, fl, n, e) ==
  g = [k \in 0..n |-> IF k = 0 THEN <<>> ELSE g[k - 1] \o Further(fl, e, g[k - 1])]

(* There is such a function.                                                *)
LEMMA InTurnExists ==
  ASSUME NEW fl, NEW e, NEW n \in Nat
  PROVE  \E g : InTurn(g, fl, n, e)
<1> DEFINE M == {m \in Nat : \E g : InTurn(g, fl, m, e)}
           Step(p) == p \o Further(fl, e, p)
<1>1. 0 \in M
  <2>1. PICK g : g = [k \in 0..0 |-> <<>>]
    OBVIOUS
  <2>2. InTurn(g, fl, 0, e)
    BY <2>1 DEF InTurn
  <2> QED
    BY <2>2
<1>2. \A m \in Nat : m \in M => m + 1 \in M
  <2> SUFFICES ASSUME NEW m \in Nat, m \in M
               PROVE  m + 1 \in M
    OBVIOUS
  <2>1. PICK f : InTurn(f, fl, m, e)
    OBVIOUS
  <2>2. PICK g : g = [k \in 0..m + 1 |-> IF k = m + 1 THEN Step(f[m]) ELSE f[k]]
    OBVIOUS
  <2> HIDE DEF Step
  <2>3. ASSUME NEW k \in 0..m + 1
        PROVE  g[k] = IF k = 0 THEN <<>> ELSE Step(g[k - 1])
    <3>1. CASE k = m + 1
      BY <2>2, <3>1
    <3>2. CASE k # m + 1
      <4>1. k \in 0..m /\ g[k] = f[k] /\ (k # 0 => g[k - 1] = f[k - 1])
        BY <2>2, <3>2
      <4> QED
        BY <2>1, <4>1 DEF InTurn, Step
    <3> QED
      BY <3>1, <3>2
  <2>4. InTurn(g, fl, m + 1, e)
    BY <2>2, <2>3 DEF InTurn, Step
  <2> QED
    BY <2>4
<1> HIDE DEF M
<1>3. n \in M
  BY <1>1, <1>2, NatSetInduction
<1> QED
  BY <1>3 DEF M

(* ClosestInTurn is its last value.                                         *)
LEMMA InTurnIs ==
  ASSUME NEW fl, NEW e, NEW n \in Nat
  PROVE  \E g : InTurn(g, fl, n, e) /\ ClosestInTurn(fl, n, e) = g[n]
<1>1. \E g : InTurn(g, fl, n, e)
  BY InTurnExists
<1>2. PICK c : c = CHOOSE g : InTurn(g, fl, n, e)
  OBVIOUS
<1>3. InTurn(c, fl, n, e)
  BY <1>1, <1>2
<1>4. ClosestInTurn(fl, n, e) = c[n]
  BY <1>2 DEF ClosestInTurn, InTurn, Further, Besides
<1> QED
  BY <1>3, <1>4

(* The floodfills one choice is made of.                                    *)
LEMMA ClosestFloodfillIs ==
  ASSUME DbInv, NEW e
  PROVE  GetClosestFloodfill(e) = Nearest({o \in Choosable : infos[o].ident \notin e})
<1>1. floodfills \in Seq(DbObjects)
  BY DEF DbInv, DbType
<1>2. \A o \in InFloodfills : infos[o].unreachable \in BOOLEAN
  BY ListedFacts DEF DbInv, DbType, DbRecord
<1>3. {floodfills[k] : k \in {n \in DOMAIN floodfills :
             ~infos[floodfills[n]].unreachable /\ infos[floodfills[n]].ident \notin e}}
      = {o \in Choosable : infos[o].ident \notin e}
  BY <1>2 DEF Choosable, InFloodfills
<1> QED
  BY <1>3 DEF GetClosestFloodfill

(* The floodfills a choice of n in turn gives are the n nearest.            *)
LEMMA InTurnBest ==
  ASSUME DbInv, dbMixed = {}, NEW n \in Nat
  PROVE  BestOf(ClosestInTurn(TRUE, n, {}), Choosable, n)
<1>1. PICK g : InTurn(g, TRUE, n, {}) /\ ClosestInTurn(TRUE, n, {}) = g[n]
  BY InTurnIs
<1> DEFINE M == {m \in Nat : m <= n => BestOf(g[m], Choosable, m)}
<1>2. 0 \in M
  <2>1. g[0] = <<>>
    BY <1>1 DEF InTurn
  <2>2. <<>> \in Seq(Choosable) /\ Len(<<>>) = 0
    OBVIOUS
  <2>3. BestOf(g[0], Choosable, 0)
    BY <2>1, <2>2 DEF BestOf, Sorted
  <2> QED
    BY <2>3
<1>3. \A m \in Nat : m \in M => m + 1 \in M
  <2> SUFFICES ASSUME NEW m \in Nat, BestOf(g[m], Choosable, m), m + 1 <= n
               PROVE  BestOf(g[m + 1], Choosable, m + 1)
    OBVIOUS
  <2>1. m + 1 \in 0..n /\ m + 1 # 0 /\ (m + 1) - 1 = m
    OBVIOUS
  <2>2. PICK s : s = g[m]
    OBVIOUS
  <2>3. g[m + 1] = s \o GetClosestFloodfill(Besides({}, s))
    <3>1. g[m + 1] = s \o Further(TRUE, {}, s)
      BY <1>1, <2>1, <2>2 DEF InTurn
    <3> QED
      BY <3>1 DEF Further
  <2>4. s \in Seq(Choosable)
    BY <2>2 DEF BestOf
  <2>5. {o \in Choosable : infos[o].ident \notin Besides({}, s)} = Choosable \ Members(s)
    <3>1. DOMAIN s = 1..Len(s) /\ \A k \in 1..Len(s) : s[k] \in Choosable
      BY <2>4
    <3>2. \A o, p \in Choosable : infos[o].ident = infos[p].ident => o = p
      BY ChoosableFacts DEF Far, Dist
    <3> QED
      BY <3>1, <3>2 DEF Besides, Members
  <2>6. g[m + 1] = s \o Nearest(Choosable \ Members(s))
    BY <2>3, <2>5, ClosestFloodfillIs
  <2> QED
    BY <2>2, <2>6, BestMore, ChoosableFacts
<1> HIDE DEF M
<1>4. n \in M
  BY <1>2, <1>3, NatSetInduction
<1>5. BestOf(g[n], Choosable, n)
  BY <1>4 DEF M
<1> QED
  BY <1>1, <1>5

(* Nearest finds one object at most, of those it is given.                  *)
LEMMA NearestSeq ==
  ASSUME NEW S, \A o \in S : Dist(o) \in Nat
  PROVE  Nearest(S) \in Seq(S)
<1>1. CASE S = {}
  BY <1>1 DEF Nearest
<1>2. CASE S # {}
  <2>1. PICK o \in S : Nearest(S) = <<o>>
    BY <1>2, NearestIs
  <2> QED
    BY <2>1
<1> QED
  BY <1>1, <1>2

(* GetClosestFloodfill alone finds the nearest.                             *)
LEMMA OneBest ==
  ASSUME DbInv, dbMixed = {}
  PROVE  BestOf(GetClosestFloodfill({}), Choosable, 1)
<1>1. <<>> \in Seq(Choosable) /\ Len(<<>>) = 0
  OBVIOUS
<1>2. BestOf(<<>>, Choosable, 0)
  BY <1>1 DEF BestOf, Sorted
<1>3. BestOf(<<>> \o Nearest(Choosable \ Members(<<>>)), Choosable, 1)
  <2>1. BestOf(<<>> \o Nearest(Choosable \ Members(<<>>)), Choosable, 0 + 1)
    BY <1>2, BestMore, ChoosableFacts
  <2> QED
    BY <2>1
<1>4. GetClosestFloodfill({}) = Nearest(Choosable)
  <2>1. {o \in Choosable : infos[o].ident \notin {}} = Choosable
    OBVIOUS
  <2> QED
    BY <2>1, ClosestFloodfillIs
<1>5. Choosable \ Members(<<>>) = Choosable
  BY MembersEmpty
<1>6. <<>> \o Nearest(Choosable) = Nearest(Choosable)
  <2>1. Nearest(Choosable) \in Seq(Choosable)
    <3>1. \A o \in Choosable : Dist(o) \in Nat
      BY ChoosableFacts DEF Far
    <3> QED
      BY <3>1, NearestSeq
  <2> QED
    BY <2>1, ConcatEmptySeq
<1> QED
  BY <1>3, <1>4, <1>5, <1>6

(* An exploratory lookup names known routers that are no floodfills.        *)
Others(e) == {table[i] : i \in {j \in Known \ e : ~IsFloodfill(table[j])}}

LEMMA OthersFacts ==
  ASSUME DbInv, dbMixed = {}, NEW e
  PROVE  /\ Others(e) \subseteq DbObjects /\ Far(Others(e))
         /\ \A o \in Others(e) : infos[o].ident \in DbIdents
         /\ IdentsOf(Others(e)) = {i \in Known \ e : ~IsFloodfill(table[i])}
<1>1. \A i \in Known : i \in DbIdents /\ table[i] \in DbObjects /\ infos[table[i]].ident = i
  BY KnownIdent DEF Known, DbInv, DbType
<1>2. \A i \in DbIdents : DbDistance[i] \in Nat
  BY DbAssumption
<1>3. Others(e) \subseteq DbObjects /\ \A o \in Others(e) : infos[o].ident \in DbIdents /\ table[infos[o].ident] = o
  BY <1>1 DEF Others
<1>4. Far(Others(e))
  BY <1>2, <1>3, DbAssumption DEF Far, Dist
<1>5. IdentsOf(Others(e)) = {i \in Known \ e : ~IsFloodfill(table[i])}
  <2>1. PICK S : S = {i \in Known \ e : ~IsFloodfill(table[i])}
    OBVIOUS
  <2>2. Others(e) = {table[i] : i \in S} /\ S \subseteq Known
    BY <2>1 DEF Others
  <2>3. IdentsOf(Others(e)) = S
    BY <1>1, <2>2 DEF IdentsOf
  <2> QED
    BY <2>1, <2>3
<1> QED
  BY <1>3, <1>4, <1>5

(* GetClosestNonFloodfill finds the nearest of them.                        *)
LEMMA ClosestOtherIs ==
  ASSUME DbInv, dbMixed = {}, NEW e
  PROVE  GetClosestNonFloodfill(e) = Nearest(Others(e))
<1>1. PICK S : S = {i \in Known \ e : ~IsFloodfill(table[i])}
  OBVIOUS
<1>2. Others(e) = {table[i] : i \in S} /\ S \subseteq DbIdents
  BY <1>1 DEF Others, Known
<1>3. \A i \in S : infos[table[i]].ident = i /\ DbDistance[i] \in Nat
  BY <1>1, KnownIdent, DbAssumption DEF Known, DbInv, DbType
<1>4. CASE S = {}
  <2>1. Others(e) = {}
    BY <1>2, <1>4
  <2> QED
    BY <1>1, <1>4, <2>1 DEF GetClosestNonFloodfill, Nearest
<1>5. CASE S # {}
  <2>1. Others(e) # {} /\ \A o \in Others(e) : Dist(o) \in Nat
    BY <1>2, <1>5, OthersFacts DEF Far
  <2>2. PICK o \in Others(e) : Nearest(Others(e)) = <<o>> /\ \A p \in Others(e) : Dist(o) <= Dist(p)
    BY <2>1, NearestIs
  <2>3. PICK k \in S : o = table[k]
    BY <1>2, <2>2
  <2>4. \A j \in S : DbDistance[k] <= DbDistance[j]
    BY <1>2, <1>3, <2>2, <2>3 DEF Dist
  <2>5. PICK c : c = CHOOSE i \in S : \A j \in S : DbDistance[i] <= DbDistance[j]
    OBVIOUS
  <2>6. c \in S /\ \A j \in S : DbDistance[c] <= DbDistance[j]
    BY <2>3, <2>4, <2>5
  <2>7. DbDistance[c] = DbDistance[k]
    BY <1>3, <2>3, <2>4, <2>6
  <2>8. c = k
    BY <1>2, <2>3, <2>6, <2>7, DbAssumption
  <2>9. GetClosestNonFloodfill(e) = <<table[c]>>
    BY <1>1, <1>5, <2>5 DEF GetClosestNonFloodfill
  <2> QED
    BY <2>2, <2>3, <2>8, <2>9
<1> QED
  BY <1>4, <1>5

(* The others a choice of n in turn gives are the n nearest.                *)
LEMMA OthersBest ==
  ASSUME DbInv, dbMixed = {}, NEW e, NEW n \in Nat
  PROVE  BestOf(ClosestInTurn(FALSE, n, e), Others(e), n)
<1>1. PICK g : InTurn(g, FALSE, n, e) /\ ClosestInTurn(FALSE, n, e) = g[n]
  BY InTurnIs
<1> DEFINE M == {m \in Nat : m <= n => BestOf(g[m], Others(e), m)}
<1>2. 0 \in M
  <2>1. g[0] = <<>>
    BY <1>1 DEF InTurn
  <2>2. <<>> \in Seq(Others(e)) /\ Len(<<>>) = 0
    OBVIOUS
  <2>3. BestOf(g[0], Others(e), 0)
    BY <2>1, <2>2 DEF BestOf, Sorted
  <2> QED
    BY <2>3
<1>3. \A m \in Nat : m \in M => m + 1 \in M
  <2> SUFFICES ASSUME NEW m \in Nat, BestOf(g[m], Others(e), m), m + 1 <= n
               PROVE  BestOf(g[m + 1], Others(e), m + 1)
    OBVIOUS
  <2>1. m + 1 \in 0..n /\ m + 1 # 0 /\ (m + 1) - 1 = m
    OBVIOUS
  <2>2. PICK s : s = g[m]
    OBVIOUS
  <2>3. g[m + 1] = s \o GetClosestNonFloodfill(Besides(e, s))
    <3>1. g[m + 1] = s \o Further(FALSE, e, s)
      BY <1>1, <2>1, <2>2 DEF InTurn
    <3> QED
      BY <3>1 DEF Further
  <2>4. s \in Seq(Others(e))
    BY <2>2 DEF BestOf
  <2>5. Others(Besides(e, s)) = Others(e) \ Members(s)
    <3>1. DOMAIN s = 1..Len(s) /\ \A k \in 1..Len(s) : s[k] \in Others(e)
      BY <2>4
    <3>2. \A i \in Known : infos[table[i]].ident = i
      BY KnownIdent DEF Known, DbInv, DbType
    <3>3. \A o \in Others(e) : table[infos[o].ident] = o
      BY <3>2 DEF Others
    <3>4. \A i \in Known : table[i] \in Members(s) <=> \E k \in DOMAIN s : infos[s[k]].ident = i
      BY <3>1, <3>2, <3>3 DEF Members
    <3> QED
      BY <3>4 DEF Others, Besides
  <2>6. g[m + 1] = s \o Nearest(Others(e) \ Members(s))
    BY <2>3, <2>5, ClosestOtherIs
  <2> QED
    BY <2>2, <2>6, BestMore, OthersFacts
<1> HIDE DEF M
<1>4. n \in M
  BY <1>2, <1>3, NatSetInduction
<1>5. BestOf(g[n], Others(e), n)
  BY <1>4 DEF M
<1> QED
  BY <1>1, <1>5

(* AnswersNearest in parts.                                                 *)
ReachableIdents ==
  {infos[floodfills[k]].ident : k \in {n \in DOMAIN floodfills : ~infos[floodfills[n]].unreachable}}
NearestOf(R, n) == {i \in R : Cardinality({j \in R : DbDistance[j] < DbDistance[i]}) < n}
NamedIn(answer) == {answer[k] : k \in DOMAIN answer}

RouterNearest ==
  \A e \in DbExcluded : \A i \in DbIdents :
    0 \in LoadBuffer(i) => NamedIn(RouterAnswer(i, 0, e)) = NearestOf(ReachableIdents, DbNumClosest) \ e
LeaseSetNearest ==
  \A e \in DbExcluded : \A d \in DbDestinations :
    leaseSets[d] = 0 => NamedIn(LeaseSetAnswer(d, e)) = NearestOf(ReachableIdents, DbNumClosest) \ e
ExploratoryNearest ==
  \A e \in DbExcluded :
    NamedIn(ExploratoryAnswer(e)) = NearestOf({i \in Known \ e : ~IsFloodfill(table[i])}, 3)
PublishedNearest ==
  /\ NamedIn(PublishedTo) = NearestOf(ReachableIdents, 2)
  /\ NamedIn(FloodedTo) \subseteq NearestOf(ReachableIdents, 1)
RandomFound ==
  \A ind \in 0 .. Cardinality(Known) - 1 :
    GetRandomRouter(ind) # <<>> <=> \E i \in Known : ~infos[table[i]].unreachable

(* They are all of it.                                                      *)
LEMMA AnswersParts ==
  ASSUME RouterNearest, LeaseSetNearest, ExploratoryNearest, PublishedNearest, RandomFound
  PROVE  AnswersNearest
BY DEF AnswersNearest, RouterNearest, LeaseSetNearest, ExploratoryNearest, PublishedNearest,
       RandomFound, ReachableIdents, NearestOf, NamedIn

(* The identities an answer names.                                          *)
LEMMA NamedMembers ==
  ASSUME NEW A, NEW s \in Seq(A)
  PROVE  NamedIn(HashesOf(s)) = {infos[o].ident : o \in Members(s)}
<1>1. DOMAIN s = 1..Len(s)
  OBVIOUS
<1> QED
  BY <1>1 DEF NamedIn, HashesOf, Members

(* The n nearest objects have the n nearest identities.                     *)
LEMMA BestNamed ==
  ASSUME DbInv, dbMixed = {}, NEW n \in Nat, NEW s, BestOf(s, Choosable, n)
  PROVE  {infos[o].ident : o \in Members(s)} = NearestOf(ReachableIdents, n)
<1>1. \A o \in InFloodfills : infos[o].unreachable \in BOOLEAN
  BY ListedFacts DEF DbInv, DbType, DbRecord
<1>2. ReachableIdents = IdentsOf(Choosable)
  BY <1>1 DEF ReachableIdents, Choosable, InFloodfills, IdentsOf
<1>3. Far(Choosable) /\ \A o \in Choosable : infos[o].ident \in DbIdents
  BY ChoosableFacts
<1>4. IdentsOf(Members(s)) = {i \in IdentsOf(Choosable) : Cardinality(NearerThan(IdentsOf(Choosable), i)) < n}
  BY <1>3, BestCounts
<1> QED
  BY <1>2, <1>4 DEF NearestOf, NearerThan, IdentsOf

(* What a search reply names.                                               *)
LEMMA ClosestNamed ==
  ASSUME DbInv, dbMixed = {}, ListOnce, NEW e
  PROVE  NamedIn(HashesOf(GetClosestFloodfills(e))) = NearestOf(ReachableIdents, DbNumClosest) \ e
<1> DEFINE T == {o \in DbObjects : infos[o].ident \notin e}
<1>1. PICK s : BestOf(s, Choosable, DbNumClosest) /\ GetClosestFloodfills(e) = Only(s, T)
  BY FloodfillsBest
<1>2. s \in Seq(Choosable) /\ Members(s) \subseteq DbObjects
  BY <1>1, ChoosableFacts DEF BestOf, Members
<1>3. Only(s, T) \in Seq(Choosable)
  <2>1. Only(s, T) \in Seq(Choosable \cap T)
    BY <1>2, OnlyFacts
  <2> QED
    BY <2>1
<1>4. Members(Only(s, T)) = Members(s) \cap T
  BY <1>2, OnlyMembers
<1>5. {infos[o].ident : o \in Members(s)} = NearestOf(ReachableIdents, DbNumClosest)
  BY <1>1, BestNamed, DbAssumption
<1>6. NamedIn(HashesOf(Only(s, T))) = {infos[o].ident : o \in Members(s) \cap T}
  BY <1>3, <1>4, NamedMembers
<1>7. {infos[o].ident : o \in Members(s) \cap T} = {infos[o].ident : o \in Members(s)} \ e
  BY <1>2
<1> QED
  BY <1>1, <1>5, <1>6, <1>7

(* What an exploratory one names.                                           *)
LEMMA ExploratoryNamed ==
  ASSUME DbInv, dbMixed = {}
  PROVE  ExploratoryNearest
<1> SUFFICES ASSUME NEW e \in DbExcluded
             PROVE  NamedIn(ExploratoryAnswer(e)) = NearestOf({i \in Known \ e : ~IsFloodfill(table[i])}, 3)
  BY DEF ExploratoryNearest
<1>1. PICK s : s = ClosestInTurn(FALSE, 3, e)
  OBVIOUS
<1>2. BestOf(s, Others(e), 3)
  BY <1>1, OthersBest
<1>3. s \in Seq(Others(e))
  BY <1>2 DEF BestOf
<1>4. NamedIn(ExploratoryAnswer(e)) = IdentsOf(Members(s))
  BY <1>1, <1>3, NamedMembers DEF ExploratoryAnswer, IdentsOf
<1>5. Far(Others(e)) /\ \A o \in Others(e) : infos[o].ident \in DbIdents
  BY OthersFacts
<1>6. IdentsOf(Members(s)) = {i \in IdentsOf(Others(e)) : Cardinality(NearerThan(IdentsOf(Others(e)), i)) < 3}
  BY <1>2, <1>5, BestCounts
<1>7. IdentsOf(Others(e)) = {i \in Known \ e : ~IsFloodfill(table[i])}
  BY OthersFacts
<1> QED
  BY <1>4, <1>6, <1>7 DEF NearestOf, NearerThan

(* Where router infos are published and stores flooded.                     *)
LEMMA PublishedNamed ==
  ASSUME DbInv, dbMixed = {}
  PROVE  PublishedNearest
<1>1. NamedIn(PublishedTo) = NearestOf(ReachableIdents, 2)
  <2>1. PICK s : s = ClosestInTurn(TRUE, 2, {})
    OBVIOUS
  <2>2. BestOf(s, Choosable, 2)
    BY <2>1, InTurnBest
  <2>3. s \in Seq(Choosable)
    BY <2>2 DEF BestOf
  <2> QED
    BY <2>1, <2>2, <2>3, BestNamed, NamedMembers DEF PublishedTo
<1>2. NamedIn(FloodedTo) \subseteq NearestOf(ReachableIdents, 1)
  <2>1. PICK s : s = GetClosestFloodfill({})
    OBVIOUS
  <2>2. BestOf(s, Choosable, 1)
    BY <2>1, OneBest
  <2>3. s \in Seq(Choosable)
    BY <2>2 DEF BestOf
  <2>4. PICK f : f = HashesOf(s)
    OBVIOUS
  <2>5. NamedIn(f) = NearestOf(ReachableIdents, 1)
    BY <2>2, <2>3, <2>4, BestNamed, NamedMembers
  <2>6. f \in Seq(NamedIn(f))
    BY <2>3, <2>4 DEF NamedIn, HashesOf
  <2>7. FloodedTo \in Seq(NamedIn(f))
    <3>1. <<>> \in Seq(NamedIn(f)) /\ f \o f \o f \in Seq(NamedIn(f))
      BY <2>6
    <3> QED
      BY <2>1, <2>4, <3>1 DEF FloodedTo
  <2>8. NamedIn(FloodedTo) \subseteq NamedIn(f)
    BY <2>7 DEF NamedIn
  <2> QED
    BY <2>5, <2>8
<1> QED
  BY <1>1, <1>2 DEF PublishedNearest

(* A set in order is empty when the set is.                                 *)
LEMMA InOrderEmpty ==
  ASSUME NEW S, S \subseteq DbIdents
  PROVE  InOrder(S) # <<>> <=> S # {}
<1>1. Members(InOrder(S)) = S
  BY InOrderMembers
<1>2. CASE S = {}
  BY <1>1, <1>2, InOrderFacts DEF Members
<1>3. CASE S # {}
  BY <1>1, <1>3, MembersEmpty
<1> QED
  BY <1>2, <1>3

(* A hop is found when there is one.                                        *)
LEMMA RandomNamed ==
  ASSUME DbInv
  PROVE  RandomFound
<1> SUFFICES ASSUME NEW ind \in 0 .. Cardinality(Known) - 1
             PROVE  GetRandomRouter(ind) # <<>> <=> \E i \in Known : ~infos[table[i]].unreachable
  BY DEF RandomFound
<1>1. PICK F : F = {i \in Known : ~infos[table[i]].unreachable}
  OBVIOUS
<1>2. PICK L : L = {i \in F : Cardinality({j \in Known : j < i}) >= ind}
  OBVIOUS
<1>3. F \subseteq DbIdents /\ L \subseteq F
  BY <1>1, <1>2 DEF Known
<1>4. GetRandomRouter(ind) =
        IF InOrder(L) # <<>> THEN <<Head(InOrder(L))>>
        ELSE IF InOrder(F) # <<>> THEN <<Head(InOrder(F))>> ELSE <<>>
  BY <1>1, <1>2 DEF GetRandomRouter
<1>5. GetRandomRouter(ind) # <<>> <=> F # {}
  <2>1. \A x : <<x>> # <<>>
    OBVIOUS
  <2>2. InOrder(L) # <<>> <=> L # {}
    BY <1>3, InOrderEmpty
  <2>3. InOrder(F) # <<>> <=> F # {}
    BY <1>3, InOrderEmpty
  <2> QED
    BY <1>3, <1>4, <2>1, <2>2, <2>3
<1> QED
  BY <1>1, <1>5

(* As long as no router info was stored under another router's key, a       *)
(* search reply names the nearest reachable routers of the list of          *)
(* floodfills but the excluded ones, an exploratory one the nearest of the  *)
(* others, our router info goes to the two nearest of the list, a store is  *)
(* flooded to the nearest, and a hop is found whenever a router is          *)
(* reachable, whatever was stored, looked up, saved or lost in a crash      *)
(* before (AnswersNearest).                                                 *)
THEOREM SpecAnswersNearest == DbSpec => []AnswersNearest
<1>1. DbInit => ListOnce
  BY InOrderMembers DEF DbInit, LoadedFloodfills, ListOnce
<1>2. DbInv /\ ListOnce /\ [DbNext]_dbVars => ListOnce'
  BY ListOnceKept
<1>3. DbInv /\ ListOnce => AnswersNearest
  <2>1. CASE dbMixed # {}
    BY <2>1 DEF AnswersNearest
  <2>2. CASE dbMixed = {}
    <3> SUFFICES ASSUME DbInv, ListOnce
                 PROVE  AnswersNearest
      OBVIOUS
    <3>1. RouterNearest
      BY <2>2, ClosestNamed DEF RouterNearest, RouterAnswer
    <3>2. LeaseSetNearest
      BY <2>2, ClosestNamed DEF LeaseSetNearest, LeaseSetAnswer
    <3>3. ExploratoryNearest /\ PublishedNearest /\ RandomFound
      BY <2>2, ExploratoryNamed, PublishedNamed, RandomNamed
    <3> QED
      BY <3>1, <3>2, <3>3, AnswersParts
  <2> QED
    BY <2>1, <2>2
<1> QED
  BY <1>1, <1>2, <1>3, SpecDbInv, PTL DEF DbSpec
=============================================================================
