--------------------------- MODULE NetDbRequests ---------------------------
(***************************************************************************)
(* The table of outstanding RouterInfo lookups (core/NetDbRequests.cpp) and *)
(* the NetDb operations that use it (core/NetworkDatabase.cpp).             *)
(*                                                                          *)
(* RequestDestination runs on whatever thread wants a RouterInfo (the       *)
(* transports', a destination's, the tunnels'): a ClientCall.  The NetDb    *)
(* thread handles DatabaseStore and DatabaseSearchReply messages, calls     *)
(* RequestDestination for the routers a search reply names, explores with   *)
(* random keys (both are NetDbCalls), and runs ManageRequests.  The mutex   *)
(* of the table covers insertion, erasure and ManageRequests, but neither   *)
(* the lookup nor the callback in RequestComplete, so those are steps of    *)
(* their own.                                                               *)
(*                                                                          *)
(* A call c stands for one call of RequestDestination (or one turn of       *)
(* Explore's loop) and for the RequestedDestination object it makes.        *)
(***************************************************************************)
EXTENDS Naturals, Sequences, FiniteSets

CONSTANTS
  Idents,         \* router hashes one may ask for
  Floodfills,     \* floodfill routers a lookup can be sent to
  ClientCalls,    \* calls made by other threads, with a callback
  NetDbCalls,     \* calls made by the NetDb thread, without one
  MaxAttempts,    \* 7: floodfills asked before a lookup is given up
  None,           \* the null pointer
  NetDbThread     \* the NetDb thread as a caller of RequestComplete

Calls == ClientCalls \cup NetDbCalls
Actors == ClientCalls \cup {NetDbThread}

ASSUME ConstantsAssumption ==
  /\ MaxAttempts \in Nat \ {0}
  /\ ClientCalls \cap NetDbCalls = {}
  /\ NetDbThread \notin Calls
  /\ None \notin Calls \cup Floodfills \cup Idents

VARIABLES
  pc,                       \* pc[c]: progress of the call
  ident,                    \* ident[c]: the hash c asks for (None before)
  m_RequestedDestinations,  \* the table: hash -> call or None
  m_ExcludedPeers,          \* m_ExcludedPeers[c]: floodfills asked so far
  m_IsExploratory,
  age,                      \* now - m_CreationTime, as ManageRequests reads it
  m_RequestComplete,        \* the callback is still set
  outcomes,                 \* what the callback was called with, in order
  rc,                       \* rc[a]: where actor a is inside RequestComplete
  responses,                \* routers of a search reply still to be requested
  running,                  \* NetDb::Stop has not been called
  dangling                  \* an invalidated iterator was used (undefined)

vars == <<pc, ident, m_RequestedDestinations, m_ExcludedPeers, m_IsExploratory,
          age, m_RequestComplete, outcomes, rc, responses, running, dangling>>

(* "failing" and "failed" are the calls that found no floodfill.            *)
PCs == {"idle", "created", "failing", "failed", "done"}

(* m_CreationTime is 0 until the lookup message is made ("zero"); after it  *)
(* a lookup is "fresh" for 5 seconds, "late" up to 60, "stale" from then on.*)
Ages == {"zero", "fresh", "late", "stale"}

Outcomes == {"router", "nullptr"}

Idle == [at |-> "idle", req |-> None, result |-> "nullptr"]
Progress == [at : {"idle", "found", "called", "cleared"},
             req : Calls \cup {None}, result : Outcomes]

(* The table maps hashes to calls, a request asks floodfills only, and an   *)
(* actor inside RequestComplete holds a request.                            *)
TypeOK ==
  /\ pc \in [Calls -> PCs]
  /\ ident \in [Calls -> Idents \cup {None}]
  /\ m_RequestedDestinations \in [Idents -> Calls \cup {None}]
  /\ m_ExcludedPeers \in [Calls -> SUBSET Floodfills]
  /\ m_IsExploratory \in [Calls -> BOOLEAN]
  /\ age \in [Calls -> Ages]
  /\ m_RequestComplete \in [Calls -> BOOLEAN]
  /\ outcomes \in [Calls -> Seq(Outcomes)]
  /\ rc \in [Actors -> Progress]
  /\ responses \in SUBSET Idents
  /\ running \in BOOLEAN
  /\ dangling \in BOOLEAN

Init ==
  /\ pc = [c \in Calls |-> "idle"]
  /\ ident = [c \in Calls |-> None]
  /\ m_RequestedDestinations = [i \in Idents |-> None]
  /\ m_ExcludedPeers = [c \in Calls |-> {}]
  /\ m_IsExploratory = [c \in Calls |-> FALSE]
  /\ age = [c \in Calls |-> "zero"]
  /\ m_RequestComplete = [c \in Calls |-> FALSE]
  /\ outcomes = [c \in Calls |-> <<>>]
  /\ rc = [a \in Actors |-> Idle]
  /\ responses = {}
  /\ running = TRUE
  /\ dangling = FALSE

-----------------------------------------------------------------------------
(* Helpers                                                                  *)

InTable(c) == ident[c] # None /\ m_RequestedDestinations[ident[c]] = c

(* The NetDb thread is between two messages.  A NetDbCall that is "created" *)
(* or "failing" keeps it busy.                                              *)
NetDbIdle ==
  /\ running
  /\ ~dangling
  /\ rc[NetDbThread].at = "idle"
  /\ \A c \in NetDbCalls : pc[c] \notin {"created", "failing"}

(* The actor that executes call c.                                          *)
ActorOf(c) == IF c \in ClientCalls THEN c ELSE NetDbThread

(* Variant: a destructor that does not call the callback.                   *)
DestroySilently(D, peers, ages) ==
  /\ outcomes' = outcomes
  /\ m_RequestComplete' = [c \in Calls |-> m_RequestComplete[c] /\ c \notin D]
  /\ m_ExcludedPeers' = [c \in Calls |-> IF c \in D THEN {} ELSE peers[c]]
  /\ age' = [c \in Calls |-> IF c \in D THEN "zero" ELSE ages[c]]

(* ~RequestedDestination: a request that loses its last reference calls a   *)
(* callback that is still set with nullptr, and its fields are gone.  D is  *)
(* the set of calls whose objects die in the step, peers and ages are what  *)
(* the fields of the others become.                                         *)
Destroy(D, peers, ages) ==
  /\ outcomes' = [c \in Calls |-> IF c \in D /\ m_RequestComplete[c]
                                  THEN Append(outcomes[c], "nullptr")
                                  ELSE outcomes[c]]
  /\ m_RequestComplete' = [c \in Calls |-> m_RequestComplete[c] /\ c \notin D]
  /\ m_ExcludedPeers' = [c \in Calls |-> IF c \in D THEN {} ELSE peers[c]]
  /\ age' = [c \in Calls |-> IF c \in D THEN "zero" ELSE ages[c]]

(* CreateRequestMessage: the floodfill is excluded from the next tries and  *)
(* the creation time is set.                                                *)
Asked(c, f) == [m_ExcludedPeers EXCEPT ![c] = @ \cup {f}]
Dated(c) == [age EXCEPT ![c] = "fresh"]

CreateRequestMessage(c, f) ==
  /\ m_ExcludedPeers' = Asked(c, f)
  /\ age' = Dated(c)

(* Variant: the result of GetClosestFloodfill is not compared with nullptr. *)
CandidatesUnchecked(c) == (Floodfills \ m_ExcludedPeers[c]) \cup {None}

(* GetClosestFloodfill may return any reachable floodfill not excluded yet. *)
Candidates(c) == Floodfills \ m_ExcludedPeers[c]

-----------------------------------------------------------------------------
(* RequestDestination, first step: CreateRequest.  A second request for a   *)
(* hash that is in the table is not inserted; its object dies on return.    *)
CreateRequest(c, i) ==
  /\ pc[c] = "idle" /\ running /\ ~dangling
  /\ ident' = [ident EXCEPT ![c] = i]
  /\ IF m_RequestedDestinations[i] = None
     THEN /\ m_RequestedDestinations' = [m_RequestedDestinations EXCEPT ![i] = c]
          /\ pc' = [pc EXCEPT ![c] = "created"]
          /\ m_RequestComplete' = [m_RequestComplete EXCEPT ![c] = c \in ClientCalls]
          /\ UNCHANGED outcomes
     ELSE /\ pc' = [pc EXCEPT ![c] = "done"]
          /\ outcomes' = [outcomes EXCEPT ![c] =
                            IF c \in ClientCalls THEN Append(@, "nullptr") ELSE @]
          /\ UNCHANGED <<m_RequestedDestinations, m_RequestComplete>>
  /\ UNCHANGED <<m_ExcludedPeers, m_IsExploratory, age, rc, running, dangling>>

ClientRequest(c, i) ==
  /\ c \in ClientCalls
  /\ CreateRequest(c, i)
  /\ UNCHANGED responses

(* The loop over the routers a search reply names.                          *)
NetDbRequest(c, i) ==
  /\ c \in NetDbCalls
  /\ NetDbIdle
  /\ i \in responses
  /\ responses' = responses \ {i}
  /\ CreateRequest(c, i)

(* RequestDestination, second step: a floodfill is found and the lookup is  *)
(* sent to it.  On return the caller drops its reference: if ManageRequests *)
(* has erased the request in between, the object dies here.                 *)
SendLookup(c) ==
  /\ pc[c] = "created" /\ ~dangling
  /\ \E f \in Candidates(c) :
       Destroy({d \in {c} : ~InTable(d)}, Asked(c, f), Dated(c))
  /\ pc' = [pc EXCEPT ![c] = "done"]
  /\ UNCHANGED <<ident, m_RequestedDestinations, m_IsExploratory, rc, responses,
                 running, dangling>>

(* RequestComplete, first step: find, without the mutex.                    *)
Find(a, i, result) ==
  rc' = [rc EXCEPT ![a] =
           IF m_RequestedDestinations[i] = None THEN Idle
           ELSE [at |-> "found", req |-> m_RequestedDestinations[i],
                 result |-> result]]

(* No floodfill known: RequestComplete (destination, nullptr).              *)
NoFloodfill(c) ==
  /\ pc[c] = "created" /\ ~dangling
  /\ pc' = [pc EXCEPT ![c] = "failing"]
  /\ Find(ActorOf(c), ident[c], "nullptr")
  /\ UNCHANGED <<ident, m_RequestedDestinations, m_ExcludedPeers, m_IsExploratory,
                 age, m_RequestComplete, outcomes, responses, running, dangling>>

(* Success and Fail: the callback runs, then it is reset.  The iterator is  *)
(* dereferenced first.                                                      *)
Callback(a) ==
  /\ rc[a].at = "found" /\ ~dangling
  /\ LET r == rc[a].req IN
     IF ~InTable(r)
     THEN dangling' = TRUE /\ UNCHANGED <<outcomes, rc>>
     ELSE /\ IF m_RequestComplete[r]
             THEN /\ outcomes' = [outcomes EXCEPT ![r] = Append(@, rc[a].result)]
                  /\ rc' = [rc EXCEPT ![a].at = "called"]
             ELSE /\ rc' = [rc EXCEPT ![a].at = "cleared"]
                  /\ UNCHANGED outcomes
          /\ UNCHANGED dangling
  /\ UNCHANGED <<pc, ident, m_RequestedDestinations, m_ExcludedPeers,
                 m_IsExploratory, age, m_RequestComplete, responses, running>>

(* Variant: the callback is called but not reset.                           *)
CallbackLeftSet(a) ==
  /\ rc[a].at = "called" /\ ~dangling
  /\ rc' = [rc EXCEPT ![a].at = "cleared"]
  /\ UNCHANGED <<pc, ident, m_RequestedDestinations, m_ExcludedPeers, age,
                 m_IsExploratory, m_RequestComplete, outcomes, responses,
                 running, dangling>>

ResetCallback(a) ==
  /\ rc[a].at = "called" /\ ~dangling
  /\ m_RequestComplete' = [m_RequestComplete EXCEPT ![rc[a].req] = FALSE]
  /\ rc' = [rc EXCEPT ![a].at = "cleared"]
  /\ UNCHANGED <<pc, ident, m_RequestedDestinations, m_ExcludedPeers,
                 m_IsExploratory, age, outcomes, responses, running, dangling>>

(* RequestComplete, last step: erase the iterator under the mutex.  Erasing *)
(* one that ManageRequests or another thread erased first is undefined.     *)
Erase(a) ==
  /\ rc[a].at = "cleared" /\ ~dangling
  /\ LET r == rc[a].req IN
     IF ~InTable(r)
     THEN dangling' = TRUE /\ UNCHANGED <<m_RequestedDestinations, outcomes,
                                          m_RequestComplete, m_ExcludedPeers,
                                          age, rc>>
     ELSE /\ m_RequestedDestinations' =
               [m_RequestedDestinations EXCEPT ![ident[r]] = None]
          /\ Destroy({d \in {r} : pc[d] \notin {"created", "failing"}},
                     m_ExcludedPeers, age)
          /\ rc' = [rc EXCEPT ![a] = Idle]
          /\ UNCHANGED dangling
  /\ UNCHANGED <<pc, ident, m_IsExploratory, responses, running>>

(* A failing call returns once its RequestComplete is through.              *)
FailReturn(c) ==
  /\ pc[c] = "failing" /\ rc[ActorOf(c)].at = "idle" /\ ~dangling
  /\ pc' = [pc EXCEPT ![c] = "failed"]
  /\ Destroy({d \in {c} : ~InTable(d)}, m_ExcludedPeers, age)
  /\ UNCHANGED <<ident, m_RequestedDestinations, m_IsExploratory, rc, responses,
                 running, dangling>>

-----------------------------------------------------------------------------
(* The NetDb thread                                                         *)

(* A DatabaseStore with a RouterInfo: AddRouterInfo completes the request.  *)
AddRouterInfo(i) ==
  /\ NetDbIdle /\ responses = {}
  /\ m_RequestedDestinations[i] # None
  /\ Find(NetDbThread, i, "router")
  /\ UNCHANGED <<pc, ident, m_RequestedDestinations, m_ExcludedPeers,
                 m_IsExploratory, age, m_RequestComplete, outcomes, responses,
                 running, dangling>>

FreeNetDbCalls == {c \in NetDbCalls : pc[c] = "idle"}

(* A DatabaseSearchReply for i that names the routers in R (all but the     *)
(* recently seen ones are requested).  A non-exploratory request goes on to *)
(* the next floodfill if there are tunnels, fewer than MaxAttempts were     *)
(* asked and one is left; otherwise it is completed with nullptr.           *)
HandleDatabaseSearchReply(i) ==
  /\ NetDbIdle /\ responses = {}
  /\ \E R \in SUBSET Idents :
       /\ Cardinality(R) <= Cardinality(FreeNetDbCalls)   \* bound of the model
       /\ responses' = R
  /\ LET r == m_RequestedDestinations[i] IN
     \/ r = None /\ UNCHANGED <<m_ExcludedPeers, age, rc>>
     \/ /\ r # None /\ ~m_IsExploratory[r]
        /\ Cardinality(m_ExcludedPeers[r]) < MaxAttempts
        /\ \E f \in Candidates(r) : CreateRequestMessage(r, f)
        /\ UNCHANGED rc
     \/ /\ r # None
        /\ Find(NetDbThread, i, "nullptr")
        /\ UNCHANGED <<m_ExcludedPeers, age>>
  /\ UNCHANGED <<pc, ident, m_RequestedDestinations, m_IsExploratory,
                 m_RequestComplete, outcomes, running, dangling>>

(* One turn of Explore's loop: a random hash is looked up at a floodfill    *)
(* that this round has not used yet.  Without one, the request that was     *)
(* inserted is erased again in the same turn, which leaves nothing behind.  *)
Explore(c, i) ==
  /\ NetDbIdle /\ responses = {}
  /\ c \in NetDbCalls /\ pc[c] = "idle"
  /\ m_RequestedDestinations[i] = None
  /\ ident' = [ident EXCEPT ![c] = i]
  /\ m_RequestedDestinations' = [m_RequestedDestinations EXCEPT ![i] = c]
  /\ m_IsExploratory' = [m_IsExploratory EXCEPT ![c] = TRUE]
  /\ \E f \in Candidates(c) : CreateRequestMessage(c, f)
  /\ pc' = [pc EXCEPT ![c] = "done"]
  /\ UNCHANGED <<m_RequestComplete, outcomes, rc, responses, running, dangling>>

(* ManageRequests' verdict on one request: keep it, try the next floodfill, *)
(* or erase it.  Sending fails when there are no tunnels or no floodfill is *)
(* left, which erases it too.                                               *)
Retriable(c) ==
  /\ age[c] = "late"
  /\ ~m_IsExploratory[c]
  /\ Cardinality(m_ExcludedPeers[c]) < MaxAttempts

(* Variant: the comparison with one minute is the wrong way round.          *)
ObsoleteInverted(c) == age[c] # "stale"

Obsolete(c) == age[c] \in {"zero", "stale"}

Requested == {m_RequestedDestinations[i] : i \in Idents} \ {None}
Late == {c \in Requested : Retriable(c)}
GivenUp == {c \in Requested : Obsolete(c) \/ (age[c] = "late" /\ ~Retriable(c))}

(* Variant: only a failed retry erases a request.                           *)
ErasedUnsent(next) == {c \in Late : next[c] = None}

(* next[c] is the floodfill found for the retry of c, None if there is none.*)
Erased(next) == GivenUp \cup {c \in Late : next[c] = None}

ManageRequests ==
  /\ NetDbIdle /\ responses = {}
  /\ \E next \in [Late -> Floodfills \cup {None}] :
       LET retried == Late \ Erased(next) IN
       /\ \A c \in retried : next[c] \in Candidates(c)
       /\ m_RequestedDestinations' = [i \in Idents |->
            IF m_RequestedDestinations[i] \in Erased(next) THEN None
            ELSE m_RequestedDestinations[i]]
       /\ Destroy({c \in Erased(next) : pc[c] \notin {"created", "failing"}},
            [c \in Calls |-> m_ExcludedPeers[c] \cup
                               IF c \in retried THEN {next[c]} ELSE {}],
            [c \in Calls |-> IF c \in retried THEN "fresh" ELSE age[c]])
  /\ UNCHANGED <<pc, ident, m_IsExploratory, rc, responses, running, dangling>>

(* Seconds pass since the last lookup message of request c.                 *)
Elapse(c) ==
  /\ InTable(c) /\ ~dangling
  /\ age[c] \in {"fresh", "late"}
  /\ age' = [age EXCEPT ![c] = IF @ = "fresh" THEN "late" ELSE "stale"]
  /\ UNCHANGED <<pc, ident, m_RequestedDestinations, m_ExcludedPeers,
                 m_IsExploratory, m_RequestComplete, outcomes, rc, responses,
                 running, dangling>>

(* NetDb::Stop.  The daemon stops the tunnels, the transports and the       *)
(* clients before it, so no call is under way; the NetDb thread is joined   *)
(* before the table is cleared.                                             *)
Stop ==
  /\ NetDbIdle /\ responses = {}
  /\ \A c \in Calls : pc[c] \notin {"created", "failing"}
  /\ running' = FALSE
  /\ m_RequestedDestinations' = [i \in Idents |-> None]
  /\ Destroy({c \in Calls : InTable(c)}, m_ExcludedPeers, age)
  /\ UNCHANGED <<pc, ident, m_IsExploratory, rc, responses, dangling>>

CallStep(c) == SendLookup(c) \/ NoFloodfill(c) \/ FailReturn(c)
CompleteStep(a) == Callback(a) \/ ResetCallback(a) \/ Erase(a)

Next ==
  \/ \E c \in Calls, i \in Idents :
       ClientRequest(c, i) \/ NetDbRequest(c, i) \/ Explore(c, i)
  \/ \E c \in Calls : CallStep(c) \/ Elapse(c)
  \/ \E a \in Actors : CompleteStep(a)
  \/ \E i \in Idents : AddRouterInfo(i) \/ HandleDatabaseSearchReply(i)
  \/ ManageRequests
  \/ Stop

(* Every thread goes on, time passes, and the NetDb thread, which wakes up  *)
(* at least every 15 seconds, runs ManageRequests again and again.          *)
Fairness ==
  /\ \A c \in Calls : WF_vars(CallStep(c)) /\ WF_vars(Elapse(c))
  /\ \A a \in Actors : WF_vars(CompleteStep(a))
  /\ \A c \in NetDbCalls : WF_vars(\E i \in Idents : NetDbRequest(c, i))
  /\ SF_vars(ManageRequests)

Spec == Init /\ [][Next]_vars /\ Fairness
-----------------------------------------------------------------------------
(* Properties                                                               *)

(* No lost callback.  A client call that has returned and whose request is  *)
(* no longer in the table has had its callback run: whichever of            *)
(* RequestComplete, ManageRequests, Stop or the destructor removed it, and  *)
(* in whatever order the caller's own reference went away.                  *)
NoLostCallback ==
  \A c \in ClientCalls :
    /\ pc[c] \in {"done", "failed"}
    /\ ~InTable(c)
    /\ ~dangling
    => outcomes[c] # <<>>

(* At most one callback per request.  The check-then-call in Success and    *)
(* Fail is not atomic, but only a RequestDestination that found no          *)
(* floodfill completes a request off the NetDb thread: while none has, no   *)
(* callback runs twice and no erased iterator is used.                      *)
SingleCompletion ==
  (\A d \in ClientCalls : pc[d] \notin {"failing", "failed"})
    => ~dangling /\ \A c \in Calls : Len(outcomes[c]) <= 1

(* A request is only given up for a reason: while its lookup is less than   *)
(* five seconds old, nothing but an answer (RequestComplete) or Stop takes  *)
(* it out of the table.                                                     *)
FreshKept ==
  [][\A c \in Calls :
       (InTable(c) /\ age[c] = "fresh" /\ ~InTable(c)')
         => (\E a \in Actors : rc[a].req = c) \/ ~running']_vars

(* ManageRequests deletes obsolete requests only: one whose lookup message  *)
(* has not even been made is not obsolete.  (NetDbRequests.cpp:108 "request *)
(* is worthless after 1 minute"; m_CreationTime is still 0 then.)           *)
NewKept ==
  [][\A c \in Calls :
       (InTable(c) /\ pc[c] = "created" /\ age[c] = "zero" /\ ~InTable(c)')
         => \E a \in Actors : rc[a].req = c]_vars

(* Every client call is answered: its callback runs with the router or with *)
(* nullptr, whatever replies are lost (unless undefined behaviour struck).  *)
EventuallyAnswered ==
  \A c \in ClientCalls : pc[c] # "idle" ~> (outcomes[c] # <<>> \/ dangling)
=============================================================================
