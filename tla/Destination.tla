----------------------------- MODULE Destination -----------------------------
(* A client destination (src/core/Destination.cpp, LeaseSet.cpp,            *)
(* Datagram.cpp): requests for remote LeaseSets over several floodfills     *)
(* with timeouts and suggestions, the cache of LeaseSets, the streams and   *)
(* datagrams that wait for them, publication of the own LeaseSet with       *)
(* confirmation and retries, start and stop.  Clients call from their own   *)
(* threads, the pool from the tunnels thread; the rest runs on the          *)
(* destination's thread in the order it was posted.  Time passes in steps   *)
(* of LEASESET_REQUEST_TIMEOUT, which is PUBLISH_CONFIRMATION_TIMEOUT too.  *)
EXTENDS Naturals, Sequences, FiniteSets, Functions

CONSTANTS
  Dests,            \* remote destinations
  Floodfills,       \* floodfills NetDb may have
  Unknown,          \* a router NetDb does not have
  Callers,          \* calls of CreateStream and SendDatagramTo
  Wants,            \* the destination each of them is for
  MaxFloodfills,    \* MAX_NUM_FLOODFILLS_PER_REQUEST
  MaxTimeouts,      \* MAX_LEASESET_REQUEST_TIMEOUT in steps
  MaxReplies,       \* bound: answers from floodfills
  MaxVersions,      \* bound: versions of the own LeaseSet
  NoOne

ASSUME DestinationAssumption ==
  /\ Unknown \notin Floodfills /\ Wants \in [Callers -> Dests] /\ NoOne \notin Callers
  /\ MaxFloodfills \in Nat /\ MaxTimeouts \in Nat \ {0}

VARIABLES
  running,    \* m_IsRunning
  ready,      \* the pool has tunnels: IsReady, and an inbound and outbound tunnel to use
  tasks,      \* handlers posted to m_Service: the callers of RequestDestination
  requests,   \* m_LeaseSetRequests
  remote,     \* m_RemoteLeaseSets: "none", "valid" or "expired"
  inNetDb,    \* destinations whose LeaseSet NetDb has
  floodfills, \* floodfills NetDb has
  calls,      \* what became of each call: idle, waiting, found or failed
  answers,    \* how often each call's callback was called
  asked,      \* lookups floodfills have not answered
  replies,    \* answers so far
  publish,    \* token, timer, excluded floodfills and version of the LeaseSet
  stored      \* <<floodfill, token>>: stores whose confirmation is on its way

destVars == <<running, ready, tasks, requests, remote, inNetDb, floodfills, calls, answers, asked, replies, publish, stored>>
requestVars == <<tasks, requests, remote, calls, answers, asked, replies>>

NoRequest == [caller |-> NoOne, excluded |-> {}, age |-> 0, total |-> 0, timer |-> FALSE]

DestInit ==
  /\ running = FALSE
  /\ ready = FALSE
  /\ tasks = <<>>
  /\ requests = [d \in Dests |-> NoRequest]
  /\ remote = [d \in Dests |-> "none"]
  /\ inNetDb \in SUBSET Dests
  /\ floodfills \in {{}, Floodfills}
  /\ calls = [c \in Callers |-> "idle"]
  /\ answers = [c \in Callers |-> 0]
  /\ asked = {}
  /\ replies = 0
  /\ publish = [token |-> 0, timer |-> "off", excluded |-> {}, version |-> 0, last |-> 0]
  /\ stored = {}

Pending(d) == requests[d] # NoRequest

(* The callback of call c: the stream is created or the datagram sent, or   *)
(* the caller is told that there is no LeaseSet.                            *)
Complete(c, found) ==
  /\ calls' = [calls EXCEPT ![c] = IF found THEN "found" ELSE "failed"]
  /\ answers' = [answers EXCEPT ![c] = @ + 1]

----------------------------------------------------------------------------
(* Start and Stop.  A stopped service runs nothing that was posted.         *)
StartDestination ==
  /\ ~running /\ tasks = <<>>
  /\ running' = TRUE
  /\ UNCHANGED <<ready, tasks, requests, remote, inNetDb, floodfills, calls, answers, asked, replies, publish, stored>>

(* bound: a destination is stopped when its calls are over or waiting.      *)
StopDestination ==
  /\ running /\ \A c \in Callers : calls[c] # "idle"
  /\ running' = FALSE
  /\ ready' = FALSE
  /\ UNCHANGED <<requestVars, inNetDb, floodfills, publish, stored>>

(* Tunnels come and go.                                                     *)
PoolChanges ==
  /\ running
  /\ ready' = ~ready
  /\ UNCHANGED <<running, requestVars, inNetDb, floodfills, publish, stored>>

----------------------------------------------------------------------------
(* An expired LeaseSet in the cache hides the one NetDb may have.           *)
FindLeaseSet(d) == IF remote[d] = "none" /\ d \in inNetDb THEN "valid" ELSE remote[d]

(* FindLeaseSet, then RequestDestination: CreateStream and SendDatagramTo.  *)
CreateStream(c) ==
  LET d == Wants[c]
      ls == FindLeaseSet(d)
  IN /\ running /\ calls[c] = "idle"
     /\ remote' = [remote EXCEPT ![d] = ls]
     /\ \/ /\ ls = "valid"
           /\ Complete(c, TRUE)
           /\ UNCHANGED tasks
        \/ /\ ls # "valid" /\ ~ready
           /\ Complete(c, FALSE)
           /\ UNCHANGED tasks
        \/ /\ ls # "valid" /\ ready
           /\ tasks' = Append(tasks, c)
           /\ calls' = [calls EXCEPT ![c] = "waiting"]
           /\ UNCHANGED answers
     /\ UNCHANGED <<running, ready, requests, inNetDb, floodfills, asked, replies, publish, stored>>

(* Variant: the timer runs for the first floodfill only.                    *)
SentRequestUntimed(r, f) == [r EXCEPT !.excluded = @ \cup {f}, !.age = 0, !.timer = (r.excluded = {})]
(* SendLeaseSetRequest to floodfill f for the request r of d; it fails when *)
(* there is no tunnel.  The request's time starts anew.                     *)
SentRequest(r, f) == [r EXCEPT !.excluded = @ \cup {f}, !.age = 0, !.timer = TRUE]

GetClosestFloodfill(excluded) == floodfills \ excluded

(* The request of d is over without a LeaseSet.                             *)
FailedRequest(d) == [requests EXCEPT ![d] = NoRequest]

(* RequestLeaseSet, posted for call c.  Without a floodfill nobody is told. *)
RequestLeaseSet ==
  LET c == Head(tasks)
      d == Wants[c]
  IN /\ running /\ tasks # <<>>
     /\ tasks' = Tail(tasks)
     /\ \/ /\ floodfills = {}
           /\ UNCHANGED <<requests, calls, answers, asked>>
        \/ /\ floodfills # {} /\ Pending(d)                      \* duplicate
           /\ Complete(c, FALSE)
           /\ UNCHANGED <<requests, asked>>
        \/ /\ floodfills # {} /\ ~Pending(d) /\ ~ready
           /\ Complete(c, FALSE)
           /\ UNCHANGED <<requests, asked>>
        \/ /\ ~Pending(d) /\ ready
           /\ \E f \in GetClosestFloodfill({}) :
                /\ requests' = [requests EXCEPT ![d] = SentRequest([NoRequest EXCEPT !.caller = c], f)]
                /\ asked' = asked \cup {<<d, f>>}
           /\ UNCHANGED <<calls, answers>>
     /\ UNCHANGED <<running, ready, remote, inNetDb, floodfills, replies, publish, stored>>

(* The LeaseSet object after LeaseSet::Update with what was stored.         *)
Updated(valid) == IF valid THEN "valid" ELSE "none"

(* HandleDatabaseStoreMessage: a LeaseSet that is updated to an invalid one *)
(* is taken from the cache; a request is answered in both cases.            *)
HandleDatabaseStoreMessage(d, f, valid) ==
  /\ running /\ <<d, f>> \in asked /\ replies < MaxReplies
  /\ asked' = asked \ {<<d, f>>}
  /\ replies' = replies + 1
  /\ remote' = [remote EXCEPT ![d] = Updated(valid)]
  /\ IF Pending(d)
     THEN /\ Complete(requests[d].caller, valid)
          /\ requests' = [requests EXCEPT ![d] = NoRequest]
     ELSE UNCHANGED <<requests, calls, answers>>
  /\ UNCHANGED <<running, ready, tasks, inNetDb, floodfills, publish, stored>>

(* HandleDatabaseSearchReplyMessage with suggested routers.  Each one NetDb *)
(* has is asked, asked before or not; the limit is looked at once.          *)
HandleDatabaseSearchReplyMessage(d, f, suggested) ==
  LET known == suggested \cap floodfills
      next == IF ready /\ Cardinality(requests[d].excluded) < MaxFloodfills THEN known ELSE {}
  IN /\ running /\ <<d, f>> \in asked /\ replies < MaxReplies
     /\ replies' = replies + 1
     /\ IF ~Pending(d)
        THEN /\ asked' = asked \ {<<d, f>>}
             /\ UNCHANGED <<requests, calls, answers>>
        ELSE IF next # {}
        THEN /\ requests' = [requests EXCEPT ![d] = [SentRequest(@, f) EXCEPT !.excluded = requests[d].excluded \cup next]]
             /\ asked' = (asked \ {<<d, f>>}) \cup {<<d, x>> : x \in next}
             /\ UNCHANGED <<calls, answers>>
        ELSE /\ Complete(requests[d].caller, FALSE)
             /\ requests' = FailedRequest(d)
             /\ asked' = asked \ {<<d, f>>}
     /\ UNCHANGED <<running, ready, tasks, remote, inNetDb, floodfills, publish, stored>>

LookupLost(d, f) ==
  /\ <<d, f>> \in asked
  /\ asked' = asked \ {<<d, f>>}
  /\ UNCHANGED <<running, ready, tasks, requests, remote, inNetDb, floodfills, calls, answers, replies, publish, stored>>

(* HandleRequestTimoutTimer: the next floodfill, while requestTime is not   *)
(* too long ago and there is one.                                           *)
HandleRequestTimoutTimer(d) ==
  /\ running /\ Pending(d) /\ requests[d].timer /\ requests[d].age > 0
  /\ \/ /\ requests[d].age < MaxTimeouts /\ ready
        /\ \E f \in GetClosestFloodfill(requests[d].excluded) :
             /\ requests' = [requests EXCEPT ![d] = SentRequest(@, f)]
             /\ asked' = asked \cup {<<d, f>>}
        /\ UNCHANGED <<calls, answers>>
     \/ /\ requests[d].age >= MaxTimeouts \/ ~ready \/ GetClosestFloodfill(requests[d].excluded) = {}
        /\ Complete(requests[d].caller, FALSE)
        /\ requests' = FailedRequest(d)
        /\ UNCHANGED asked
  /\ UNCHANGED <<running, ready, tasks, remote, inNetDb, floodfills, replies, publish, stored>>

(* All leases of a remote LeaseSet end, and HandleCleanupTimer drops it.    *)
LeasesExpire(d) ==
  /\ remote[d] = "valid"
  /\ remote' = [remote EXCEPT ![d] = "expired"]
  /\ inNetDb' = inNetDb \ {d}
  /\ UNCHANGED <<running, ready, tasks, requests, floodfills, calls, answers, asked, replies, publish, stored>>

CleanupRemoteLeaseSets ==
  /\ running /\ \E d \in Dests : remote[d] = "expired"
  /\ remote' = [d \in Dests |-> IF remote[d] = "expired" THEN "none" ELSE remote[d]]
  /\ UNCHANGED <<running, ready, tasks, requests, inNetDb, floodfills, calls, answers, asked, replies, publish, stored>>

----------------------------------------------------------------------------
(* Publication.  Publish of the code with p the members after the handler's *)
(* own assignments; tokens are numbered.                                    *)

Published(p, f) ==
  [p EXCEPT !.token = p.last + 1, !.last = p.last + 1, !.timer = "on", !.excluded = @ \cup {f}]

PublishBlocked(p) == p.version = 0 \/ p.token # 0 \/ ~ready

Publish(p) ==
  \/ /\ PublishBlocked(p)
     /\ publish' = p
     /\ UNCHANGED stored
  \/ /\ ~PublishBlocked(p) /\ floodfills \ p.excluded = {}
     /\ publish' = [p EXCEPT !.excluded = {}]
     /\ UNCHANGED stored
  \/ /\ ~PublishBlocked(p) /\ p.last < MaxVersions + 1
     /\ \E f \in floodfills \ p.excluded :
          /\ publish' = Published(p, f)
          /\ \/ stored' = stored \cup {<<f, p.last + 1>>}
             \/ UNCHANGED stored                                      \* lost

(* SetLeaseSetUpdated, from the tunnels thread.                             *)
UpdateLeaseSet ==
  /\ running /\ publish.version < MaxVersions
  /\ Publish([publish EXCEPT !.version = @ + 1])
  /\ UNCHANGED <<running, ready, requestVars, inNetDb, floodfills>>

(* HandleDeliveryStatusMessage: the timer is not cancelled.                 *)
PublishConfirmed(f, t) ==
  /\ running /\ <<f, t>> \in stored
  /\ stored' = stored \ {<<f, t>>}
  /\ publish' = IF t = publish.token THEN [publish EXCEPT !.excluded = {}, !.token = 0] ELSE publish
  /\ UNCHANGED <<running, ready, requestVars, inNetDb, floodfills>>

HandlePublishConfirmationTimer ==
  /\ running /\ publish.timer = "due"
  /\ \/ /\ publish.token = 0
        /\ publish' = [publish EXCEPT !.timer = "off"]
        /\ UNCHANGED stored
     \/ /\ publish.token # 0
        /\ Publish([publish EXCEPT !.token = 0, !.timer = "off"])
  /\ UNCHANGED <<running, ready, requestVars, inNetDb, floodfills>>

(* A step of time; timers that are due run first.                           *)
DestTick ==
  /\ publish.timer # "due" /\ \A d \in Dests : ~(Pending(d) /\ requests[d].timer /\ requests[d].age > 0)
  /\ \E d \in Dests : Pending(d) \/ publish.timer = "on"
  /\ requests' = [d \in Dests |-> IF Pending(d)
       THEN [requests[d] EXCEPT !.age = @ + 1, !.total = IF @ > MaxTimeouts THEN @ ELSE @ + 1] ELSE NoRequest]
  /\ publish' = IF publish.timer = "on" THEN [publish EXCEPT !.timer = "due"] ELSE publish
  /\ UNCHANGED <<running, ready, tasks, remote, inNetDb, floodfills, calls, answers, asked, replies, stored>>

DestNext ==
  \/ StartDestination \/ StopDestination \/ PoolChanges
  \/ \E c \in Callers : CreateStream(c)
  \/ RequestLeaseSet
  \/ \E d \in Dests, f \in Floodfills :
       \/ \E valid \in BOOLEAN : HandleDatabaseStoreMessage(d, f, valid)
       \/ \E s \in SUBSET (Floodfills \cup {Unknown}) : HandleDatabaseSearchReplyMessage(d, f, s)
       \/ LookupLost(d, f)
  \/ \E d \in Dests : HandleRequestTimoutTimer(d) \/ LeasesExpire(d)
  \/ CleanupRemoteLeaseSets
  \/ UpdateLeaseSet \/ HandlePublishConfirmationTimer
  \/ \E f \in Floodfills, t \in 1..(MaxVersions + 1) : PublishConfirmed(f, t)
  \/ DestTick

DestSpec == DestInit /\ [][DestNext]_destVars

----------------------------------------------------------------------------
(* A call's callback is called at most once, and a call that waits is       *)
(* posted or is the caller of exactly one request with its timer running:   *)
(* nothing loses it on the way, as long as there is a floodfill.            *)
CallbackOnce ==
  \A c \in Callers :
    /\ answers[c] <= 1
    /\ calls[c] = "waiting" =>
         \/ c \in Range(tasks)
         \/ requests[Wants[c]].caller = c /\ requests[Wants[c]].timer
         \/ floodfills = {}

(* A request is over after MAX_LEASESET_REQUEST_TIMEOUT, when it "was not   *)
(* found within" that time.  The code does not keep this.                   *)
RequestInTime == \A d \in Dests : Pending(d) => requests[d].total <= MaxTimeouts
=============================================================================
