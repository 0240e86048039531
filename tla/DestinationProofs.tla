-------------------------- MODULE DestinationProofs --------------------------
(***************************************************************************)
(* A client destination, for any number of callers, destinations and        *)
(* floodfills: the callback of a call runs at most once, and a call that    *)
(* waits is on its way to an answer as long as there is a floodfill.  Its   *)
(* garlic routing, for any timeouts and numbers of tags and messages: a     *)
(* message under a tag can be decrypted in time.                            *)
(***************************************************************************)
EXTENDS Destination, Garlic, SequenceTheorems, WellFoundedInduction, TLAPS

-----------------------------------------------------------------------------
(* The calls of a destination.                                              *)

Routers == Floodfills \cup {Unknown}
Request == [caller : Callers \cup {NoOne}, excluded : SUBSET Routers, age : Nat, total : Nat,
            timer : BOOLEAN]
Outcomes == {"idle", "waiting", "found", "failed"}

DestType ==
  /\ tasks \in Seq(Callers)
  /\ requests \in [Dests -> Request]
  /\ calls \in [Callers -> Outcomes]
  /\ answers \in [Callers -> Nat]
  /\ floodfills \subseteq Floodfills

Posted(c) == \E k \in DOMAIN tasks : tasks[k] = c

(* A call that is posted is so once and has no request; a request belongs   *)
(* to a call that waits for its destination, and its timer runs; a call was *)
(* answered once when it is over and not before; one that waits is posted   *)
(* or has the request.                                                      *)
PostedOnce ==
  /\ \A j, k \in DOMAIN tasks : tasks[j] = tasks[k] => j = k
  /\ \A c \in Callers : Posted(c) => calls[c] = "waiting"
RequestOwned ==
  \A d \in Dests : requests[d] # NoRequest =>
    LET c == requests[d].caller
    IN /\ c \in Callers /\ Wants[c] = d /\ calls[c] = "waiting"
       /\ ~Posted(c) /\ requests[d].timer = TRUE
AnsweredOnce ==
  \A c \in Callers : answers[c] = IF calls[c] \in {"idle", "waiting"} THEN 0 ELSE 1
WaitsForSome ==
  \A c \in Callers :
    calls[c] = "waiting" => Posted(c) \/ requests[Wants[c]].caller = c \/ floodfills = {}

DestInv == DestType /\ PostedOnce /\ RequestOwned /\ AnsweredOnce /\ WaitsForSome

LEMMA RequestFacts ==
  /\ NoRequest \in Request /\ NoRequest.caller = NoOne /\ NoOne \notin Callers
  /\ \A c \in Callers : Wants[c] \in Dests
  BY DestinationAssumption DEF NoRequest, Request, Routers

(* What sending a request does to it.                                       *)
LEMMA SentFacts ==
  ASSUME NEW r \in Request, NEW f \in Routers
  PROVE  /\ SentRequest(r, f) \in Request
         /\ SentRequest(r, f).caller = r.caller /\ SentRequest(r, f).timer = TRUE
  BY DEF SentRequest, Request

(* A request that is sent again, with whatever floodfills, stays its        *)
(* caller's.                                                                *)
LEMMA ResentKeeps ==
  ASSUME DestInv, NEW d \in Dests, requests[d] # NoRequest,
         NEW r \in Request, r.caller = requests[d].caller, r.timer = TRUE,
         requests' = [requests EXCEPT ![d] = r],
         UNCHANGED <<tasks, calls, answers, floodfills>>
  PROVE  DestInv'
<1>1. /\ requests' \in [Dests -> Request] /\ requests'[d] = r
      /\ \A e \in Dests : e # d => requests'[e] = requests[e]
  BY DEF DestInv, DestType
<1>2. DestType' /\ PostedOnce' /\ AnsweredOnce'
  BY <1>1 DEF DestInv, DestType, PostedOnce, Posted, AnsweredOnce
<1>3. RequestOwned'
  BY <1>1 DEF DestInv, RequestOwned, Posted
<1>4. WaitsForSome'
  <2>1. \A e \in Dests : requests'[e].caller = requests[e].caller
    BY <1>1
  <2> QED
    BY <2>1, RequestFacts DEF DestInv, WaitsForSome, Posted
<1> QED
  BY <1>2, <1>3, <1>4 DEF DestInv

(* A request that is over answers its caller.                               *)
LEMMA OverKeeps ==
  ASSUME DestInv, NEW d \in Dests, requests[d] # NoRequest, NEW found \in BOOLEAN,
         Complete(requests[d].caller, found),
         requests' = [requests EXCEPT ![d] = NoRequest],
         UNCHANGED <<tasks, floodfills>>
  PROVE  DestInv'
<1>1. PICK c : c = requests[d].caller
  OBVIOUS
<1>2. c \in Callers /\ Wants[c] = d /\ calls[c] = "waiting" /\ ~Posted(c)
  BY <1>1 DEF DestInv, RequestOwned
<1>3. /\ requests' \in [Dests -> Request] /\ requests'[d] = NoRequest
      /\ \A e \in Dests : e # d => requests'[e] = requests[e]
  BY RequestFacts DEF DestInv, DestType
<1>4. answers[c] = 0
  BY <1>2 DEF DestInv, AnsweredOnce
<1>5. /\ calls' \in [Callers -> Outcomes] /\ calls'[c] \in {"found", "failed"}
      /\ \A b \in Callers : b # c => calls'[b] = calls[b]
  BY <1>1, <1>2, Zenon DEF Complete, DestInv, DestType, Outcomes
<1>6. /\ answers' \in [Callers -> Nat] /\ answers'[c] = 1
      /\ \A b \in Callers : b # c => answers'[b] = answers[b]
  BY <1>1, <1>2, <1>4 DEF Complete, DestInv, DestType
<1>7. DestType'
  BY <1>3, <1>5, <1>6 DEF DestInv, DestType
<1>8. PostedOnce'
  BY <1>2, <1>5 DEF DestInv, PostedOnce, Posted
<1>9. AnsweredOnce'
  BY <1>5, <1>6 DEF DestInv, AnsweredOnce
<1>a. \A b : Posted(b)' <=> Posted(b)
  BY DEF Posted
<1>10. ASSUME NEW e \in Dests, requests'[e] # NoRequest, NEW b, b = requests'[e].caller
       PROVE  /\ b \in Callers /\ Wants[b] = e /\ calls'[b] = "waiting"
              /\ ~Posted(b)' /\ requests'[e].timer = TRUE
  <2>1. e # d /\ requests'[e] = requests[e]
    BY <1>3, <1>10
  <2>2. b = requests[e].caller
    BY <1>10, <2>1
  <2>3. b \in Callers /\ Wants[b] = e /\ calls[b] = "waiting" /\ ~Posted(b) /\ requests[e].timer = TRUE
    BY <1>10, <2>1, <2>2 DEF DestInv, RequestOwned
  <2>4. calls'[b] = "waiting"
    BY <1>2, <1>5, <2>1, <2>3
  <2> QED
    BY <1>a, <2>1, <2>3, <2>4
<1>11. RequestOwned'
  BY <1>10 DEF RequestOwned
<1>12. WaitsForSome'
  <2>1. ASSUME NEW b \in Callers, calls'[b] = "waiting"
        PROVE  Posted(b)' \/ requests'[Wants[b]].caller = b \/ floodfills' = {}
    <3>1. b # c /\ calls[b] = "waiting"
      BY <1>5, <2>1
    <3>2. Posted(b) \/ requests[Wants[b]].caller = b \/ floodfills = {}
      BY <3>1 DEF DestInv, WaitsForSome
    <3>3. requests[Wants[b]].caller = b => Wants[b] # d
      BY <1>1, <3>1
    <3> QED
      BY <1>3, <3>2, <3>3, RequestFacts DEF Posted
  <2> QED
    BY <2>1 DEF WaitsForSome
<1> QED
  BY <1>7, <1>8, <1>9, <1>11, <1>12 DEF DestInv

LEMMA DestUnchanged ==
  ASSUME DestInv, UNCHANGED <<tasks, requests, calls, answers, floodfills>>
  PROVE  DestInv'
  BY DEF DestInv, DestType, PostedOnce, RequestOwned, AnsweredOnce, WaitsForSome, Posted

LEMMA CreateStreamStep ==
  ASSUME DestInv, NEW c \in Callers, CreateStream(c)
  PROVE  DestInv'
<1>0. calls[c] = "idle" /\ answers[c] = 0 /\ UNCHANGED <<requests, floodfills>>
  BY DEF CreateStream, DestInv, AnsweredOnce
<1>1. \A d \in Dests : requests[d] # NoRequest => requests[d].caller # c
  BY <1>0 DEF DestInv, RequestOwned
<1>2. ~Posted(c)
  BY <1>0 DEF DestInv, PostedOnce
<1>3. ASSUME NEW found \in BOOLEAN, Complete(c, found), UNCHANGED tasks
      PROVE  DestInv'
  <2>1. /\ calls' \in [Callers -> Outcomes] /\ calls'[c] \in {"found", "failed"}
        /\ \A b \in Callers : b # c => calls'[b] = calls[b]
    BY <1>3, Zenon DEF Complete, DestInv, DestType, Outcomes
  <2>2. /\ answers' \in [Callers -> Nat] /\ answers'[c] = 1
        /\ \A b \in Callers : b # c => answers'[b] = answers[b]
    BY <1>0, <1>3 DEF Complete, DestInv, DestType
  <2>3. DestType' /\ AnsweredOnce'
    BY <1>0, <1>3, <2>1, <2>2 DEF DestInv, DestType, AnsweredOnce
  <2>4. PostedOnce'
    BY <1>2, <1>3, <2>1 DEF DestInv, PostedOnce, Posted
  <2>5. RequestOwned'
    BY <1>0, <1>1, <1>3, <2>1 DEF DestInv, RequestOwned, Posted
  <2>6. WaitsForSome'
    BY <1>0, <1>3, <2>1 DEF DestInv, WaitsForSome, Posted
  <2> QED
    BY <2>3, <2>4, <2>5, <2>6 DEF DestInv
<1>4. CASE /\ tasks' = Append(tasks, c) /\ calls' = [calls EXCEPT ![c] = "waiting"]
           /\ UNCHANGED answers
  <2>1. /\ calls' \in [Callers -> Outcomes] /\ calls'[c] = "waiting"
        /\ \A b \in Callers : b # c => calls'[b] = calls[b]
    BY <1>4 DEF DestInv, DestType, Outcomes
  <2>2. tasks \in Seq(Callers) /\ Len(tasks) \in Nat
    BY LenProperties DEF DestInv, DestType
  <2>3. /\ tasks' \in Seq(Callers) /\ Len(tasks') = Len(tasks) + 1
        /\ tasks'[Len(tasks) + 1] = c /\ \A k \in 1 .. Len(tasks) : tasks'[k] = tasks[k]
    BY <1>4, <2>2, AppendProperties
  <2>4. DOMAIN tasks = 1 .. Len(tasks) /\ DOMAIN tasks' = 1 .. (Len(tasks) + 1)
    BY <2>2, <2>3
  <2>5. \A b : Posted(b)' <=> Posted(b) \/ b = c
    BY <2>2, <2>3, <2>4 DEF Posted
  <2>6. DestType' /\ AnsweredOnce'
    BY <1>0, <1>4, <2>1, <2>3 DEF DestInv, DestType, AnsweredOnce
  <2>7. PostedOnce'
    <3>1. ASSUME NEW j \in DOMAIN tasks', NEW k \in DOMAIN tasks', tasks'[j] = tasks'[k]
          PROVE  j = k
      <4>1. \A n \in 1 .. Len(tasks) : tasks'[n] # c
        BY <1>2, <2>3, <2>4 DEF Posted
      <4> QED
        BY <2>2, <2>3, <2>4, <3>1, <4>1 DEF DestInv, PostedOnce
    <3>2. \A b \in Callers : Posted(b)' => calls'[b] = "waiting"
      BY <2>1, <2>5 DEF DestInv, PostedOnce
    <3> QED
      BY <3>1, <3>2 DEF PostedOnce
  <2>8. RequestOwned'
    <3>1. ASSUME NEW d \in Dests, requests[d] # NoRequest, NEW b, b = requests[d].caller
          PROVE  /\ b \in Callers /\ Wants[b] = d /\ calls'[b] = "waiting"
                 /\ ~Posted(b)' /\ requests[d].timer = TRUE
      BY <1>1, <2>1, <2>5, <3>1 DEF DestInv, RequestOwned
    <3> QED
      BY <1>0, <3>1 DEF RequestOwned
  <2>9. WaitsForSome'
    BY <1>0, <2>1, <2>5 DEF DestInv, WaitsForSome
  <2> QED
    BY <2>6, <2>7, <2>8, <2>9 DEF DestInv
<1> QED
  BY <1>3, <1>4, Zenon DEF CreateStream

LEMMA RequestLeaseSetStep == DestInv /\ RequestLeaseSet => DestInv'
<1> SUFFICES ASSUME DestInv, RequestLeaseSet
             PROVE  DestInv'
  OBVIOUS
<1>1. PICK c : c = Head(tasks)
  OBVIOUS
<1>2. PICK d : d = Wants[c]
  OBVIOUS
<1>3. tasks \in Seq(Callers) /\ tasks # <<>> /\ Len(tasks) \in Nat
  BY LenProperties DEF RequestLeaseSet, DestInv, DestType
<1>4. /\ c \in Callers /\ 1 \in DOMAIN tasks /\ tasks[1] = c
      /\ Tail(tasks) \in Seq(Callers) /\ Len(Tail(tasks)) = Len(tasks) - 1
      /\ \A k \in 1 .. Len(Tail(tasks)) : Tail(tasks)[k] = tasks[k + 1]
  BY <1>1, <1>3, HeadTailProperties
<1>5. /\ tasks' \in Seq(Callers) /\ Len(tasks') = Len(tasks) - 1
      /\ \A k \in 1 .. Len(tasks') : tasks'[k] = tasks[k + 1]
      /\ floodfills' = floodfills
  BY <1>4 DEF RequestLeaseSet
<1>6. DOMAIN tasks = 1 .. Len(tasks) /\ DOMAIN tasks' = 1 .. (Len(tasks) - 1)
  BY <1>3, <1>5
<1>7. \A j, k \in DOMAIN tasks : tasks[j] = tasks[k] => j = k
  BY DEF DestInv, PostedOnce
<1>8. \A b : Posted(b)' <=> Posted(b) /\ b # c
  <2>1. ASSUME NEW b, Posted(b)'
        PROVE  Posted(b) /\ b # c
    <3>1. PICK k \in 1 .. (Len(tasks) - 1) : tasks'[k] = b
      BY <1>6, <2>1 DEF Posted
    <3>2. k + 1 \in 1 .. Len(tasks) /\ k + 1 # 1 /\ tasks[k + 1] = b
      BY <1>3, <1>5, <3>1
    <3> QED
      BY <1>4, <1>6, <1>7, <3>2 DEF Posted
  <2>2. ASSUME NEW b, Posted(b), b # c
        PROVE  Posted(b)'
    <3>1. PICK k \in 1 .. Len(tasks) : tasks[k] = b
      BY <1>6, <2>2 DEF Posted
    <3>2. k # 1
      BY <1>4, <2>2, <3>1
    <3>3. k - 1 \in 1 .. (Len(tasks) - 1) /\ (k - 1) + 1 = k
      BY <1>3, <3>1, <3>2
    <3>4. tasks'[k - 1] = b
      BY <1>5, <3>1, <3>3
    <3> QED
      BY <1>6, <3>3, <3>4 DEF Posted
  <2> QED
    BY <2>1, <2>2
<1>9. Posted(c) /\ calls[c] = "waiting" /\ answers[c] = 0 /\ d \in Dests
  BY <1>2, <1>4, RequestFacts DEF Posted, DestInv, PostedOnce, AnsweredOnce
<1>10. \A e \in Dests : requests[e] # NoRequest => requests[e].caller # c
  BY <1>9 DEF DestInv, RequestOwned
<1>11. \A j, k \in DOMAIN tasks' : tasks'[j] = tasks'[k] => j = k
  <2>1. ASSUME NEW j \in DOMAIN tasks', NEW k \in DOMAIN tasks', tasks'[j] = tasks'[k]
        PROVE  j = k
    <3>1. /\ j + 1 \in DOMAIN tasks /\ k + 1 \in DOMAIN tasks
          /\ tasks[j + 1] = tasks[k + 1]
      BY <1>3, <1>5, <1>6, <2>1
    <3>2. j + 1 = k + 1
      BY <1>7, <3>1
    <3> QED
      BY <1>3, <1>6, <3>2
  <2> QED
    BY <2>1
<1>12. CASE floodfills = {} /\ UNCHANGED <<requests, calls, answers>>
  <2>1. DestType' /\ AnsweredOnce' /\ WaitsForSome'
    BY <1>5, <1>12 DEF DestInv, DestType, AnsweredOnce, WaitsForSome
  <2>2. PostedOnce'
    BY <1>8, <1>11, <1>12 DEF DestInv, PostedOnce
  <2>3. RequestOwned'
    BY <1>8, <1>12 DEF DestInv, RequestOwned
  <2> QED
    BY <2>1, <2>2, <2>3 DEF DestInv
<1>13. CASE Complete(c, FALSE) /\ UNCHANGED requests
  <2>1. /\ calls' \in [Callers -> Outcomes] /\ calls'[c] = "failed"
        /\ \A b \in Callers : b # c => calls'[b] = calls[b]
    BY <1>4, <1>13 DEF Complete, DestInv, DestType, Outcomes
  <2>2. /\ answers' \in [Callers -> Nat] /\ answers'[c] = 1
        /\ \A b \in Callers : b # c => answers'[b] = answers[b]
    BY <1>4, <1>9, <1>13 DEF Complete, DestInv, DestType
  <2>3. DestType' /\ AnsweredOnce'
    BY <1>5, <1>13, <2>1, <2>2 DEF DestInv, DestType, AnsweredOnce
  <2>4. PostedOnce'
    BY <1>8, <1>11, <2>1 DEF DestInv, PostedOnce
  <2>5. RequestOwned'
    <3>1. ASSUME NEW e \in Dests, requests[e] # NoRequest, NEW b, b = requests[e].caller
          PROVE  /\ b \in Callers /\ Wants[b] = e /\ calls'[b] = "waiting"
                 /\ ~Posted(b)' /\ requests[e].timer = TRUE
      BY <1>8, <1>10, <2>1, <3>1 DEF DestInv, RequestOwned
    <3> QED
      BY <1>13, <3>1 DEF RequestOwned
  <2>6. WaitsForSome'
    BY <1>5, <1>8, <1>13, <2>1 DEF DestInv, WaitsForSome
  <2> QED
    BY <2>3, <2>4, <2>5, <2>6 DEF DestInv
<1>14. ASSUME requests[d] = NoRequest, UNCHANGED <<calls, answers>>,
              NEW f \in GetClosestFloodfill({}),
              requests' = [requests EXCEPT ![d] = SentRequest([NoRequest EXCEPT !.caller = c], f)]
       PROVE  DestInv'
  <2>1. PICK new : new = SentRequest([NoRequest EXCEPT !.caller = c], f)
    OBVIOUS
  <2>2. f \in Routers
    BY <1>14 DEF GetClosestFloodfill, Routers, DestInv, DestType
  <2>3. PICK mine : mine = [NoRequest EXCEPT !.caller = c]
    OBVIOUS
  <2>4. mine \in Request /\ mine.caller = c
    BY <1>4, <2>3 DEF NoRequest, Request, Routers
  <2>5. new \in Request /\ new.caller = c /\ new.timer = TRUE
    BY <2>1, <2>2, <2>3, <2>4, SentFacts
  <2>6. /\ requests' \in [Dests -> Request] /\ requests'[d] = new
        /\ \A e \in Dests : e # d => requests'[e] = requests[e]
    BY <1>9, <1>14, <2>1, <2>5 DEF DestInv, DestType
  <2>7. DestType' /\ AnsweredOnce'
    BY <1>5, <1>14, <2>6 DEF DestInv, DestType, AnsweredOnce
  <2>8. PostedOnce'
    BY <1>8, <1>11, <1>14 DEF DestInv, PostedOnce
  <2>9. RequestOwned'
    <3>1. ASSUME NEW e \in Dests, requests'[e] # NoRequest, NEW b, b = requests'[e].caller
          PROVE  /\ b \in Callers /\ Wants[b] = e /\ calls[b] = "waiting"
                 /\ ~Posted(b)' /\ requests'[e].timer = TRUE
      <4>1. CASE e = d
        BY <1>2, <1>4, <1>8, <1>9, <2>5, <2>6, <3>1, <4>1
      <4>2. CASE e # d
        BY <1>8, <2>6, <3>1, <4>2 DEF DestInv, RequestOwned
      <4> QED
        BY <4>1, <4>2
    <3> QED
      BY <1>14, <3>1 DEF RequestOwned
  <2>10. WaitsForSome'
    <3>1. ASSUME NEW b \in Callers, calls[b] = "waiting"
          PROVE  Posted(b)' \/ requests'[Wants[b]].caller = b \/ floodfills' = {}
      <4>1. CASE b = c
        BY <1>2, <2>5, <2>6, <4>1
      <4>2. CASE b # c
        <5>1. Posted(b) \/ requests[Wants[b]].caller = b \/ floodfills = {}
          BY <3>1 DEF DestInv, WaitsForSome
        <5>2. requests[Wants[b]].caller = b => Wants[b] # d
          BY <1>14, RequestFacts
        <5> QED
          BY <1>5, <1>8, <2>6, <4>2, <5>1, <5>2, RequestFacts
      <4> QED
        BY <4>1, <4>2
    <3> QED
      BY <1>14, <3>1 DEF WaitsForSome
  <2> QED
    BY <2>7, <2>8, <2>9, <2>10 DEF DestInv
<1> QED
  BY <1>1, <1>2, <1>12, <1>13, <1>14 DEF RequestLeaseSet, Pending

LEMMA StoreStep ==
  ASSUME DestInv, NEW d \in Dests, NEW f, NEW valid \in BOOLEAN,
         HandleDatabaseStoreMessage(d, f, valid)
  PROVE  DestInv'
<1>1. UNCHANGED <<tasks, floodfills>>
  BY DEF HandleDatabaseStoreMessage
<1>2. CASE requests[d] # NoRequest
  <2>1. Complete(requests[d].caller, valid) /\ requests' = [requests EXCEPT ![d] = NoRequest]
    BY <1>2 DEF HandleDatabaseStoreMessage, Pending
  <2> QED
    BY <1>1, <1>2, <2>1, OverKeeps
<1>3. CASE requests[d] = NoRequest
  BY <1>1, <1>3, DestUnchanged DEF HandleDatabaseStoreMessage, Pending
<1> QED
  BY <1>2, <1>3

LEMMA SearchReplyStep ==
  ASSUME DestInv, NEW d \in Dests, NEW f \in Floodfills, NEW suggested,
         HandleDatabaseSearchReplyMessage(d, f, suggested)
  PROVE  DestInv'
<1>1. UNCHANGED <<tasks, floodfills>>
  BY DEF HandleDatabaseSearchReplyMessage
<1>2. PICK next : /\ next = IF ready /\ Cardinality(requests[d].excluded) < MaxFloodfills
                            THEN suggested \cap floodfills ELSE {}
  OBVIOUS
<1>3. next \subseteq Routers
  BY <1>2 DEF DestInv, DestType, Routers
<1>4. CASE requests[d] = NoRequest
  BY <1>1, <1>4, DestUnchanged DEF HandleDatabaseSearchReplyMessage, Pending
<1>5. CASE requests[d] # NoRequest /\ next # {}
  <2>1. PICK r : r = [SentRequest(requests[d], f) EXCEPT !.excluded = requests[d].excluded \cup next]
    OBVIOUS
  <2>2. requests[d] \in Request /\ f \in Routers
    BY DEF DestInv, DestType, Routers
  <2>3. PICK s : s = SentRequest(requests[d], f)
    OBVIOUS
  <2>4. s \in Request /\ s.caller = requests[d].caller /\ s.timer = TRUE
    BY <2>2, <2>3, SentFacts
  <2>5. requests[d].excluded \cup next \subseteq Routers
    BY <1>3, <2>2 DEF Request
  <2>6. r \in Request /\ r.caller = requests[d].caller /\ r.timer = TRUE
    BY <2>1, <2>3, <2>4, <2>5 DEF Request
  <2>7. /\ requests' = [requests EXCEPT ![d] = r] /\ UNCHANGED <<calls, answers>>
    BY <1>2, <1>5, <2>1 DEF HandleDatabaseSearchReplyMessage, Pending
  <2> QED
    BY <1>1, <1>5, <2>6, <2>7, ResentKeeps
<1>6. CASE requests[d] # NoRequest /\ next = {}
  <2>1. Complete(requests[d].caller, FALSE) /\ requests' = [requests EXCEPT ![d] = NoRequest]
    BY <1>2, <1>6 DEF HandleDatabaseSearchReplyMessage, Pending, FailedRequest
  <2> QED
    BY <1>1, <1>6, <2>1, OverKeeps
<1> QED
  BY <1>4, <1>5, <1>6

LEMMA TimeoutStep ==
  ASSUME DestInv, NEW d \in Dests, HandleRequestTimoutTimer(d)
  PROVE  DestInv'
<1>1. UNCHANGED <<tasks, floodfills>> /\ requests[d] # NoRequest
  BY DEF HandleRequestTimoutTimer, Pending
<1>2. ASSUME NEW f \in GetClosestFloodfill(requests[d].excluded),
             requests' = [requests EXCEPT ![d] = SentRequest(@, f)],
             UNCHANGED <<calls, answers>>
      PROVE  DestInv'
  <2>1. requests[d] \in Request /\ f \in Routers
    BY <1>2 DEF DestInv, DestType, Routers, GetClosestFloodfill
  <2>2. PICK r : r = SentRequest(requests[d], f)
    OBVIOUS
  <2>3. r \in Request /\ r.caller = requests[d].caller /\ r.timer = TRUE
    BY <2>1, <2>2, SentFacts
  <2>4. requests' = [requests EXCEPT ![d] = r]
    BY <1>2, <2>2
  <2> QED
    BY <1>1, <1>2, <2>3, <2>4, ResentKeeps
<1>3. CASE Complete(requests[d].caller, FALSE) /\ requests' = FailedRequest(d)
  BY <1>1, <1>3, OverKeeps DEF FailedRequest
<1> QED
  BY <1>2, <1>3 DEF HandleRequestTimoutTimer

LEMMA DestTickStep == DestInv /\ DestTick => DestInv'
<1> SUFFICES ASSUME DestInv, DestTick
             PROVE  DestInv'
  OBVIOUS
<1>1. UNCHANGED <<tasks, calls, answers, floodfills>>
  BY DEF DestTick
<1>2. ASSUME NEW d \in Dests
      PROVE  /\ requests'[d] \in Request /\ requests'[d].caller = requests[d].caller
             /\ requests'[d].timer = requests[d].timer
             /\ requests[d] = NoRequest => requests'[d] = NoRequest
  <2>1. requests[d] \in Request
    BY DEF DestInv, DestType
  <2>2. PICK total : total = IF requests[d].total > MaxTimeouts THEN requests[d].total ELSE requests[d].total + 1
    OBVIOUS
  <2>3. total \in Nat
    BY <2>1, <2>2 DEF Request
  <2>4. CASE requests[d] # NoRequest
    <3>1. requests'[d] = [requests[d] EXCEPT !.age = @ + 1, !.total = total]
      BY <2>2, <2>4 DEF DestTick, Pending
    <3>2. PICK r, s : r = requests[d] /\ s = [r EXCEPT !.age = @ + 1]
      OBVIOUS
    <3>3. r.age + 1 \in Nat
      BY <2>1, <3>2 DEF Request
    <3>4. s \in Request /\ s.caller = r.caller /\ s.timer = r.timer
      BY <2>1, <3>2, <3>3 DEF Request
    <3>5. PICK t : t = [s EXCEPT !.total = total]
      OBVIOUS
    <3>6. t \in Request /\ t.caller = r.caller /\ t.timer = r.timer
      BY <2>3, <3>4, <3>5 DEF Request
    <3>7. requests'[d] = t
      BY <2>1, <3>1, <3>2, <3>5 DEF Request
    <3> QED
      BY <2>4, <3>2, <3>6, <3>7
  <2>5. CASE requests[d] = NoRequest
    <3>1. requests'[d] = NoRequest
      BY <2>5 DEF DestTick, Pending
    <3> QED
      BY <2>1, <2>5, <3>1
  <2> QED
    BY <2>4, <2>5
<1>3. requests' \in [Dests -> Request]
  BY <1>2 DEF DestTick
<1>4. DestType' /\ PostedOnce' /\ AnsweredOnce'
  BY <1>1, <1>3 DEF DestInv, DestType, PostedOnce, Posted, AnsweredOnce
<1>5. RequestOwned'
  BY <1>1, <1>2 DEF DestInv, RequestOwned, Posted
<1>6. WaitsForSome'
  BY <1>1, <1>2, RequestFacts DEF DestInv, WaitsForSome, Posted
<1> QED
  BY <1>4, <1>5, <1>6 DEF DestInv

(* However callers, floodfills and timers interleave, the callback of a     *)
(* call runs at most once, and a call that waits is posted or is the caller *)
(* of the request of its destination, whose timer runs (CallbackOnce).      *)
THEOREM SpecCallbackOnce == DestSpec => []CallbackOnce
<1>1. DestInit => DestInv
  <2> SUFFICES ASSUME DestInit
               PROVE  DestInv
    OBVIOUS
  <2>1. DestType
    BY RequestFacts DEF DestInit, DestType, Outcomes
  <2> QED
    BY <2>1, RequestFacts DEF DestInit, DestInv, PostedOnce, RequestOwned, AnsweredOnce, WaitsForSome, Posted
<1>2. DestInv /\ [DestNext]_destVars => DestInv'
  <2> SUFFICES ASSUME DestInv, [DestNext]_destVars
               PROVE  DestInv'
    OBVIOUS
  <2>1. ASSUME UNCHANGED <<tasks, requests, calls, answers, floodfills>>
        PROVE  DestInv'
    BY <2>1, DestUnchanged
  <2>2. CASE StartDestination \/ StopDestination \/ PoolChanges \/ CleanupRemoteLeaseSets
    BY <2>1, <2>2 DEF StartDestination, StopDestination, PoolChanges, CleanupRemoteLeaseSets, requestVars
  <2>3. ASSUME NEW c \in Callers, CreateStream(c)
        PROVE  DestInv'
    BY <2>3, CreateStreamStep
  <2>4. CASE RequestLeaseSet
    BY <2>4, RequestLeaseSetStep
  <2>5. ASSUME NEW d \in Dests, NEW f \in Floodfills, NEW valid \in BOOLEAN,
               HandleDatabaseStoreMessage(d, f, valid)
        PROVE  DestInv'
    BY <2>5, StoreStep
  <2>6. ASSUME NEW d \in Dests, NEW f \in Floodfills, NEW s, HandleDatabaseSearchReplyMessage(d, f, s)
        PROVE  DestInv'
    BY <2>6, SearchReplyStep
  <2>7. ASSUME NEW d \in Dests, NEW f, LookupLost(d, f)
        PROVE  DestInv'
    BY <2>1, <2>7 DEF LookupLost
  <2>8. ASSUME NEW d \in Dests, HandleRequestTimoutTimer(d)
        PROVE  DestInv'
    BY <2>8, TimeoutStep
  <2>9. ASSUME NEW d \in Dests, LeasesExpire(d)
        PROVE  DestInv'
    BY <2>1, <2>9 DEF LeasesExpire
  <2>10. CASE UpdateLeaseSet \/ HandlePublishConfirmationTimer
    BY <2>1, <2>10 DEF UpdateLeaseSet, HandlePublishConfirmationTimer, requestVars
  <2>11. ASSUME NEW f, NEW t, PublishConfirmed(f, t)
         PROVE  DestInv'
    BY <2>1, <2>11 DEF PublishConfirmed, requestVars
  <2>12. CASE DestTick
    BY <2>12, DestTickStep
  <2>13. CASE UNCHANGED destVars
    BY <2>1, <2>13 DEF destVars
  <2> QED
    BY <2>2, <2>3, <2>4, <2>5, <2>6, <2>7, <2>8, <2>9, <2>10, <2>11, <2>12, <2>13 DEF DestNext
<1>3. DestInv => CallbackOnce
  <2> SUFFICES ASSUME DestInv, NEW c \in Callers
               PROVE  /\ answers[c] <= 1
                      /\ calls[c] = "waiting" =>
                           \/ c \in Range(tasks)
                           \/ requests[Wants[c]].caller = c /\ requests[Wants[c]].timer
                           \/ floodfills = {}
    BY DEF CallbackOnce
  <2>1. answers[c] <= 1
    BY DEF DestInv, AnsweredOnce
  <2>2. Posted(c) => c \in Range(tasks)
    BY DEF Posted, Range
  <2>3. ASSUME requests[Wants[c]].caller = c
        PROVE  requests[Wants[c]].timer = TRUE
    BY <2>3, RequestFacts DEF DestInv, RequestOwned
  <2> QED
    BY <2>1, <2>2, <2>3 DEF DestInv, WaitsForSome
<1> QED
  BY <1>1, <1>2, <1>3, PTL DEF DestSpec

-----------------------------------------------------------------------------
(* Garlic routing.                                                          *)
GTag == [msg : Nat, n : Nat, made : Nat]
GSession ==
  [tags : Seq(GTag), unconfirmed : SUBSET [msg : Nat, made : Nat],
   status : {"none", "Updated", "Submitted", "UpToDate"}, lsMsg : Nat, lsTime : Nat]
GMessage == [id : Nat, tag : GTag, newTags : BOOLEAN, made : Nat, status : BOOLEAN, ls : Nat]

GType ==
  /\ clock \in Nat /\ wrapped \in Nat /\ leaseSet \in Nat
  /\ routing \in [Objects -> GSession]
  /\ current \in Objects \cup {0}
  /\ created \in [Msgs -> Objects \cup {0}]
  /\ inTags \subseteq GTag \X Nat
  /\ wire \subseteq GMessage
  /\ confirms \subseteq Nat

Once(s) == \A j, k \in DOMAIN s : s[j] = s[k] => j = k
Held(g) == Range(routing[g].tags)
Unconfirmed(g) == routing[g].unconfirmed

(* Everything named by a message is named by one that was wrapped.          *)
Numbered ==
  /\ \A x \in wire : x.id <= wrapped /\ x.made <= clock /\ x.tag.msg <= wrapped
  /\ \A m \in confirms : m <= wrapped
  /\ \A g \in Objects : /\ \A u \in Unconfirmed(g) : 0 < u.msg /\ u.msg <= wrapped
                        /\ \A t \in Held(g) : 0 < t.msg /\ t.msg <= wrapped

(* A tag is in one place of one session, or of one message in flight, or    *)
(* waits for the confirmation of the message that carried it.               *)
TagsOnce ==
  /\ \A g \in Objects : Once(routing[g].tags)
  /\ \A g, h \in Objects : g # h => \A t \in Held(g) : t \notin Held(h)
  /\ \A x \in wire : x.tag # NoTag => 0 < x.tag.msg
  /\ \A g \in Objects, x \in wire : x.tag \notin Held(g)
  /\ \A x, y \in wire : x.id = y.id => x = y
  /\ \A x, y \in wire : x.tag = y.tag /\ x.tag # NoTag => x = y
  /\ \A g, h \in Objects : \A u \in Unconfirmed(g) : \A t \in Held(h) : t.msg # u.msg
  /\ \A g \in Objects : \A u \in Unconfirmed(g) : \A x \in wire : x.tag.msg # u.msg
  /\ \A g, h \in Objects : \A u \in Unconfirmed(g), v \in Unconfirmed(h) :
       u.msg = v.msg => g = h /\ u = v

(* The receiver has a tag that is young enough, with a time no earlier.     *)
Has(t) == clock <= t.made + Incoming => \E e \in inTags : e[1] = t /\ e[2] >= t.made

(* It has those that are used and those whose confirmation is on its way;   *)
(* a message in flight carries the tags that wait for its confirmation.     *)
ReceiverHas ==
  /\ \A g \in Objects : \A t \in Held(g) : Has(t)
  /\ \A x \in wire : x.tag # NoTag => Has(x.tag) /\ x.made < x.tag.made + Outgoing
  /\ \A g \in Objects : \A u \in Unconfirmed(g) :
       /\ u.msg \in confirms => \A n \in 1 .. NumTags : Has(Tag(u.msg, n, u.made))
       /\ \A x \in wire : x.id = u.msg => x.made = u.made /\ x.newTags = TRUE

GInv == GType /\ Numbered /\ TagsOnce /\ ReceiverHas

LEMMA GNatMin ==
  ASSUME NEW T, T \subseteq Nat, T # {}
  PROVE  \E x \in T : \A y \in T : x <= y
<1> DEFINE R == {ss \in Nat \X Nat : ss[1] < ss[2]}
<1>1. IsWellFoundedOn(R, Nat)
  BY NatLessThanWellFounded DEF OpToRel
<1>2. PICK x \in T : \A y \in T : ~(<<y, x>> \in R)
  <2> HIDE DEF R
  <2> QED
    BY <1>1, WFMin
<1>3. \A y \in T : ~(y < x)
  BY <1>2
<1> QED
  BY <1>2, <1>3

(* What is kept of the tags is a part of them, each once.                   *)
LEMMA UsableOfFacts ==
  ASSUME NEW A, NEW s \in Seq(A), Once(s)
  PROVE  /\ UsableOf(s) \in Seq(A) /\ Once(UsableOf(s))
         /\ Range(UsableOf(s)) \subseteq Range(s)
<1> DEFINE Step(k, before) == IF k = 0 THEN <<>>
                              ELSE IF Usable(s[k]) THEN Append(before, s[k]) ELSE before
           Rule(n, g) == g = [k \in 0 .. n |-> Step(k, g[k - 1])]
           Good(k, q) == /\ q \in Seq(A) /\ Once(q)
                         /\ \A i \in DOMAIN q : \E j \in 1 .. k : q[i] = s[j]
<1>1. Len(s) \in Nat /\ DOMAIN s = 1 .. Len(s) /\ \A k \in 1 .. Len(s) : s[k] \in A
  BY LenProperties
<1>2. ASSUME NEW n \in 0 .. Len(s), NEW g, Rule(n, g)
      PROVE  Good(n, g[n])
  <2> DEFINE Bad == {k \in 0 .. n : ~Good(k, g[k])}
  <2>1. SUFFICES ASSUME Bad # {}
                 PROVE  FALSE
    <3>1. n \in 0 .. n
      BY <1>1
    <3> HIDE DEF Good
    <3> QED
      BY <3>1
  <2>2. PICK k \in Bad : \A j \in Bad : k <= j
    <3>1. Bad \subseteq Nat
      BY <1>1
    <3> HIDE DEF Bad
    <3> QED
      BY <2>1, <3>1, GNatMin
  <2>3. k \in 0 .. n /\ k \in Nat /\ n \in Nat
    BY <1>1, <2>2
  <2>a. ~Good(k, g[k])
    BY <2>2
  <2>4. g[k] = Step(k, g[k - 1])
    BY <1>2, <2>3
  <2>5. k # 0
    <3>1. SUFFICES ASSUME k = 0
                   PROVE  FALSE
      OBVIOUS
    <3>2. g[k] = <<>>
      BY <2>4, <3>1
    <3> QED
      BY <2>a, <3>2 DEF Once
  <2>6. k - 1 \in 0 .. n /\ k \in 1 .. Len(s) /\ ~(k <= k - 1)
    BY <1>1, <2>3, <2>5
  <2>7. Good(k - 1, g[k - 1])
    <3>1. k - 1 \notin Bad
      BY <2>2, <2>6
    <3> HIDE DEF Good
    <3> QED
      BY <2>6, <3>1
  <2>8. PICK q : q = g[k - 1]
    OBVIOUS
  <2>9. /\ q \in Seq(A) /\ Once(q) /\ Len(q) \in Nat /\ DOMAIN q = 1 .. Len(q)
        /\ \A i \in DOMAIN q : \E j \in 1 .. (k - 1) : q[i] = s[j]
    BY <2>7, <2>8, LenProperties
  <2>10. CASE Usable(s[k])
    <3>1. PICK r : r = Append(q, s[k])
      OBVIOUS
    <3>2. /\ r \in Seq(A) /\ Len(r) = Len(q) + 1 /\ r[Len(q) + 1] = s[k]
          /\ \A i \in 1 .. Len(q) : r[i] = q[i]
      BY <1>1, <2>6, <2>9, <3>1, AppendProperties
    <3>3. DOMAIN r = 1 .. (Len(q) + 1)
      BY <3>2
    <3>4. \A i \in 1 .. Len(q) : q[i] # s[k]
      <4>1. ASSUME NEW i \in 1 .. Len(q), q[i] = s[k]
            PROVE  FALSE
        <5>1. PICK j \in 1 .. (k - 1) : q[i] = s[j]
          BY <2>9, <4>1
        <5>2. j \in 1 .. Len(s) /\ j # k
          BY <1>1, <2>3, <2>6, <5>1
        <5> QED
          BY <1>1, <2>6, <4>1, <5>1, <5>2 DEF Once
      <4> QED
        BY <4>1
    <3>5. Once(r)
      <4>1. ASSUME NEW i \in 1 .. (Len(q) + 1), NEW j \in 1 .. (Len(q) + 1), r[i] = r[j]
            PROVE  i = j
        <5>1. CASE i \in 1 .. Len(q) /\ j \in 1 .. Len(q)
          BY <2>9, <3>2, <4>1, <5>1 DEF Once
        <5>2. CASE i = Len(q) + 1 /\ j \in 1 .. Len(q)
          BY <3>2, <3>4, <4>1, <5>2
        <5>3. CASE j = Len(q) + 1 /\ i \in 1 .. Len(q)
          BY <3>2, <3>4, <4>1, <5>3
        <5>4. CASE i = Len(q) + 1 /\ j = Len(q) + 1
          BY <5>4
        <5> QED
          BY <2>9, <5>1, <5>2, <5>3, <5>4
      <4> QED
        BY <3>3, <4>1 DEF Once
    <3>6. \A i \in DOMAIN r : \E j \in 1 .. k : r[i] = s[j]
      <4>1. ASSUME NEW i \in 1 .. (Len(q) + 1)
            PROVE  \E j \in 1 .. k : r[i] = s[j]
        <5>1. CASE i \in 1 .. Len(q)
          <6>1. PICK j \in 1 .. (k - 1) : q[i] = s[j]
            BY <2>9, <5>1
          <6>2. j \in 1 .. k
            BY <2>3, <6>1
          <6> QED
            BY <3>2, <5>1, <6>1, <6>2
        <5>2. CASE i = Len(q) + 1
          <6>1. k \in 1 .. k
            BY <2>6, <1>1
          <6> QED
            BY <3>2, <5>2, <6>1
        <5> QED
          BY <2>9, <5>1, <5>2
      <4> QED
        BY <3>3, <4>1
    <3>7. g[k] = r
      BY <2>4, <2>5, <2>8, <2>10, <3>1
    <3> QED
      BY <2>a, <3>2, <3>5, <3>6, <3>7
  <2>11. CASE ~Usable(s[k])
    <3>1. g[k] = q
      BY <2>4, <2>5, <2>8, <2>11
    <3>2. \A j : j \in 1 .. (k - 1) => j \in 1 .. k
      BY <2>3
    <3>3. \A i \in DOMAIN q : \E j \in 1 .. k : q[i] = s[j]
      BY <2>9, <3>2
    <3> QED
      BY <2>a, <2>9, <3>1, <3>3
  <2> QED
    BY <2>10, <2>11
<1>3. ASSUME NEW n \in 0 .. Len(s)
      PROVE  \E g : Rule(n, g)
  <2> DEFINE Bad == {k \in 0 .. n : ~\E g : Rule(k, g)}
  <2>1. SUFFICES ASSUME Bad # {}
                 PROVE  FALSE
    <3>1. n \in 0 .. n
      BY <1>1
    <3> HIDE DEF Rule
    <3> QED
      BY <3>1
  <2>2. PICK k \in Bad : \A j \in Bad : k <= j
    <3>1. Bad \subseteq Nat
      BY <1>1
    <3> HIDE DEF Bad
    <3> QED
      BY <2>1, <3>1, GNatMin
  <2>3. k \in 0 .. n /\ k \in Nat /\ n \in Nat
    BY <1>1, <2>2
  <2>4. ~\E g : Rule(k, g)
    BY <2>2
  <2>5. k # 0
    <3>1. SUFFICES ASSUME k = 0
                   PROVE  FALSE
      OBVIOUS
    <3>2. PICK g : g = [j \in 0 .. 0 |-> <<>>]
      OBVIOUS
    <3>3. g = [j \in 0 .. 0 |-> Step(j, g[j - 1])]
      BY <3>2
    <3> QED
      BY <2>4, <3>1, <3>3
  <2>6. PICK h : Rule(k - 1, h)
    <3>1. k - 1 \in 0 .. n /\ ~(k <= k - 1)
      BY <2>3, <2>5
    <3> HIDE DEF Rule
    <3>2. k - 1 \notin Bad
      BY <2>2, <3>1
    <3> QED
      BY <3>1, <3>2
  <2>7. PICK g : g = [j \in 0 .. k |-> IF j = k THEN Step(k, h[k - 1]) ELSE h[j]]
    OBVIOUS
  <2>8. ASSUME NEW j \in 0 .. k
        PROVE  g[j] = Step(j, g[j - 1])
    <3>1. j \in Nat
      BY <2>3
    <3>2. CASE j = k
      <4>1. g[k - 1] = h[k - 1] /\ g[k] = Step(k, h[k - 1])
        BY <2>3, <2>5, <2>7
      <4> QED
        BY <3>2, <4>1
    <3>3. CASE j # k
      <4>1. j \in 0 .. k - 1 /\ g[j] = h[j]
        BY <2>3, <2>7, <3>3
      <4>2. h[j] = Step(j, h[j - 1])
        BY <2>6, <4>1
      <4>3. CASE j = 0
        BY <4>1, <4>2, <4>3
      <4>4. CASE j # 0
        <5>1. g[j - 1] = h[j - 1]
          BY <2>3, <2>7, <3>1, <3>3, <4>1, <4>4
        <5> QED
          BY <4>1, <4>2, <5>1
      <4> QED
        BY <4>3, <4>4
    <3> QED
      BY <3>2, <3>3
  <2>9. g = [j \in 0 .. k |-> Step(j, g[j - 1])]
    <3> HIDE DEF Step
    <3> QED
      BY <2>7, <2>8
  <2> QED
    BY <2>4, <2>9
<1>4. PICK kept : kept = CHOOSE g : Rule(Len(s), g)
  OBVIOUS
<1>5. Rule(Len(s), kept)
  <2>0. Len(s) \in 0 .. Len(s)
    BY <1>1
  <2> HIDE DEF Rule
  <2>1. \E g : Rule(Len(s), g)
    BY <2>0, <1>3
  <2> QED
    BY <1>4, <2>1
<1>6. UsableOf(s) = kept[Len(s)]
  BY <1>4 DEF UsableOf
<1>7. Good(Len(s), kept[Len(s)])
  <2>1. Len(s) \in 0 .. Len(s)
    BY <1>1
  <2> HIDE DEF Rule, Good
  <2> QED
    BY <1>2, <1>5, <2>1
<1> QED
  BY <1>1, <1>6, <1>7 DEF Range

(* The tag that is used is one that is usable, and not among the rest.      *)
LEMMA AfterTagFacts ==
  ASSUME NEW A, NEW s \in Seq(A), Once(s)
  PROVE  /\ AfterTag(s) \in Seq(A) /\ Once(AfterTag(s))
         /\ Range(AfterTag(s)) \subseteq Range(s)
         /\ \/ FirstTag(s) = NoTag
            \/ /\ FirstTag(s) \in Range(s) /\ Usable(FirstTag(s))
               /\ FirstTag(s) \notin Range(AfterTag(s))
<1> DEFINE usable == {k \in DOMAIN s : Usable(s[k])}
<1>1. CASE usable = {}
  <2>1. AfterTag(s) = <<>> /\ FirstTag(s) = NoTag
    BY <1>1 DEF AfterTag, FirstTag
  <2> QED
    BY <2>1 DEF Once, Range
<1>2. CASE usable # {}
  <2>0. Len(s) \in Nat /\ DOMAIN s = 1 .. Len(s)
    BY LenProperties
  <2>1. PICK k : k = Min(usable)
    OBVIOUS
  <2>2. k \in usable
    <3>1. usable \subseteq Nat
      BY <2>0
    <3> HIDE DEF usable
    <3>2. \E x \in usable : \A y \in usable : x <= y
      BY <1>2, <3>1, GNatMin
    <3> QED
      BY <2>1, <3>2 DEF Min
  <2>3. k \in 1 .. Len(s) /\ Usable(s[k]) /\ k \in Nat
    BY <2>0, <2>2
  <2>4. AfterTag(s) = SubSeq(s, k + 1, Len(s)) /\ FirstTag(s) = s[k]
    BY <1>2, <2>1 DEF AfterTag, FirstTag
  <2>5. PICK r : r = SubSeq(s, k + 1, Len(s))
    OBVIOUS
  <2>6. /\ r \in Seq(A) /\ Len(r) = Len(s) - k
        /\ \A i \in 1 .. Len(r) : r[i] = s[k + i]
    <3>1. k + 1 \in 1 .. Len(s) + 1
      BY <2>0, <2>3
    <3>2. \A i \in (k + 1) .. Len(s) : s[i] \in A
      BY <2>0, <2>3
    <3>3. /\ r \in Seq(A) /\ Len(r) = IF k + 1 <= Len(s) THEN Len(s) - (k + 1) + 1 ELSE 0
          /\ \A i \in 1 .. Len(s) - (k + 1) + 1 : r[i] = s[(k + 1) + i - 1]
      BY <2>0, <2>3, <2>5, <3>2, SubSeqProperties
    <3>4. Len(r) = Len(s) - k /\ Len(s) - (k + 1) + 1 = Len(s) - k
      <4>1. k \in Int /\ Len(s) \in Int /\ k <= Len(s)
        BY <2>0, <2>3
      <4>2. Len(s) - (k + 1) + 1 = Len(s) - k
        BY <4>1
      <4>3. CASE k + 1 <= Len(s)
        BY <3>3, <4>2, <4>3
      <4>4. CASE ~(k + 1 <= Len(s))
        <5>1. k = Len(s)
          BY <4>1, <4>4
        <5> QED
          BY <3>3, <4>1, <4>2, <4>4, <5>1
      <4> QED
        BY <4>2, <4>3, <4>4
    <3>5. \A i \in 1 .. Len(s) - k : r[i] = s[k + i]
      <4>1. ASSUME NEW i \in 1 .. Len(s) - k
            PROVE  r[i] = s[k + i]
        <5>1. r[i] = s[(k + 1) + i - 1]
          BY <3>3, <3>4
        <5>2. (k + 1) + i - 1 = k + i
          BY <2>0, <2>3
        <5> QED
          BY <5>1, <5>2
      <4> QED
        BY <4>1
    <3> QED
      BY <3>3, <3>4, <3>5
  <2>7. DOMAIN r = 1 .. (Len(s) - k)
    BY <2>6
  <2>8. \A i \in DOMAIN r : r[i] = s[k + i] /\ k + i \in DOMAIN s /\ k + i # k
    BY <2>0, <2>3, <2>6, <2>7
  <2>9. Once(r)
    <3>1. ASSUME NEW i \in DOMAIN r, NEW j \in DOMAIN r, r[i] = r[j]
          PROVE  i = j
      <4>1. k + i = k + j
        BY <2>8, <3>1 DEF Once
      <4> QED
        BY <2>0, <2>3, <2>7, <4>1
    <3> QED
      BY <3>1 DEF Once
  <2>10. Range(r) \subseteq Range(s) /\ s[k] \notin Range(r) /\ s[k] \in Range(s)
    BY <2>0, <2>3, <2>8 DEF Range, Once
  <2> QED
    BY <2>3, <2>4, <2>5, <2>6, <2>9, <2>10
<1> QED
  BY <1>1, <1>2

LEMMA ConcatOnce ==
  ASSUME NEW A, NEW s \in Seq(A), NEW t \in Seq(A), Once(s), Once(t),
         \A x \in Range(s) : x \notin Range(t)
  PROVE  s \o t \in Seq(A) /\ Once(s \o t) /\ Range(s \o t) \subseteq Range(s) \cup Range(t)
<1>1. PICK r : r = s \o t
  OBVIOUS
<1>2. /\ Len(s) \in Nat /\ DOMAIN s = 1 .. Len(s) /\ Len(t) \in Nat /\ DOMAIN t = 1 .. Len(t)
  BY LenProperties
<1>3. /\ r \in Seq(A) /\ Len(r) = Len(s) + Len(t)
      /\ \A i \in 1 .. Len(s) + Len(t) : r[i] = IF i <= Len(s) THEN s[i] ELSE t[i - Len(s)]
  BY <1>1, ConcatProperties
<1>4. DOMAIN r = 1 .. (Len(s) + Len(t))
  BY <1>3
<1>5. ASSUME NEW i \in DOMAIN r
      PROVE  \/ i \in DOMAIN s /\ r[i] = s[i]
             \/ i - Len(s) \in DOMAIN t /\ r[i] = t[i - Len(s)]
  BY <1>2, <1>3, <1>4
<1>6. Once(r)
  <2>1. ASSUME NEW i \in DOMAIN r, NEW j \in DOMAIN r, r[i] = r[j]
        PROVE  i = j
    <3>0. i \in Int /\ j \in Int
      BY <1>2, <1>4
    <3>1. CASE i \in DOMAIN s /\ r[i] = s[i] /\ j \in DOMAIN s /\ r[j] = s[j]
      BY <2>1, <3>1 DEF Once
    <3>2. CASE /\ i - Len(s) \in DOMAIN t /\ r[i] = t[i - Len(s)]
               /\ j - Len(s) \in DOMAIN t /\ r[j] = t[j - Len(s)]
      <4>1. i - Len(s) = j - Len(s)
        BY <2>1, <3>2 DEF Once
      <4> QED
        BY <1>2, <3>0, <4>1
    <3>3. CASE i \in DOMAIN s /\ r[i] = s[i] /\ j - Len(s) \in DOMAIN t /\ r[j] = t[j - Len(s)]
      BY <2>1, <3>3 DEF Range
    <3>4. CASE j \in DOMAIN s /\ r[j] = s[j] /\ i - Len(s) \in DOMAIN t /\ r[i] = t[i - Len(s)]
      BY <2>1, <3>4 DEF Range
    <3> QED
      BY <1>5, <3>1, <3>2, <3>3, <3>4
  <2> QED
    BY <2>1 DEF Once
<1>7. Range(r) \subseteq Range(s) \cup Range(t)
  BY <1>5 DEF Range
<1> QED
  BY <1>1, <1>3, <1>6, <1>7

LEMMA GarlicFacts ==
  /\ NoTag \in GTag /\ NoTag.msg = 0
  /\ \A m, n, made \in Nat : Tag(m, n, made) \in GTag
  /\ \A m, n, made : Tag(m, n, made).msg = m /\ Tag(m, n, made).n = n /\ Tag(m, n, made).made = made
  /\ NewRouting \in GSession /\ NewRouting.tags = <<>> /\ NewRouting.unconfirmed = {}
  /\ NoRouting \in GSession /\ NoRouting.tags = <<>> /\ NoRouting.unconfirmed = {}
  /\ Objects \subseteq Nat \ {0} /\ Outgoing \in Nat /\ Incoming \in Nat /\ Outgoing < Incoming
  /\ NumTags \in Nat /\ MaxMessages \in Nat
<1>1. /\ NoTag \in GTag /\ NoTag.msg = 0
      /\ \A m, n, made \in Nat : Tag(m, n, made) \in GTag
      /\ \A m, n, made : Tag(m, n, made).msg = m /\ Tag(m, n, made).n = n /\ Tag(m, n, made).made = made
  BY DEF NoTag, Tag, GTag
<1>2. PICK no : no = <<>>
  OBVIOUS
<1>3. no \in Seq(GTag)
  BY <1>2
<1>4. PICK r : r = NewRouting
  OBVIOUS
<1>5. r = [tags |-> no, unconfirmed |-> {}, status |-> "Updated", lsMsg |-> 0, lsTime |-> 0]
  BY <1>2, <1>4 DEF NewRouting
<1>6. r \in GSession /\ r.tags = no /\ r.unconfirmed = {}
  BY <1>3, <1>5 DEF GSession
<1>7. PICK q : q = NoRouting
  OBVIOUS
<1>8. q = [r EXCEPT !.status = "none"]
  BY <1>4, <1>7 DEF NoRouting
<1>9. q \in GSession /\ q.tags = no /\ q.unconfirmed = {}
  BY <1>6, <1>8 DEF GSession
<1>10. /\ Objects \subseteq Nat \ {0} /\ Outgoing \in Nat /\ Incoming \in Nat /\ Outgoing < Incoming
       /\ NumTags \in Nat /\ MaxMessages \in Nat
  BY GarlicAssumption
<1> QED
  BY <1>1, <1>2, <1>4, <1>6, <1>7, <1>9, <1>10

LEMMA EmptyOnce == Once(<<>>) /\ Range(<<>>) = {}
  BY DEF Once, Range

(* Whatever sessions forget, messages are lost and time passes, the rest    *)
(* is as it was.                                                            *)
LEMMA ShrinkKeeps ==
  ASSUME GInv, routing' \in [Objects -> GSession],
         \A g \in Objects : /\ Once(routing'[g].tags)
                            /\ Range(routing'[g].tags) \subseteq Held(g)
                            /\ routing'[g].unconfirmed \subseteq Unconfirmed(g),
         current' \in Objects \cup {0}, created' \in [Msgs -> Objects \cup {0}],
         wire' \subseteq wire, confirms' \subseteq confirms,
         clock' \in Nat, clock <= clock', leaseSet' \in Nat,
         UNCHANGED <<wrapped, inTags>>
  PROVE  GInv'
<1>1. GType'
  BY DEF GInv, GType
<1>2. \A x \in wire : x \in GMessage /\ x.made \in Nat /\ x.tag \in GTag
  BY DEF GInv, GType, GMessage
<1>3. /\ \A g \in Objects : \A t \in Held(g)' : t \in Held(g)
      /\ \A g \in Objects : \A u \in Unconfirmed(g)' : u \in Unconfirmed(g)
  BY DEF Held, Unconfirmed
<1>4. Numbered'
  <2>1. \A x \in wire : x.made <= clock'
    BY <1>2 DEF GInv, GType, Numbered
  <2> QED
    BY <1>3, <2>1 DEF GInv, Numbered
<1>5. TagsOnce'
  <2>1. \A g \in Objects : Once(routing'[g].tags)
    OBVIOUS
  <2> QED
    BY <1>3, <2>1 DEF GInv, TagsOnce
<1>6. ASSUME NEW t \in GTag, Has(t)
      PROVE  Has(t)'
  <2>1. t.made \in Nat /\ Incoming \in Nat
    BY <1>6, GarlicFacts DEF GTag
  <2>2. clock' <= t.made + Incoming => clock <= t.made + Incoming
    BY <2>1 DEF GInv, GType
  <2> QED
    BY <1>6, <2>2 DEF Has
<1>7. ReceiverHas'
  <2>1. \A g \in Objects : \A t \in Held(g) : t \in GTag
    <3>1. ASSUME NEW g \in Objects, NEW t \in Held(g)
          PROVE  t \in GTag
      <4>1. routing[g].tags \in Seq(GTag)
        BY DEF GInv, GType, GSession
      <4> QED
        BY <4>1 DEF Held, Range
    <3> QED
      BY <3>1
  <2>2. \A g \in Objects : \A t \in Held(g)' : Has(t)'
    BY <1>3, <1>6, <2>1 DEF GInv, ReceiverHas
  <2>3. \A x \in wire' : x.tag # NoTag => Has(x.tag)' /\ x.made < x.tag.made + Outgoing
    BY <1>2, <1>6 DEF GInv, ReceiverHas
  <2>4. ASSUME NEW g \in Objects, NEW u \in Unconfirmed(g)', u.msg \in confirms', NEW n \in 1 .. NumTags
        PROVE  Has(Tag(u.msg, n, u.made))'
    <3>1. u \in Unconfirmed(g) /\ u.msg \in Nat /\ u.made \in Nat /\ n \in Nat
      <4>1. u \in Unconfirmed(g) /\ n \in Nat
        BY <1>3, <2>4, GarlicFacts
      <4>2. routing[g] \in GSession
        BY DEF GInv, GType
      <4>3. routing[g].unconfirmed \subseteq [msg : Nat, made : Nat]
        BY <4>2 DEF GSession
      <4> QED
        BY <4>1, <4>3 DEF Unconfirmed
    <3>2. Has(Tag(u.msg, n, u.made))
      BY <2>4, <3>1 DEF GInv, ReceiverHas
    <3> QED
      BY <1>6, <3>1, <3>2, GarlicFacts
  <2>5. \A g \in Objects : \A u \in Unconfirmed(g)' : \A x \in wire' :
          x.id = u.msg => x.made = u.made /\ x.newTags = TRUE
    BY <1>3 DEF GInv, ReceiverHas
  <2> QED
    BY <2>2, <2>3, <2>4, <2>5 DEF ReceiverHas
<1> QED
  BY <1>1, <1>4, <1>5, <1>7 DEF GInv

(* What CleanupExpiredTags leaves of a session.                             *)
LEMMA CleanupFacts ==
  ASSUME NEW s \in GSession, Once(s.tags)
  PROVE  /\ CleanupExpiredTags(s) \in GSession /\ Once(CleanupExpiredTags(s).tags)
         /\ Range(CleanupExpiredTags(s).tags) \subseteq Range(s.tags)
         /\ CleanupExpiredTags(s).unconfirmed \subseteq s.unconfirmed
<1>1. PICK q, w : q = UsableOf(s.tags) /\ w = {u \in s.unconfirmed : clock < u.made + Outgoing}
  OBVIOUS
<1>2. s.tags \in Seq(GTag) /\ s.unconfirmed \subseteq [msg : Nat, made : Nat]
  BY DEF GSession
<1>3. q \in Seq(GTag) /\ Once(q) /\ Range(q) \subseteq Range(s.tags) /\ w \subseteq s.unconfirmed
  BY <1>1, <1>2, UsableOfFacts
<1>4. PICK r : r = CleanupExpiredTags(s)
  OBVIOUS
<1>5. r = [s EXCEPT !.tags = q, !.unconfirmed = w]
  BY <1>1, <1>4 DEF CleanupExpiredTags
<1>6. r \in GSession /\ r.tags = q /\ r.unconfirmed = w
  BY <1>2, <1>3, <1>5 DEF GSession
<1> QED
  BY <1>3, <1>4, <1>6

(* The objects that are left are a part of those there are.                 *)
LEMMA KeptFacts ==
  ASSUME NEW r \in [Objects -> GSession], NEW now, NEW cr
  PROVE  /\ Kept(r, now, cr) \in [Objects -> GSession]
         /\ \A g \in Objects : Kept(r, now, cr)[g] \in {r[g], NoRouting}
  BY GarlicFacts DEF Kept

LEMMA UncreatedFacts ==
  ASSUME NEW msgs, GType
  PROVE  Uncreated(msgs) \in [Msgs -> Objects \cup {0}]
  BY DEF Uncreated, GType

LEMMA CleanupStep == GInv /\ CleanupRoutingSessions => GInv'
<1> SUFFICES ASSUME GInv, CleanupRoutingSessions
             PROVE  GInv'
  OBVIOUS
<1>1. current \in Objects /\ routing[current] \in GSession /\ Once(routing[current].tags)
  BY DEF GInv, GType, TagsOnce, CleanupRoutingSessions
<1>2. PICK s : s = CleanupExpiredTags(routing[current])
  OBVIOUS
<1>3. /\ s \in GSession /\ Once(s.tags) /\ Range(s.tags) \subseteq Held(current)
      /\ s.unconfirmed \subseteq Unconfirmed(current)
  BY <1>1, <1>2, CleanupFacts DEF Held, Unconfirmed
<1>4. PICK r : r = [routing EXCEPT ![current] = s]
  OBVIOUS
<1>5. /\ r \in [Objects -> GSession] /\ r[current] = s
      /\ \A g \in Objects : g # current => r[g] = routing[g]
  BY <1>1, <1>3, <1>4 DEF GInv, GType
<1>6. /\ created' = Uncreated(Forgotten(routing[current]))
      /\ current' = IF SomethingLeft(s) THEN current ELSE 0
      /\ routing' = Kept(r, current', created')
      /\ UNCHANGED <<clock, wrapped, inTags, wire, confirms, leaseSet>>
  BY <1>2, <1>4 DEF CleanupRoutingSessions
<1>7. /\ routing' \in [Objects -> GSession]
      /\ \A g \in Objects : routing'[g] \in {r[g], NoRouting}
  BY <1>5, <1>6, KeptFacts
<1>8. \A g \in Objects : Once(routing[g].tags)
  BY DEF GInv, TagsOnce
<1>9. ASSUME NEW g \in Objects
      PROVE  /\ Once(routing'[g].tags) /\ Range(routing'[g].tags) \subseteq Held(g)
             /\ routing'[g].unconfirmed \subseteq Unconfirmed(g)
  <2>1. CASE routing'[g] = NoRouting
    BY <2>1, GarlicFacts, EmptyOnce
  <2>2. CASE routing'[g] = r[g] /\ g = current
    BY <1>3, <1>5, <2>2
  <2>3. CASE routing'[g] = r[g] /\ g # current
    BY <1>5, <1>8, <2>3 DEF Held, Unconfirmed
  <2> QED
    BY <1>7, <2>1, <2>2, <2>3
<1>10. created' \in [Msgs -> Objects \cup {0}] /\ current' \in Objects \cup {0}
  BY <1>1, <1>6, UncreatedFacts DEF GInv
<1>11. clock' \in Nat /\ clock <= clock' /\ leaseSet' \in Nat
  BY <1>6 DEF GInv, GType
<1> QED
  BY <1>6, <1>7, <1>9, <1>10, <1>11, ShrinkKeeps

LEMMA SetLeaseSetUpdatedStep == GInv /\ SetLeaseSetUpdated => GInv'
<1> SUFFICES ASSUME GInv, SetLeaseSetUpdated
             PROVE  GInv'
  OBVIOUS
<1>1. UNCHANGED <<clock, wrapped, inTags, wire, confirms, current, created>> /\ leaseSet' \in Nat
  BY DEF SetLeaseSetUpdated, GInv, GType
<1>2. \A g \in Objects : Once(routing[g].tags)
  BY DEF GInv, TagsOnce
<1>3. routing' \in [Objects -> GSession]
      /\ \A g \in Objects : /\ routing'[g].tags = routing[g].tags
                            /\ routing'[g].unconfirmed = routing[g].unconfirmed
  <2>1. CASE current = 0
    BY <2>1 DEF SetLeaseSetUpdated, GInv, GType
  <2>2. CASE current # 0
    <3>1. current \in Objects /\ routing[current] \in GSession
      BY <2>2 DEF GInv, GType
    <3>2. PICK s : s = [routing[current] EXCEPT !.status = "Updated"]
      OBVIOUS
    <3>3. s \in GSession /\ s.tags = routing[current].tags /\ s.unconfirmed = routing[current].unconfirmed
      BY <3>1, <3>2 DEF GSession
    <3>4. routing' = [routing EXCEPT ![current] = s]
      BY <2>2, <3>2 DEF SetLeaseSetUpdated
    <3> QED
      BY <3>1, <3>3, <3>4 DEF GInv, GType
  <2> QED
    BY <2>1, <2>2
<1>4. clock' \in Nat /\ clock <= clock'
  BY <1>1 DEF GInv, GType
<1>5. current' \in Objects \cup {0} /\ created' \in [Msgs -> Objects \cup {0}]
  BY <1>1 DEF GInv, GType
<1>6. \A g \in Objects : /\ Once(routing'[g].tags)
                         /\ Range(routing'[g].tags) \subseteq Held(g)
                         /\ routing'[g].unconfirmed \subseteq Unconfirmed(g)
  BY <1>2, <1>3 DEF Held, Unconfirmed
<1> QED
  BY <1>1, <1>3, <1>4, <1>5, <1>6, ShrinkKeeps

LEMMA TagTypes ==
  ASSUME GType
  PROVE  /\ \A g \in Objects : \A t \in Held(g) : t \in GTag /\ t.msg \in Nat /\ t.made \in Nat
         /\ \A g \in Objects : \A u \in Unconfirmed(g) :
              u \in [msg : Nat, made : Nat] /\ u.msg \in Nat /\ u.made \in Nat
         /\ \A x \in wire : /\ x.tag \in GTag /\ x.tag.msg \in Nat /\ x.tag.made \in Nat
                            /\ x.id \in Nat /\ x.made \in Nat
<1>1. ASSUME NEW g \in Objects, NEW t \in Held(g)
      PROVE  t \in GTag
  <2>1. routing[g] \in GSession
    BY DEF GType
  <2>2. routing[g].tags \in Seq(GTag)
    BY <2>1 DEF GSession
  <2> QED
    BY <2>2 DEF Held, Range
<1>2. ASSUME NEW g \in Objects, NEW u \in Unconfirmed(g)
      PROVE  u \in [msg : Nat, made : Nat]
  <2>1. routing[g] \in GSession
    BY DEF GType
  <2> QED
    BY <2>1 DEF GSession, Unconfirmed
<1>3. \A x \in wire : x \in GMessage
  BY DEF GType
<1>4. \A t \in GTag : t.msg \in Nat /\ t.made \in Nat
  BY DEF GTag
<1>5. \A x \in GMessage : x.tag \in GTag /\ x.id \in Nat /\ x.made \in Nat
  BY DEF GMessage
<1> QED
  BY <1>1, <1>2, <1>3, <1>4, <1>5

(* A message takes its tag out of its session, and only then may its own    *)
(* tags wait for a confirmation.                                            *)
LEMMA WrapKeeps ==
  ASSUME GInv, NEW g \in Objects, NEW f \in GSession, NEW x \in GMessage,
         Once(f.tags), Range(f.tags) \subseteq Held(g),
         \/ x.tag = NoTag
         \/ x.tag \in Held(g) /\ x.tag \notin Range(f.tags) /\ clock < x.tag.made + Outgoing,
         x.id = wrapped + 1, x.made = clock,
         NEW new, new = [msg |-> wrapped + 1, made |-> clock],
         f.unconfirmed \subseteq Unconfirmed(g) \cup {new},
         new \in f.unconfirmed => x.newTags = TRUE,
         routing' = [routing EXCEPT ![g] = f], wire' = wire \cup {x}, wrapped' = wrapped + 1,
         current' \in Objects \cup {0}, created' \in [Msgs -> Objects \cup {0}],
         UNCHANGED <<clock, inTags, confirms, leaseSet>>
  PROVE  GInv'
<1>1. /\ routing' \in [Objects -> GSession] /\ routing'[g] = f
      /\ \A h \in Objects : h # g => routing'[h] = routing[h]
  BY DEF GInv, GType
<1>2. GType'
  BY <1>1 DEF GInv, GType
<1>3. /\ \A h \in Objects : \A t \in Held(h)' : t \in Held(h)
      /\ \A h \in Objects : \A u \in Unconfirmed(h)' : u \in Unconfirmed(h) \/ (h = g /\ u = new)
      /\ \A t \in Held(g)' : t # x.tag \/ x.tag = NoTag
  BY <1>1 DEF Held, Unconfirmed
<1>4. wrapped \in Nat /\ clock \in Nat
  BY DEF GInv, GType
<1>5. new.msg = wrapped + 1 /\ new.made = clock
  OBVIOUS
<1>6. /\ \A h \in Objects : \A t \in Held(h) : t \in GTag /\ t.msg \in Nat /\ t.made \in Nat
      /\ \A h \in Objects : \A u \in Unconfirmed(h) : u.msg \in Nat /\ u.made \in Nat
      /\ \A y \in wire : y.tag \in GTag /\ y.tag.msg \in Nat /\ y.id \in Nat /\ y.made \in Nat
  BY TagTypes DEF GInv
<1>7. /\ \A y \in wire : y.id <= wrapped /\ y.made <= clock /\ y.tag.msg <= wrapped
      /\ \A h \in Objects : /\ \A u \in Unconfirmed(h) : 0 < u.msg /\ u.msg <= wrapped
                            /\ \A t \in Held(h) : 0 < t.msg /\ t.msg <= wrapped
  BY DEF GInv, Numbered
<1>8. x.tag.msg \in Nat /\ x.tag.msg <= wrapped /\ (x.tag # NoTag => 0 < x.tag.msg)
  BY <1>4, <1>6, <1>7, GarlicFacts
<1>9. Numbered'
  <2>1. \A m \in confirms : m \in Nat /\ m <= wrapped
    BY DEF GInv, GType, Numbered
  <2>2. \A m \in confirms' : m <= wrapped'
    BY <1>4, <2>1
  <2>3. \A y \in wire' : y.id <= wrapped' /\ y.made <= clock' /\ y.tag.msg <= wrapped'
    BY <1>4, <1>6, <1>7, <1>8
  <2>4. \A h \in Objects : \A u \in Unconfirmed(h)' : 0 < u.msg /\ u.msg <= wrapped'
    BY <1>3, <1>4, <1>5, <1>6, <1>7
  <2>5. \A h \in Objects : \A t \in Held(h)' : 0 < t.msg /\ t.msg <= wrapped'
    BY <1>3, <1>4, <1>6, <1>7
  <2> QED
    BY <2>2, <2>3, <2>4, <2>5 DEF Numbered
<1>10. TagsOnce'
  <2>1. \A h \in Objects : Once(routing'[h].tags)
    BY <1>1 DEF GInv, TagsOnce
  <2>2. \A h, i \in Objects : h # i => \A t \in Held(h)' : t \notin Held(i)'
    BY <1>3 DEF GInv, TagsOnce
  <2>3. \A y \in wire' : y.tag # NoTag => 0 < y.tag.msg
    BY <1>8 DEF GInv, TagsOnce
  <2>4. \A h \in Objects, y \in wire' : y.tag \notin Held(h)'
    <3>1. \A h \in Objects, y \in wire : y.tag \notin Held(h)'
      BY <1>3 DEF GInv, TagsOnce
    <3>2. ASSUME NEW h \in Objects, x.tag \in Held(h)'
          PROVE  FALSE
      <4>1. x.tag # NoTag
        BY <1>3, <1>7, <3>2, GarlicFacts
      <4>2. x.tag \in Held(g) /\ h # g
        BY <1>1, <3>2, <4>1 DEF Held
      <4> QED
        BY <1>3, <3>2, <4>2 DEF GInv, TagsOnce
    <3> QED
      BY <3>1, <3>2
  <2>5. \A y, z \in wire' : y.id = z.id => y = z
    <3>1. \A y \in wire : y.id # x.id
      BY <1>4, <1>6, <1>7
    <3> QED
      BY <3>1 DEF GInv, TagsOnce
  <2>6. \A y, z \in wire' : y.tag = z.tag /\ y.tag # NoTag => y = z
    <3>1. \A y \in wire : y.tag = x.tag => x.tag = NoTag
      BY DEF GInv, TagsOnce
    <3> QED
      BY <3>1 DEF GInv, TagsOnce
  <2>7. \A h, i \in Objects : \A u \in Unconfirmed(h)' : \A t \in Held(i)' : t.msg # u.msg
    <3>1. \A i \in Objects : \A t \in Held(i)' : t.msg # new.msg
      BY <1>3, <1>4, <1>5, <1>6, <1>7
    <3> QED
      BY <1>3, <3>1 DEF GInv, TagsOnce
  <2>8. \A h \in Objects : \A u \in Unconfirmed(h)' : \A y \in wire' : y.tag.msg # u.msg
    <3>1. \A y \in wire' : y.tag.msg # new.msg
      BY <1>4, <1>5, <1>6, <1>7, <1>8
    <3>2. \A h \in Objects : \A u \in Unconfirmed(h) : x.tag.msg # u.msg
      BY <1>7, GarlicFacts DEF GInv, TagsOnce
    <3> QED
      BY <1>3, <3>1, <3>2 DEF GInv, TagsOnce
  <2>9. \A h, i \in Objects : \A u \in Unconfirmed(h)', v \in Unconfirmed(i)' :
          u.msg = v.msg => h = i /\ u = v
    <3>1. \A h \in Objects : \A u \in Unconfirmed(h) : u.msg # new.msg
      BY <1>4, <1>5, <1>6, <1>7
    <3> QED
      BY <1>3, <3>1 DEF GInv, TagsOnce
  <2> QED
    BY <2>1, <2>2, <2>3, <2>4, <2>5, <2>6, <2>7, <2>8, <2>9 DEF TagsOnce
<1>11. ReceiverHas'
  <2>1. \A t : Has(t)' <=> Has(t)
    BY DEF Has
  <2>2. \A h \in Objects : \A t \in Held(h)' : Has(t)'
    BY <1>3, <2>1 DEF GInv, ReceiverHas
  <2>3. \A y \in wire' : y.tag # NoTag => Has(y.tag)' /\ y.made < y.tag.made + Outgoing
    <3>1. x.tag # NoTag => Has(x.tag) /\ x.made < x.tag.made + Outgoing
      BY DEF GInv, ReceiverHas
    <3> QED
      BY <2>1, <3>1 DEF GInv, ReceiverHas
  <2>4. ASSUME NEW h \in Objects, NEW u \in Unconfirmed(h)'
        PROVE  /\ u.msg \in confirms' => \A n \in 1 .. NumTags : Has(Tag(u.msg, n, u.made))'
               /\ \A y \in wire' : y.id = u.msg => y.made = u.made /\ y.newTags = TRUE
    <3>1. CASE u \in Unconfirmed(h)
      <4>1. x.id # u.msg
        BY <1>4, <1>6, <1>7, <3>1
      <4>2. u.msg \in confirms => \A n \in 1 .. NumTags : Has(Tag(u.msg, n, u.made))
        BY <3>1 DEF GInv, ReceiverHas
      <4>3. \A y \in wire : y.id = u.msg => y.made = u.made /\ y.newTags = TRUE
        BY <3>1 DEF GInv, ReceiverHas
      <4> QED
        BY <2>1, <4>1, <4>2, <4>3
    <3>2. CASE u = new /\ h = g
      <4>1. new.msg \notin confirms
        BY <1>4, <1>5 DEF GInv, GType, Numbered
      <4>2. \A y \in wire : y.id # new.msg
        BY <1>4, <1>5, <1>6, <1>7
      <4>3. x.newTags = TRUE /\ x.made = new.made
        BY <1>1, <1>5, <2>4, <3>2 DEF Unconfirmed
      <4> QED
        BY <3>2, <4>1, <4>2, <4>3
    <3> QED
      BY <1>3, <2>4, <3>1, <3>2
  <2> QED
    BY <2>2, <2>3, <2>4 DEF ReceiverHas
<1> QED
  BY <1>2, <1>9, <1>10, <1>11 DEF GInv

LEMMA WrapMessageStep ==
  ASSUME GInv, NEW inbound \in BOOLEAN, WrapMessage(inbound)
  PROVE  GInv'
<1>1. PICK g : g = IF current # 0 THEN current ELSE CHOOSE x \in Objects : routing[x] = NoRouting
  OBVIOUS
<1>2. g \in Objects
  <2>1. CASE current # 0
    BY <1>1, <2>1 DEF GInv, GType
  <2>2. CASE current = 0
    BY <1>1, <2>2 DEF WrapMessage
  <2> QED
    BY <2>1, <2>2
<1>3. PICK s : s = GetRoutingSession(g)
  OBVIOUS
<1>4. /\ s \in GSession /\ Once(s.tags) /\ Range(s.tags) \subseteq Held(g)
      /\ s.unconfirmed \subseteq Unconfirmed(g)
  <2>1. CASE current # 0
    BY <1>2, <1>3, <2>1 DEF GetRoutingSession, GInv, GType, TagsOnce, Held, Unconfirmed
  <2>2. CASE current = 0
    <3>1. s = NewRouting
      BY <1>3, <2>2 DEF GetRoutingSession
    <3> QED
      BY <3>1, GarlicFacts, EmptyOnce
  <2> QED
    BY <2>1, <2>2
<1>5. PICK rest, tag : rest = AfterTag(s.tags) /\ tag = FirstTag(s.tags)
  OBVIOUS
<1>6. /\ rest \in Seq(GTag) /\ Once(rest) /\ Range(rest) \subseteq Held(g)
      /\ \/ tag = NoTag
         \/ tag \in Held(g) /\ tag \notin Range(rest) /\ clock < tag.made + Outgoing
  <2>1. s.tags \in Seq(GTag)
    BY <1>4 DEF GSession
  <2> QED
    BY <1>4, <1>5, <2>1, AfterTagFacts DEF Usable
<1>7. PICK newTags : newTags = (Len(rest) <= (NumTags * 2) \div 3)
  OBVIOUS
<1>8. PICK base : base = [s EXCEPT !.tags = rest]
  OBVIOUS
<1>9. base \in GSession /\ base.tags = rest /\ base.unconfirmed = s.unconfirmed
  BY <1>4, <1>6, <1>8 DEF GSession
<1>10. PICK r : r = Resubmitted(base)
  OBVIOUS
<1>11. r \in GSession /\ r.tags = rest /\ r.unconfirmed = s.unconfirmed
  <2>1. r \in {base, [base EXCEPT !.status = "Updated"]}
    BY <1>10 DEF Resubmitted
  <2> QED
    BY <1>9, <2>1 DEF GSession
<1>12. PICK attach : attach = (r.status = "Updated")
  OBVIOUS
<1>13. PICK status : status = CreateDeliveryStatusClove(inbound, newTags \/ attach)
  OBVIOUS
<1>14. newTags \in BOOLEAN /\ attach \in BOOLEAN /\ status \in BOOLEAN
  BY <1>7, <1>12, <1>13 DEF CreateDeliveryStatusClove
<1>15. PICK new : new = [msg |-> wrapped + 1, made |-> clock]
  OBVIOUS
<1>16. wrapped \in Nat /\ clock \in Nat /\ leaseSet \in Nat
  BY DEF GInv, GType
<1>17. new \in [msg : Nat, made : Nat] /\ new \notin Unconfirmed(g)
  <2>1. new.msg = wrapped + 1
    BY <1>15
  <2>2. \A u \in Unconfirmed(g) : u.msg \in Nat /\ u.msg <= wrapped
    BY <1>2, TagTypes DEF GInv, Numbered
  <2> QED
    BY <1>15, <1>16, <2>1, <2>2
<1>18. PICK t : t = IF status /\ newTags THEN [r EXCEPT !.unconfirmed = @ \cup {new}] ELSE r
  OBVIOUS
<1>19. /\ t \in GSession /\ t.tags = rest /\ t.unconfirmed \subseteq Unconfirmed(g) \cup {new}
       /\ new \in t.unconfirmed => newTags = TRUE
  <2>1. CASE status /\ newTags
    <3>1. t = [r EXCEPT !.unconfirmed = @ \cup {new}]
      BY <1>18, <2>1
    <3>2. r.unconfirmed \cup {new} \subseteq [msg : Nat, made : Nat]
      BY <1>11, <1>17 DEF GSession
    <3> QED
      BY <1>4, <1>11, <1>14, <2>1, <3>1, <3>2 DEF GSession
  <2>2. CASE ~(status /\ newTags)
    <3>1. t = r
      BY <1>18, <2>2
    <3> QED
      BY <1>4, <1>11, <1>17, <3>1
  <2> QED
    BY <2>1, <2>2
<1>20. PICK f : f = IF attach THEN [t EXCEPT !.status = "Submitted", !.lsMsg = wrapped + 1, !.lsTime = clock] ELSE t
  OBVIOUS
<1>21. f \in GSession /\ f.tags = t.tags /\ f.unconfirmed = t.unconfirmed
  <2>1. CASE attach
    <3>1. PICK t1 : t1 = [t EXCEPT !.status = "Submitted"]
      OBVIOUS
    <3>2. t1 \in GSession /\ t1.tags = t.tags /\ t1.unconfirmed = t.unconfirmed
      BY <1>19, <3>1 DEF GSession
    <3>3. PICK t2 : t2 = [t1 EXCEPT !.lsMsg = wrapped + 1]
      OBVIOUS
    <3>4. t2 \in GSession /\ t2.tags = t.tags /\ t2.unconfirmed = t.unconfirmed
      BY <1>16, <3>2, <3>3 DEF GSession
    <3>5. PICK t3 : t3 = [t2 EXCEPT !.lsTime = clock]
      OBVIOUS
    <3>6. t3 \in GSession /\ t3.tags = t.tags /\ t3.unconfirmed = t.unconfirmed
      BY <1>16, <3>4, <3>5 DEF GSession
    <3>7. f = t3
      BY <1>20, <2>1, <3>1, <3>3, <3>5
    <3> QED
      BY <3>6, <3>7
  <2>2. CASE ~attach
    <3>1. f = t
      BY <1>20, <2>2
    <3> QED
      BY <1>19, <3>1
  <2> QED
    BY <2>1, <2>2
<1>22. PICK ls : ls = IF attach THEN leaseSet ELSE 0
  OBVIOUS
<1>23. PICK x : x = [id |-> wrapped + 1, tag |-> tag, newTags |-> newTags, made |-> clock,
                     status |-> status, ls |-> ls]
  OBVIOUS
<1>24. /\ x \in GMessage /\ x.id = wrapped + 1 /\ x.tag = tag /\ x.newTags = newTags /\ x.made = clock
  <2>1. tag \in GTag
    BY <1>2, <1>6, GarlicFacts, TagTypes DEF GInv
  <2>2. ls \in Nat
    BY <1>16, <1>22
  <2> QED
    BY <1>14, <1>16, <1>23, <2>1, <2>2 DEF GMessage
<1>25. /\ wrapped + 1 <= MaxMessages
       /\ routing' = [routing EXCEPT ![g] = f]
       /\ created' = IF status THEN [created EXCEPT ![wrapped + 1] = g] ELSE created
       /\ current' = g /\ wrapped' = wrapped + 1
       /\ wire' = wire \cup {x}
       /\ UNCHANGED <<clock, inTags, confirms, leaseSet>>
  BY <1>1, <1>3, <1>5, <1>7, <1>8, <1>10, <1>12, <1>13, <1>15, <1>18, <1>20, <1>22, <1>23, Zenon
     DEF WrapMessage
<1>26. created' \in [Msgs -> Objects \cup {0}]
  BY <1>2, <1>25 DEF GInv, GType
<1> QED
  BY <1>2, <1>6, <1>15, <1>19, <1>21, <1>24, <1>25, <1>26, WrapKeeps

(* A message that arrives leaves the tags it carries with the receiver, who *)
(* forgets the tag it came under and those that are too old.                *)
LEMMA ReceiveKeeps ==
  ASSUME GInv, NEW x \in wire, wire' \subseteq wire \ {x},
         NEW new, new = {<<t, clock>> : t \in {Tag(x.id, n, x.made) : n \in 1 .. NumTags}},
         confirms' \subseteq confirms \cup {x.id},
         x.id \in confirms' => x.id \in confirms \/ (x.newTags = TRUE => new \subseteq inTags'),
         inTags' \subseteq inTags \cup new,
         \A e \in inTags : e[1] # x.tag /\ clock <= e[2] + Incoming => e \in inTags',
         UNCHANGED <<clock, routing, current, created, wrapped, leaseSet>>
  PROVE  GInv'
<1>1. /\ clock \in Nat /\ inTags \subseteq GTag \X Nat /\ Incoming \in Nat /\ Outgoing \in Nat
      /\ x.id \in Nat /\ x.made \in Nat /\ x.id <= wrapped /\ x.made <= clock
  BY TagTypes, GarlicFacts DEF GInv, GType, Numbered
<1>2. new \subseteq GTag \X Nat
  <2>1. \A n \in 1 .. NumTags : Tag(x.id, n, x.made) \in GTag
    BY <1>1, GarlicFacts
  <2> QED
    BY <1>1, <2>1
<1>3. GType'
  BY <1>1, <1>2 DEF GInv, GType
<1>4. /\ \A h \in Objects : Held(h)' = Held(h) /\ Unconfirmed(h)' = Unconfirmed(h)
      /\ \A h \in Objects : routing'[h] = routing[h]
  BY DEF Held, Unconfirmed
<1>5. Numbered'
  BY <1>1, <1>4 DEF GInv, Numbered
<1>6. TagsOnce'
  BY <1>4 DEF GInv, TagsOnce
<1>7. ASSUME NEW t \in GTag, Has(t), t # x.tag
      PROVE  Has(t)'
  <2> SUFFICES ASSUME clock <= t.made + Incoming
               PROVE  \E e \in inTags' : e[1] = t /\ e[2] >= t.made
    BY DEF Has
  <2>1. PICK e \in inTags : e[1] = t /\ e[2] >= t.made
    BY <1>7 DEF Has
  <2>2. e[2] \in Nat /\ t.made \in Nat
    BY <1>1, <2>1 DEF GTag
  <2>3. clock <= e[2] + Incoming
    BY <1>1, <2>1, <2>2
  <2> QED
    BY <1>7, <2>1, <2>3
<1>8. ReceiverHas'
  <2>1. \A h \in Objects : \A t \in Held(h)' : Has(t)'
    BY <1>4, <1>7, TagTypes DEF GInv, ReceiverHas, TagsOnce
  <2>2. \A y \in wire' : y.tag # NoTag => Has(y.tag)' /\ y.made < y.tag.made + Outgoing
    BY <1>7, TagTypes DEF GInv, ReceiverHas, TagsOnce
  <2>3. \A h \in Objects : \A u \in Unconfirmed(h)' : \A y \in wire' :
          y.id = u.msg => y.made = u.made /\ y.newTags = TRUE
    BY <1>4 DEF GInv, ReceiverHas
  <2>4. ASSUME NEW h \in Objects, NEW u \in Unconfirmed(h)', u.msg \in confirms', NEW n \in 1 .. NumTags
        PROVE  Has(Tag(u.msg, n, u.made))'
    <3>1. u \in Unconfirmed(h) /\ u.msg \in Nat /\ u.made \in Nat /\ n \in Nat
      BY <1>4, TagTypes, GarlicFacts DEF GInv
    <3>2. PICK t : t = Tag(u.msg, n, u.made)
      OBVIOUS
    <3>3. t \in GTag /\ t.msg = u.msg /\ t.made = u.made
      BY <3>1, <3>2 DEF Tag, GTag
    <3>4. t # x.tag
      BY <3>1, <3>3 DEF GInv, TagsOnce
    <3>5. CASE u.msg \in confirms
      <4>1. Has(t)
        BY <3>1, <3>2, <3>5 DEF GInv, ReceiverHas
      <4>2. Has(t)'
        BY <1>7, <3>3, <3>4, <4>1
      <4> QED
        BY <3>2, <4>2
    <3>6. CASE u.msg \notin confirms
      <4>1. u.msg = x.id /\ x.id \in confirms'
        BY <2>4, <3>6
      <4>2. x.made = u.made /\ x.newTags = TRUE
        BY <3>1, <4>1 DEF GInv, ReceiverHas
      <4>3. <<t, clock>> \in inTags'
        BY <3>2, <3>6, <4>1, <4>2
      <4>4. t.made <= clock
        BY <1>1, <3>3, <4>2
      <4>5. Has(t)'
        BY <1>1, <3>3, <4>3, <4>4 DEF Has
      <4> QED
        BY <3>2, <4>5
    <3> QED
      BY <3>5, <3>6
  <2> QED
    BY <2>1, <2>2, <2>3, <2>4 DEF ReceiverHas
<1> QED
  BY <1>3, <1>5, <1>6, <1>8 DEF GInv

LEMMA ReceiveStep ==
  ASSUME GInv, NEW x \in wire, HandleGarlicMessage(x)
  PROVE  GInv'
<1>1. PICK new : new = {<<t, clock>> : t \in {Tag(x.id, n, x.made) : n \in 1 .. NumTags}}
  OBVIOUS
<1>2. {<<t, clock>> : t \in Tags(x)} = new
  BY <1>1 DEF Tags, GenerateSessionTags, Range
<1>3. /\ wire' = wire \ {x}
      /\ UNCHANGED <<clock, routing, current, created, wrapped, leaseSet>>
  BY DEF HandleGarlicMessage
<1>4. \A e \in inTags : e[2] \in Nat
  BY DEF GInv, GType
<1>5. clock \in Nat /\ Incoming \in Nat
  BY GarlicFacts DEF GInv, GType
<1>6. CASE Decrypts(x)
  <2>1. confirms' = IF x.status THEN confirms \cup {x.id} ELSE confirms
    BY <1>6 DEF HandleGarlicMessage, HandleGarlicPayload
  <2>2. PICK old : old = {e \in inTags : e[1] # x.tag}
    OBVIOUS
  <2>3. PICK all : all = old \cup (IF x.newTags THEN new ELSE {})
    OBVIOUS
  <2>4. CleanupTags(all)
    BY <1>2, <1>6, <2>2, <2>3, Zenon DEF HandleGarlicMessage
  <2>5. inTags' \in {all, {e \in all : ~(clock > e[2] + Incoming)}}
    BY <2>4 DEF CleanupTags
  <2>6. inTags' \subseteq inTags \cup new
    BY <2>2, <2>3, <2>5
  <2>7. \A e \in inTags : e[1] # x.tag /\ clock <= e[2] + Incoming => e \in inTags'
    BY <1>4, <1>5, <2>2, <2>3, <2>5
  <2>8. x.newTags = TRUE => new \subseteq inTags'
    <3>1. \A e \in new : ~(clock > e[2] + Incoming)
      BY <1>1, <1>5
    <3> QED
      BY <2>3, <2>5, <3>1
  <2> QED
    BY <1>1, <1>3, <2>1, <2>6, <2>7, <2>8, ReceiveKeeps
<1>7. CASE ~Decrypts(x)
  <2>1. confirms' = confirms /\ CleanupTags(inTags)
    BY <1>7 DEF HandleGarlicMessage
  <2>2. inTags' \in {inTags, {e \in inTags : ~(clock > e[2] + Incoming)}}
    BY <2>1 DEF CleanupTags
  <2>3. \A e \in inTags : e[1] # x.tag /\ clock <= e[2] + Incoming => e \in inTags'
    BY <1>4, <1>5, <2>2
  <2> QED
    BY <1>1, <1>3, <2>1, <2>2, <2>3, ReceiveKeeps
<1> QED
  BY <1>6, <1>7

LEMMA LostOrTickStep ==
  ASSUME GInv, (\E x \in wire : Lost(x)) \/ GarlicTick
  PROVE  GInv'
<1>1. /\ UNCHANGED <<routing, current, created, wrapped, inTags, confirms, leaseSet>>
      /\ wire' \subseteq wire /\ clock' \in Nat /\ clock <= clock'
  BY DEF Lost, GarlicTick, GInv, GType
<1>2. \A g \in Objects : /\ Once(routing'[g].tags)
                         /\ Range(routing'[g].tags) \subseteq Held(g)
                         /\ routing'[g].unconfirmed \subseteq Unconfirmed(g)
  BY <1>1 DEF GInv, TagsOnce, Held, Unconfirmed
<1>3. /\ routing' \in [Objects -> GSession] /\ current' \in Objects \cup {0}
      /\ created' \in [Msgs -> Objects \cup {0}] /\ leaseSet' \in Nat
  BY <1>1 DEF GInv, GType
<1> QED
  BY <1>1, <1>2, <1>3, ShrinkKeeps

(* A confirmation gives the session of the message the tags it carried.     *)
LEMMA ConfirmKeeps ==
  ASSUME GInv, NEW g \in Objects, NEW u \in Unconfirmed(g), u.msg \in confirms, confirms' \subseteq confirms,
         NEW new, new = {Tag(u.msg, n, u.made) : n \in 1 .. NumTags},
         routing' \in [Objects -> GSession],
         \A h \in Objects : /\ Once(routing'[h].tags)
                            /\ \A x \in Range(routing'[h].tags) : x \in Held(h) \/ (h = g /\ x \in new)
                            /\ routing'[h].unconfirmed \subseteq Unconfirmed(h) \ {u},
         created' \in [Msgs -> Objects \cup {0}],
         UNCHANGED <<clock, current, wrapped, inTags, wire, leaseSet>>
  PROVE  GInv'
<1>1. GType'
  BY DEF GInv, GType
<1>2. /\ \A h \in Objects : \A t \in Held(h)' : t \in Held(h) \/ (h = g /\ t \in new)
      /\ \A h \in Objects : \A v \in Unconfirmed(h)' : v \in Unconfirmed(h) /\ v # u
  BY DEF Held, Unconfirmed
<1>3. \A t \in new : t.msg = u.msg
  BY DEF Tag
<1>4. 0 < u.msg /\ u.msg <= wrapped
  BY DEF GInv, Numbered
<1>5. Numbered'
  BY <1>2, <1>3, <1>4 DEF GInv, Numbered
<1>6. /\ \A h \in Objects : \A t \in Held(h) : t \notin new
      /\ \A x \in wire : x.tag \notin new
      /\ \A h \in Objects : \A v \in Unconfirmed(h)' : v.msg # u.msg
  BY <1>2, <1>3 DEF GInv, TagsOnce
<1>7. TagsOnce'
  <2>1. \A h \in Objects : Once(routing'[h].tags)
    OBVIOUS
  <2>2. \A h, i \in Objects : h # i => \A t \in Held(h)' : t \notin Held(i)'
    BY <1>2, <1>6 DEF GInv, TagsOnce
  <2>3. \A h \in Objects, x \in wire' : x.tag \notin Held(h)'
    BY <1>2, <1>6 DEF GInv, TagsOnce
  <2>4. \A h, i \in Objects : \A v \in Unconfirmed(h)' : \A t \in Held(i)' : t.msg # v.msg
    BY <1>2, <1>3, <1>6 DEF GInv, TagsOnce
  <2>5. \A h \in Objects : \A v \in Unconfirmed(h)' : \A x \in wire' : x.tag.msg # v.msg
    BY <1>2 DEF GInv, TagsOnce
  <2>6. \A h, i \in Objects : \A v \in Unconfirmed(h)', w \in Unconfirmed(i)' :
          v.msg = w.msg => h = i /\ v = w
    BY <1>2 DEF GInv, TagsOnce
  <2> QED
    BY <2>1, <2>2, <2>3, <2>4, <2>5, <2>6 DEF GInv, TagsOnce
<1>8. ReceiverHas'
  <2>1. \A t : Has(t)' <=> Has(t)
    BY DEF Has
  <2>2. \A t \in new : Has(t)
    BY DEF GInv, ReceiverHas
  <2>3. \A h \in Objects : \A t \in Held(h)' : Has(t)'
    BY <1>2, <2>1, <2>2 DEF GInv, ReceiverHas
  <2>4. \A x \in wire' : x.tag # NoTag => Has(x.tag)' /\ x.made < x.tag.made + Outgoing
    BY <2>1 DEF GInv, ReceiverHas
  <2>5. \A h \in Objects : \A v \in Unconfirmed(h)' :
          v.msg \in confirms' => \A n \in 1 .. NumTags : Has(Tag(v.msg, n, v.made))'
    BY <1>2, <2>1 DEF GInv, ReceiverHas
  <2>6. \A h \in Objects : \A v \in Unconfirmed(h)' : \A x \in wire' :
          x.id = v.msg => x.made = v.made /\ x.newTags = TRUE
    BY <1>2 DEF GInv, ReceiverHas
  <2> QED
    BY <2>3, <2>4, <2>5, <2>6 DEF ReceiverHas
<1> QED
  BY <1>1, <1>5, <1>7, <1>8 DEF GInv

(* What MessageConfirmed makes of a session: the tags that were confirmed   *)
(* are added, unless they are too old, and the message waits no more.       *)
LEMMA ConfirmedFacts ==
  ASSUME GType, NEW s \in GSession, Once(s.tags), NEW m \in Nat,
         NEW u \in s.unconfirmed, u.msg = m, \A v \in s.unconfirmed : v.msg = m => v = u,
         NEW new, \A n \in 1 .. NumTags : Tag(u.msg, n, u.made) \in new,
         \A t \in Range(s.tags) : t \notin new,
         NEW t, t = TagsConfirmed(s, m)
  PROVE  /\ t \in GSession /\ Once(t.tags)
         /\ Range(t.tags) \subseteq Range(s.tags) \cup new
         /\ t.unconfirmed \subseteq s.unconfirmed \ {u}
<1>1. PICK mine : mine = {v \in s.unconfirmed : v.msg = m}
  OBVIOUS
<1>2. mine = {u}
  BY <1>1
<1>3. PICK gen : gen = GenerateSessionTags(m, u.made)
  OBVIOUS
<1>4. /\ s.tags \in Seq(GTag) /\ u.made \in Nat /\ NumTags \in Nat
      /\ s.unconfirmed \subseteq [msg : Nat, made : Nat]
  BY GarlicFacts DEF GSession
<1>5. gen \in Seq(GTag) /\ Once(gen) /\ Range(gen) \subseteq new
  <2>1. gen = [n \in 1 .. NumTags |-> Tag(m, n, u.made)]
    BY <1>3 DEF GenerateSessionTags
  <2>2. \A n \in 1 .. NumTags : Tag(m, n, u.made) \in GTag /\ Tag(m, n, u.made).n = n
    BY <1>4 DEF Tag, GTag
  <2>3. gen \in Seq(GTag)
    BY <1>4, <2>1, <2>2, IsASeq
  <2>4. Once(gen)
    BY <2>1, <2>2 DEF Once
  <2>5. Range(gen) \subseteq new
    BY <2>1 DEF Range
  <2> QED
    BY <2>3, <2>4, <2>5
<1>6. PICK both : both = s.tags \o gen
  OBVIOUS
<1>7. both \in Seq(GTag) /\ Once(both) /\ Range(both) \subseteq Range(s.tags) \cup new
  BY <1>4, <1>5, <1>6, ConcatOnce
<1>8. PICK q : q = IF clock < u.made + Outgoing THEN both ELSE s.tags
  OBVIOUS
<1>9. q \in Seq(GTag) /\ Once(q) /\ Range(q) \subseteq Range(s.tags) \cup new
  BY <1>4, <1>7, <1>8
<1>10. PICK w : w = s.unconfirmed \ {u}
  OBVIOUS
<1>11. t = [s EXCEPT !.unconfirmed = w, !.tags = q]
  <2>1. (CHOOSE v \in {v \in s.unconfirmed : v.msg = m} : TRUE) = u
    BY <1>1, <1>2
  <2>2. {v \in s.unconfirmed : v.msg = m} = {u}
    BY <1>1, <1>2
  <2> QED
    BY <1>3, <1>6, <1>8, <1>10, <2>1, <2>2 DEF TagsConfirmed
<1>12. PICK a : a = [s EXCEPT !.unconfirmed = w]
  OBVIOUS
<1>13. w \subseteq [msg : Nat, made : Nat]
  BY <1>4, <1>10
<1>14. a \in GSession /\ a.unconfirmed = w
  BY <1>12, <1>13 DEF GSession
<1>15. t = [a EXCEPT !.tags = q]
  BY <1>11, <1>12
<1>16. t \in GSession /\ t.unconfirmed = w /\ t.tags = q
  BY <1>9, <1>14, <1>15 DEF GSession
<1> QED
  BY <1>9, <1>10, <1>16

(* MessageConfirmed, whether the LeaseSet is confirmed or tags are cleaned. *)
LEMMA MessageConfirmedFacts ==
  ASSUME NEW s \in GSession, NEW m \in Nat, NEW t \in GSession, Once(t.tags),
         t = TagsConfirmed(s, m), NEW f, f = MessageConfirmed(s, m)
  PROVE  /\ f \in GSession /\ Once(f.tags) /\ Range(f.tags) \subseteq Range(t.tags)
         /\ f.unconfirmed \subseteq t.unconfirmed
<1>1. PICK a : a = [t EXCEPT !.status = "UpToDate"]
  OBVIOUS
<1>2. a \in GSession /\ a.tags = t.tags /\ a.unconfirmed = t.unconfirmed
  BY <1>1 DEF GSession
<1>3. f \in {a, CleanupExpiredTags(t)}
  BY <1>1 DEF MessageConfirmed
<1> QED
  BY <1>2, <1>3, CleanupFacts

LEMMA DeliveryStatusStep ==
  ASSUME GInv, NEW m \in Msgs, HandleDeliveryStatusMessage(m)
  PROVE  GInv'
<1>1. PICK g : g = created[m]
  OBVIOUS
<1>2. /\ m \in confirms /\ confirms' = confirms \ {m} /\ m \in Nat
      /\ UNCHANGED <<clock, current, wrapped, inTags, wire, leaseSet>>
  BY GarlicFacts DEF HandleDeliveryStatusMessage, Msgs
<1>3. \A h \in Objects : Once(routing[h].tags) /\ routing[h] \in GSession
  BY DEF GInv, TagsOnce, GType
<1>4. clock' \in Nat /\ clock <= clock' /\ leaseSet' \in Nat /\ current' \in Objects \cup {0}
  BY <1>2 DEF GInv, GType
<1>5. CASE g = 0
  <2>1. UNCHANGED <<routing, created>>
    BY <1>1, <1>5 DEF HandleDeliveryStatusMessage
  <2>2. \A h \in Objects : /\ Once(routing'[h].tags)
                           /\ Range(routing'[h].tags) \subseteq Held(h)
                           /\ routing'[h].unconfirmed \subseteq Unconfirmed(h)
    BY <1>3, <2>1 DEF Held, Unconfirmed
  <2>3. routing' \in [Objects -> GSession] /\ created' \in [Msgs -> Objects \cup {0}]
    BY <2>1 DEF GInv, GType
  <2> QED
    BY <1>2, <1>4, <2>2, <2>3, ShrinkKeeps
<1>6. CASE g # 0
  <2>1. g \in Objects
    BY <1>1, <1>6 DEF GInv, GType
  <2>2. PICK s : s = routing[g]
    OBVIOUS
  <2>3. PICK f : f = MessageConfirmed(s, m)
    OBVIOUS
  <2>4. PICK t : t = TagsConfirmed(s, m)
    OBVIOUS
  <2>5. PICK r : r = [routing EXCEPT ![g] = f]
    OBVIOUS
  <2>6. \E gone : created' = Uncreated(gone)
    BY <1>1, <1>6 DEF HandleDeliveryStatusMessage
  <2>7. routing' = Kept(r, current, created')
    BY <1>1, <1>6, <2>2, <2>3, <2>5 DEF HandleDeliveryStatusMessage
  <2>8. created' \in [Msgs -> Objects \cup {0}]
    BY <2>6, UncreatedFacts DEF GInv
  <2>9. s \in GSession /\ Once(s.tags) /\ Range(s.tags) = Held(g) /\ s.unconfirmed = Unconfirmed(g)
    BY <1>3, <2>1, <2>2 DEF Held, Unconfirmed
  <2>10. ASSUME NEW new, NEW done, f \in GSession, Once(f.tags),
                Range(f.tags) \subseteq Held(g) \cup new,
                f.unconfirmed \subseteq Unconfirmed(g) \ done,
                \A h \in Objects : h # g => Unconfirmed(h) \cap done = {}
         PROVE  /\ routing' \in [Objects -> GSession]
                /\ \A h \in Objects : /\ Once(routing'[h].tags)
                                      /\ \A x \in Range(routing'[h].tags) : x \in Held(h) \/ (h = g /\ x \in new)
                                      /\ routing'[h].unconfirmed \subseteq Unconfirmed(h) \ done
    <3>1. /\ r \in [Objects -> GSession] /\ r[g] = f
          /\ \A h \in Objects : h # g => r[h] = routing[h]
      BY <2>1, <2>5, <2>10 DEF GInv, GType
    <3>2. /\ routing' \in [Objects -> GSession]
          /\ \A h \in Objects : routing'[h] \in {r[h], NoRouting}
      BY <2>7, <3>1, KeptFacts
    <3>3. ASSUME NEW h \in Objects
          PROVE  /\ Once(routing'[h].tags)
                 /\ \A x \in Range(routing'[h].tags) : x \in Held(h) \/ (h = g /\ x \in new)
                 /\ routing'[h].unconfirmed \subseteq Unconfirmed(h) \ done
      <4>1. CASE routing'[h] = NoRouting
        BY <4>1, GarlicFacts, EmptyOnce
      <4>2. CASE routing'[h] = f /\ h = g
        BY <2>10, <4>2
      <4>3. CASE routing'[h] = routing[h] /\ h # g
        BY <1>3, <2>10, <4>3 DEF Held, Unconfirmed
      <4> QED
        BY <3>1, <3>2, <4>1, <4>2, <4>3
    <3> QED
      BY <3>2, <3>3
  <2>11. CASE \A u \in Unconfirmed(g) : u.msg # m
    <3>1. {u \in s.unconfirmed : u.msg = m} = {}
      BY <2>9, <2>11
    <3>2. t = s
      BY <2>4, <3>1 DEF TagsConfirmed
    <3>3. f \in GSession /\ Once(f.tags) /\ Range(f.tags) \subseteq Held(g) /\ f.unconfirmed \subseteq Unconfirmed(g)
      <4>1. t \in GSession /\ Once(t.tags) /\ m \in Nat
        BY <1>2, <2>9, <3>2
      <4>2. /\ f \in GSession /\ Once(f.tags) /\ Range(f.tags) \subseteq Range(t.tags)
            /\ f.unconfirmed \subseteq t.unconfirmed
        BY <2>3, <2>4, <2>9, <4>1, MessageConfirmedFacts
      <4> QED
        BY <2>9, <3>2, <4>2
    <3>4. PICK no : no = {}
      OBVIOUS
    <3>5. /\ Range(f.tags) \subseteq Held(g) \cup no /\ f.unconfirmed \subseteq Unconfirmed(g) \ no
          /\ \A h \in Objects : h # g => Unconfirmed(h) \cap no = {}
      BY <3>3, <3>4
    <3>6. /\ routing' \in [Objects -> GSession]
          /\ \A h \in Objects : /\ Once(routing'[h].tags)
                                /\ \A x \in Range(routing'[h].tags) : x \in Held(h) \/ (h = g /\ x \in no)
                                /\ routing'[h].unconfirmed \subseteq Unconfirmed(h) \ no
      BY <2>10, <3>3, <3>5
    <3>7. \A h \in Objects : /\ Once(routing'[h].tags)
                             /\ Range(routing'[h].tags) \subseteq Held(h)
                             /\ routing'[h].unconfirmed \subseteq Unconfirmed(h)
      BY <3>4, <3>6
    <3> QED
      BY <1>2, <1>4, <2>8, <3>6, <3>7, ShrinkKeeps
  <2>12. CASE \E u \in Unconfirmed(g) : u.msg = m
    <3>1. PICK u \in Unconfirmed(g) : u.msg = m
      BY <2>12
    <3>2. \A h \in Objects : \A v \in Unconfirmed(h) : v.msg = m => h = g /\ v = u
      BY <2>1, <3>1 DEF GInv, TagsOnce
    <3>3. PICK new : new = {Tag(u.msg, n, u.made) : n \in 1 .. NumTags}
      OBVIOUS
    <3>4. \A x \in Range(s.tags) : x \notin new
      <4>1. \A x \in new : x.msg = u.msg
        BY <3>3 DEF Tag
      <4> QED
        BY <2>1, <2>9, <4>1 DEF GInv, TagsOnce
    <3>5. /\ t \in GSession /\ Once(t.tags) /\ Range(t.tags) \subseteq Held(g) \cup new
          /\ t.unconfirmed \subseteq Unconfirmed(g) \ {u}
      <4>1. GType
        BY DEF GInv
      <4>2. /\ u \in s.unconfirmed /\ \A v \in s.unconfirmed : v.msg = m => v = u
            /\ s \in GSession /\ Once(s.tags) /\ m \in Nat /\ u.msg = m
        <5>1. u \in s.unconfirmed /\ s \in GSession /\ Once(s.tags) /\ m \in Nat /\ u.msg = m
          BY <1>2, <2>9, <3>1
        <5>2. \A v \in Unconfirmed(g) : v.msg = m => v = u
          BY <2>1, <3>2
        <5> QED
          BY <2>9, <5>1, <5>2
      <4>3. /\ t \in GSession /\ Once(t.tags) /\ Range(t.tags) \subseteq Range(s.tags) \cup new
            /\ t.unconfirmed \subseteq s.unconfirmed \ {u}
        <5>1. \A n \in 1 .. NumTags : Tag(u.msg, n, u.made) \in new
          BY <3>3
        <5> QED
          BY <2>4, <3>4, <4>1, <4>2, <5>1, ConfirmedFacts, SMTT(60)
      <4> QED
        BY <2>9, <4>3
    <3>6. /\ f \in GSession /\ Once(f.tags) /\ Range(f.tags) \subseteq Range(t.tags)
          /\ f.unconfirmed \subseteq t.unconfirmed
      BY <1>2, <2>3, <2>4, <2>9, <3>5, MessageConfirmedFacts
    <3>10. PICK one : one = {u}
      OBVIOUS
    <3>7. /\ \A h \in Objects : h # g => Unconfirmed(h) \cap one = {}
          /\ Range(f.tags) \subseteq Held(g) \cup new
          /\ f.unconfirmed \subseteq Unconfirmed(g) \ one
      BY <3>1, <3>2, <3>5, <3>6, <3>10
    <3>8. /\ routing' \in [Objects -> GSession]
          /\ \A h \in Objects : /\ Once(routing'[h].tags)
                                /\ \A x \in Range(routing'[h].tags) : x \in Held(h) \/ (h = g /\ x \in new)
                                /\ routing'[h].unconfirmed \subseteq Unconfirmed(h) \ one
      BY <2>10, <3>6, <3>7
    <3>9. /\ u.msg \in confirms /\ confirms' \subseteq confirms
          /\ UNCHANGED <<clock, current, wrapped, inTags, wire, leaseSet>>
      BY <1>2, <3>1
    <3> QED
      BY <2>1, <2>8, <3>1, <3>3, <3>8, <3>9, <3>10, ConfirmKeeps
  <2> QED
    BY <2>11, <2>12
<1> QED
  BY <1>5, <1>6

LEMMA GarlicInitInv == GarlicInit => GInv
<1> SUFFICES ASSUME GarlicInit
             PROVE  GInv
  OBVIOUS
<1>1. \A g \in Objects : routing[g] = NoRouting
  BY DEF GarlicInit
<1>2. \A g \in Objects : Held(g) = {} /\ Unconfirmed(g) = {} /\ Once(routing[g].tags)
  BY <1>1, GarlicFacts, EmptyOnce DEF Held, Unconfirmed
<1>3. wire = {} /\ confirms = {} /\ inTags = {}
  BY DEF GarlicInit
<1>4. GType
  BY <1>3, GarlicFacts DEF GarlicInit, GType
<1> QED
  BY <1>2, <1>3, <1>4 DEF GInv, Numbered, TagsOnce, ReceiverHas

(* A message under a tag can be decrypted if it takes no longer than the    *)
(* receiver keeps tags beyond the sender: whatever is lost, delayed and     *)
(* overtaken, and whenever a session is forgotten, no tag is used twice,    *)
(* before the receiver has it or after it forgot it.                        *)
THEOREM SpecDecryptableInTime == GarlicSpec => []DecryptableInTime
<1>1. GInv /\ [GarlicNext]_garlicVars => GInv'
  <2> SUFFICES ASSUME GInv, [GarlicNext]_garlicVars
               PROVE  GInv'
    OBVIOUS
  <2>1. ASSUME NEW inbound \in BOOLEAN, WrapMessage(inbound)
        PROVE  GInv'
    BY <2>1, WrapMessageStep
  <2>2. ASSUME NEW x \in wire, HandleGarlicMessage(x)
        PROVE  GInv'
    BY <2>2, ReceiveStep
  <2>3. CASE (\E x \in wire : Lost(x)) \/ GarlicTick
    BY <2>3, LostOrTickStep
  <2>4. ASSUME NEW m \in Msgs, HandleDeliveryStatusMessage(m)
        PROVE  GInv'
    BY <2>4, DeliveryStatusStep
  <2>5. CASE CleanupRoutingSessions
    BY <2>5, CleanupStep
  <2>6. CASE SetLeaseSetUpdated
    BY <2>6, SetLeaseSetUpdatedStep
  <2>7. CASE UNCHANGED garlicVars
    BY <2>7 DEF garlicVars, GInv, GType, Numbered, TagsOnce, ReceiverHas, Held, Unconfirmed, Has
  <2> QED
    BY <2>1, <2>2, <2>3, <2>4, <2>5, <2>6, <2>7 DEF GarlicNext
<1>2. GInv => DecryptableInTime
  <2> SUFFICES ASSUME GInv, NEW x \in wire, clock <= x.made + (Incoming - Outgoing), x.tag # NoTag
               PROVE  \E e \in inTags : e[1] = x.tag
    BY DEF DecryptableInTime, Decrypts
  <2>1. Has(x.tag) /\ x.made < x.tag.made + Outgoing
    BY DEF GInv, ReceiverHas
  <2>2. x.made \in Nat /\ x.tag.made \in Nat /\ clock \in Nat
    BY TagTypes DEF GInv, GType
  <2>3. clock <= x.tag.made + Incoming
    <3>1. Incoming \in Nat /\ Outgoing \in Nat
      BY GarlicFacts
    <3> QED
      BY <2>1, <2>2, <3>1
  <2> QED
    BY <2>1, <2>3 DEF Has
<1> QED
  BY <1>1, <1>2, GarlicInitInv, PTL DEF GarlicSpec
=============================================================================
