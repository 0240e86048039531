----------------------------- MODULE Transports -----------------------------
(* The peer table of src/core/transport/Transports.cpp: messages for a peer *)
(* are sent by its first session or wait in delayedMessages while a router  *)
(* info is looked up, an address is resolved and a session is tried over    *)
(* NTCP and then SSU.  Every handler runs on the one transports thread, in  *)
(* the order it was posted to m_Service; sessions, NetDb, the resolver and  *)
(* the senders post from other threads.                                     *)
EXTENDS Naturals, Sequences

CONSTANTS
  Idents,       \* remote routers
  Self,         \* this router
  NoPeer,       \* no entry of m_Peers
  MaxMsgs,      \* bound: messages given to SendMessages for a router
  MaxLinks,     \* bound: transport sessions at a time
  MaxIncoming   \* bound: sessions other routers open

ASSUME TransportsAssumption ==
  /\ Self \notin Idents /\ \A i \in Idents \cup {Self} : MaxMsgs[i] \in Nat
  /\ MaxLinks \in Nat \ {0}

VARIABLES
  peers,      \* m_Peers: an entry or NoPeer for each of Idents
  service,    \* handlers posted to m_Service, oldest first
  links,      \* the transport sessions, by number
  asked,      \* lookups NetDb and the resolver have not answered
  opened,     \* sessions other routers have opened
  accepted,   \* how many messages SendMessages was given, per router
  sent        \* those given to a session (or to this router itself)

transportsVars == <<peers, service, links, asked, opened, accepted, sent>>

Targets == Idents \cup {Self}

NewPeer(router, first) ==
  [numAttempts |-> 0, router |-> router, sessions |-> first,
   late |-> FALSE, delayedMessages |-> <<>>]

NoLink == [to |-> Self, kind |-> "none", state |-> "down"]

TransportsInit ==
  /\ peers = [i \in Idents |-> NoPeer]
  /\ service = <<>>
  /\ links = [n \in 1..MaxLinks |-> NoLink]
  /\ opened = 0
  /\ asked = {}
  /\ accepted = [i \in Targets |-> 0]
  /\ sent = [i \in Targets |-> <<>>]

Posted(task) == service' = Append(service, task)

(* A session to i; its number is free again once its end is handled.        *)
Link(i, kind, state) == [to |-> i, kind |-> kind, state |-> state]
FreeLinks == {n \in DOMAIN links : links[n] = NoLink}
CanLink == FreeLinks # {}
FreeLink == CHOOSE n \in FreeLinks : TRUE
Made(new) == IF new = NoLink THEN links ELSE [links EXCEPT ![FreeLink] = new]

----------------------------------------------------------------------------
(* ConnectToPeer as a choice among its outcomes: p is the entry after it    *)
(* (NoPeer once it is erased), new the session it made, ask the lookup it  *)
(* started, ok its result.  The addresses of a router are not kept: each    *)
(* call meets any router info.                                              *)
Outcome(p, new, ask, ok) == [peer |-> p, new |-> new, ask |-> ask, ok |-> ok]

TryNTCP(i, p) ==
  LET q == [p EXCEPT !.numAttempts = 1]
  IN {Outcome(q, Link(i, "NTCP", "dialing"), {}, TRUE),           \* connect
      Outcome(q, NoLink, {<<"resolve", i>>}, TRUE),               \* a host name
      Outcome(NoPeer, NoLink, {}, FALSE)}                         \* no usable address

(* GetSession may also return a session that is in its table already.       *)
TrySSU(i, p) ==
  LET q == [p EXCEPT !.numAttempts = 2]
  IN {Outcome(q, Link(i, "SSU", "dialing"), {}, TRUE),
      Outcome(NoPeer, NoLink, {}, FALSE)}
     \cup {Outcome(q, NoLink, {}, TRUE) : n \in {n \in DOMAIN links :
             links[n].to = i /\ links[n].kind = "SSU" /\ links[n].state # "ended"}}

ConnectToPeer(i, p) ==
  CASE ~p.router -> {Outcome(p, NoLink, {<<"request", i>>}, TRUE)}
    [] p.router /\ p.numAttempts = 0 -> TryNTCP(i, p)
    [] p.router /\ p.numAttempts = 1 -> TrySSU(i, p)
    [] OTHER -> {Outcome(NoPeer, NoLink, {}, FALSE)}

(* Peer::Done: every session of a peer that is given up is told to end.     *)
Done(p) ==
  [n \in DOMAIN links |->
    IF n \in p.sessions /\ links[n].state = "up" THEN [links[n] EXCEPT !.state = "done"] ELSE links[n]]

(* The effect of one outcome r of ConnectToPeer for entry p of i.           *)
Connecting(i, p, r) ==
  /\ r.new = NoLink \/ CanLink
  /\ peers' = [peers EXCEPT ![i] = r.peer]
  /\ links' = IF r.ok THEN Made(r.new) ELSE Done(p)
  /\ asked' = asked \cup r.ask

----------------------------------------------------------------------------
(* Senders on any thread, and the tasks they post.                          *)
SendMessages(i) ==
  LET m == accepted[i] + 1
  IN /\ m <= MaxMsgs[i]                                             \* bound
     /\ i = Self => service = <<>> /\ opened = 0 /\ \A t \in Idents : accepted[t] = 0
     /\ accepted' = [accepted EXCEPT ![i] = m]
     /\ Posted([type |-> "messages", to |-> i, msg |-> m])
     /\ UNCHANGED <<peers, links, asked, opened, sent>>

CloseSession(i) ==
  /\ \E n \in DOMAIN links : links[n].to = i /\ links[n].kind = "SSU" /\ links[n].state = "up"
  /\ ~\E k \in DOMAIN service : service[k].type = "close"           \* bound
  /\ Posted([type |-> "close", to |-> i])
  /\ UNCHANGED <<peers, links, asked, opened, accepted, sent>>

(* RequestComplete on the NetDb thread, and the resolver's answer.          *)
Answer(a, found) ==
  /\ a \in asked
  /\ asked' = asked \ {a}
  /\ Posted([type |-> a[1], to |-> a[2], found |-> found])
  /\ UNCHANGED <<peers, links, opened, accepted, sent>>

(* The sessions: established (PeerConnected), ended (PeerDisconnected, also *)
(* for one that never got up), accepted from the other side.                *)
LinkUp(n) ==
  /\ links[n].state = "dialing"
  /\ links' = [links EXCEPT ![n].state = "up"]
  /\ Posted([type |-> "connected", to |-> links[n].to, link |-> n])
  /\ UNCHANGED <<peers, asked, opened, accepted, sent>>

LinkDown(n) ==
  /\ links[n].state \in {"dialing", "up", "done"}
  /\ links' = [links EXCEPT ![n].state = "ended"]
  /\ Posted([type |-> "disconnected", to |-> links[n].to, link |-> n])
  /\ UNCHANGED <<peers, asked, opened, accepted, sent>>

LinkAccepted(i) ==
  /\ CanLink /\ opened < MaxIncoming
  /\ opened' = opened + 1
  /\ links' = Made(Link(i, "incoming", "up"))
  /\ Posted([type |-> "connected", to |-> i, link |-> FreeLink])
  /\ UNCHANGED <<peers, asked, accepted, sent>>

----------------------------------------------------------------------------
(* The transports thread.                                                   *)
Task(type) == service # <<>> /\ Head(service).type = type

(* Variant: the new message goes before the ones that wait.                 *)
DelayedFirst(p, m) == [p EXCEPT !.delayedMessages = <<m>> \o @]
Delayed(p, m) == [p EXCEPT !.delayedMessages = Append(@, m)]

(* What a peer with a session does with messages, and one without.          *)
Deliver(i, p, m) ==
  IF p.sessions # {}
  THEN /\ peers' = [peers EXCEPT ![i] = p]
       /\ sent' = [sent EXCEPT ![i] = Append(@, m)]
  ELSE /\ peers' = [peers EXCEPT ![i] = Delayed(p, m)]
       /\ UNCHANGED sent

PostMessages ==
  /\ Task("messages")
  /\ LET i == Head(service).to
         m == Head(service).msg
     IN \/ /\ i = Self
           /\ sent' = [sent EXCEPT ![i] = Append(@, m)]
           /\ UNCHANGED <<peers, links, asked>>
        \/ /\ i # Self /\ peers[i] # NoPeer
           /\ Deliver(i, peers[i], m)
           /\ UNCHANGED <<links, asked>>
        \/ /\ i # Self /\ peers[i] = NoPeer
           /\ \E known \in BOOLEAN : \E r \in ConnectToPeer(i, NewPeer(known, {})) :
                /\ r.new = NoLink \/ CanLink
                /\ links' = Made(r.new)
                /\ asked' = asked \cup r.ask
                /\ IF r.ok THEN Deliver(i, r.peer, m)
                           ELSE UNCHANGED <<peers, sent>>           \* erased again: m is dropped
  /\ service' = Tail(service)
  /\ UNCHANGED <<opened, accepted>>

HandleRequestComplete ==
  /\ Task("request")
  /\ LET i == Head(service).to
         p == [peers[i] EXCEPT !.router = TRUE]
     IN \/ /\ peers[i] = NoPeer
           /\ UNCHANGED <<peers, links, asked>>
        \/ /\ peers[i] # NoPeer /\ Head(service).found
           /\ \E r \in ConnectToPeer(i, p) : Connecting(i, p, r)
        \/ /\ peers[i] # NoPeer /\ ~Head(service).found
           /\ peers' = [peers EXCEPT ![i] = NoPeer]
           /\ UNCHANGED <<links, asked>>
  /\ service' = Tail(service)
  /\ UNCHANGED <<opened, accepted, sent>>

HandleNTCPResolve ==
  /\ Task("resolve")
  /\ LET i == Head(service).to
     IN \/ /\ peers[i] = NoPeer
           /\ UNCHANGED <<peers, links>>
        \/ /\ peers[i] # NoPeer /\ Head(service).found /\ peers[i].router /\ CanLink
           /\ links' = Made(Link(i, "NTCP", "dialing"))
           /\ UNCHANGED peers
        \/ /\ peers[i] # NoPeer /\ ~(Head(service).found /\ peers[i].router /\ CanLink)
           /\ peers' = [peers EXCEPT ![i] = NoPeer]
           /\ UNCHANGED links
  /\ service' = Tail(service)
  /\ UNCHANGED <<asked, opened, accepted, sent>>

AfterFlush(p, n) == [p EXCEPT !.sessions = @ \cup {n}, !.delayedMessages = <<>>]

PeerConnected ==
  /\ Task("connected")
  /\ LET i == Head(service).to
         n == Head(service).link
     IN IF peers[i] # NoPeer
        THEN /\ peers' = [peers EXCEPT ![i] = AfterFlush(@, n)]
             /\ sent' = [sent EXCEPT ![i] = @ \o peers[i].delayedMessages]
        ELSE /\ peers' = [peers EXCEPT ![i] = NewPeer(FALSE, {n})]
             /\ UNCHANGED sent
  /\ service' = Tail(service)
  /\ UNCHANGED <<links, asked, opened, accepted>>

(* The number of an ended link is free after this.                          *)
PeerDisconnected ==
  /\ Task("disconnected")
  /\ LET i == Head(service).to
         n == Head(service).link
         p == [peers[i] EXCEPT !.sessions = @ \ {n}]
         freed == [links EXCEPT ![n] = NoLink]
     IN \/ /\ peers[i] = NoPeer
           /\ links' = freed
           /\ UNCHANGED <<peers, asked>>
        \/ /\ peers[i] # NoPeer /\ p.sessions # {}
           /\ peers' = [peers EXCEPT ![i] = p]
           /\ links' = freed
           /\ UNCHANGED asked
        \/ /\ peers[i] # NoPeer /\ p.sessions = {} /\ p.delayedMessages # <<>>
           /\ \E r \in ConnectToPeer(i, p) :
                /\ peers' = [peers EXCEPT ![i] = r.peer]
                /\ links' = [links EXCEPT ![n] = r.new]
                /\ asked' = asked \cup r.ask
        \/ /\ peers[i] # NoPeer /\ p.sessions = {} /\ p.delayedMessages = <<>>
           /\ peers' = [peers EXCEPT ![i] = NoPeer]
           /\ links' = freed
           /\ UNCHANGED asked
  /\ service' = Tail(service)
  /\ UNCHANGED <<opened, accepted, sent>>

(* PostCloseSession: SSUServer::DeleteSession ends the session, which tells *)
(* Transports.                                                              *)
PostCloseSession ==
  /\ Task("close")
  /\ LET open == {n \in DOMAIN links : links[n].to = Head(service).to /\ links[n].kind = "SSU"
                                      /\ links[n].state \in {"dialing", "up", "done"}}
     IN \/ /\ open = {} /\ service' = Tail(service) /\ UNCHANGED links
        \/ \E n \in open :
             /\ links' = [links EXCEPT ![n].state = "ended"]
             /\ service' = Append(Tail(service), [type |-> "disconnected", to |-> links[n].to, link |-> n])
  /\ UNCHANGED <<peers, asked, opened, accepted, sent>>

(* More than SESSION_CREATION_TIMEOUT has passed since the entry was made.  *)
PeerLate(i) ==
  /\ peers[i] # NoPeer /\ ~peers[i].late
  /\ peers' = [peers EXCEPT ![i].late = TRUE]
  /\ UNCHANGED <<service, links, asked, opened, accepted, sent>>

(* Variant: only peers a session was tried for are given up.                *)
GivenUpTried(p) == p # NoPeer /\ p.sessions = {} /\ p.late /\ p.numAttempts > 0
GivenUp(p) == p # NoPeer /\ p.sessions = {} /\ p.late

HandlePeerCleanupTimer ==
  /\ peers' = [i \in Idents |-> IF GivenUp(peers[i]) THEN NoPeer ELSE peers[i]]
  /\ UNCHANGED <<service, links, asked, opened, accepted, sent>>

TransportsThread ==
  \/ PostMessages \/ HandleRequestComplete \/ HandleNTCPResolve
  \/ PeerConnected \/ PeerDisconnected \/ PostCloseSession

TransportsNext ==
  \/ \E i \in Targets : SendMessages(i)
  \/ \E i \in Idents : CloseSession(i) \/ LinkAccepted(i) \/ PeerLate(i)
  \/ \E a \in asked, found \in BOOLEAN : Answer(a, found)
  \/ \E n \in DOMAIN links : LinkUp(n) \/ LinkDown(n)
  \/ TransportsThread
  \/ HandlePeerCleanupTimer

(* The thread runs, its cleanup timer comes back and time passes; neither   *)
(* NetDb, the resolver nor a session owes an answer.                        *)
TransportsFairness ==
  /\ WF_transportsVars(TransportsThread)
  /\ WF_transportsVars(HandlePeerCleanupTimer)
  /\ \A i \in Idents : WF_transportsVars(PeerLate(i))

TransportsSpec == TransportsInit /\ [][TransportsNext]_transportsVars /\ TransportsFairness

----------------------------------------------------------------------------
(* What waits for router i: its delayed messages, and those whose post has  *)
(* not run.                                                                 *)
DelayedFor(i) == IF i = Self \/ peers[i] = NoPeer THEN <<>> ELSE peers[i].delayedMessages
IsPost(t, i) == t.type = "messages" /\ t.to = i
PostsFor(i) == {k \in DOMAIN service : IsPost(service[k], i)}
Waiting(i) == {DelayedFor(i)[k] : k \in DOMAIN DelayedFor(i)}
                \cup {service[k].msg : k \in PostsFor(i)}

(* The transports layer hands the messages for a router to its sessions in  *)
(* the order of SendMessages, each at most once, whatever connects,         *)
(* disconnects and fails in between: it implements OrderedDelivery.         *)
Delivery == INSTANCE OrderedDelivery WITH
  Channels <- Targets, pending <- [i \in Targets |-> Waiting(i)], handed <- sent
TransportsInOrder == Delivery!Spec

(* A message never waits for good: it is sent, or the peer is given up by   *)
(* the cleanup timer, also when NetDb, the resolver or a session is silent. *)
DelayedResolves == \A i \in Targets : \A m \in 1..MaxMsgs[i] :
  m \in Waiting(i) ~> m \notin Waiting(i)
=============================================================================
