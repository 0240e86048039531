------------------------------- MODULE Garlic -------------------------------
(* Garlic routing between a destination and one remote destination          *)
(* (src/core/Garlic.cpp): session tags are made by the sender, known to the *)
(* receiver once the message that carries them arrives, usable once its     *)
(* DeliveryStatus is back, used once, and forgotten by both sides after     *)
(* different times; our LeaseSet travels with the messages until it is      *)
(* confirmed.  Messages and confirmations are lost, delayed and overtaken.  *)
(* A tag is named by the message that carried it.                           *)
EXTENDS Naturals, Sequences, FiniteSets, Functions, FiniteSetsExt

CONSTANTS
  NumTags,        \* m_NumTags
  Outgoing,       \* OUTGOING_TAGS_EXPIRATION_TIMEOUT
  Incoming,       \* INCOMING_TAGS_EXPIRATION_TIMEOUT
  Confirmation,   \* LEASET_CONFIRMATION_TIMEOUT
  Objects,        \* bound: session objects alive at a time
  MaxMessages,    \* bound: messages ever wrapped
  MaxUpdates,     \* bound: changes of our LeaseSet
  MaxClock,       \* bound: time
  MaxWire         \* bound: messages in flight

ASSUME GarlicAssumption ==
  /\ NumTags \in Nat \ {0} /\ Outgoing \in Nat /\ Incoming \in Nat /\ Outgoing < Incoming
  /\ Confirmation \in Nat /\ MaxMessages \in Nat /\ Objects \subseteq Nat \ {0}

VARIABLES
  clock,      \* seconds since epoch
  routing,    \* GarlicRoutingSession objects by number
  current,    \* the number m_Sessions has for the remote destination, 0 for none
  created,    \* m_CreatedSessions: message -> number, 0 for none
  wrapped,    \* messages wrapped so far
  inTags,     \* m_Tags of the receiver: <<tag, time>>
  cleaned,    \* its m_LastTagsCleanupTime
  wire,       \* garlic messages in flight
  confirms,   \* DeliveryStatus messages in flight
  leaseSet,   \* version of our LeaseSet
  remoteHas   \* the version the remote destination has

garlicVars == <<clock, routing, current, created, wrapped, inTags, cleaned, wire, confirms, leaseSet, remoteHas>>

Msgs == 1..MaxMessages
NewRouting ==
  [tags |-> <<>>, unconfirmed |-> {}, status |-> "Updated", lsMsg |-> 0, lsTime |-> 0]
NoRouting == [NewRouting EXCEPT !.status = "none"]

GarlicInit ==
  /\ clock = Incoming + 1                          \* the epoch is long ago
  /\ routing = [g \in Objects |-> NoRouting]
  /\ current = 0
  /\ created = [m \in Msgs |-> 0]
  /\ wrapped = 0
  /\ inTags = {}
  /\ cleaned = 0
  /\ wire = {}
  /\ confirms = {}
  /\ leaseSet = 1
  /\ remoteHas = 0

(* A session object lives while m_Sessions or m_CreatedSessions has it.     *)
Kept(r, now, cr) == [g \in Objects |-> IF now = g \/ \E m \in Msgs : cr[m] = g THEN r[g] ELSE NoRouting]

----------------------------------------------------------------------------
(* Tags.                                                                    *)
Tag(m, n, made) == [msg |-> m, n |-> n, made |-> made]
NoTag == Tag(0, 0, 0)
GenerateSessionTags(m, made) == [n \in 1..NumTags |-> Tag(m, n, made)]

(* Variant: expired tags are kept for sending.                              *)
UsableAlways(t) == TRUE
Usable(t) == clock < t.made + Outgoing

(* CleanupExpiredTags for tags and for unconfirmed tags, whose entries in   *)
(* m_CreatedSessions go too.                                                *)
UsableOf(tags) ==
  LET kept[k \in 0..Len(tags)] ==
        IF k = 0 THEN <<>> ELSE IF Usable(tags[k]) THEN Append(kept[k - 1], tags[k]) ELSE kept[k - 1]
  IN kept[Len(tags)]
CleanupExpiredTags(s) ==
  [s EXCEPT !.tags = UsableOf(@), !.unconfirmed = {u \in @ : clock < u.made + Outgoing}]
Forgotten(s) == {u.msg : u \in {u \in s.unconfirmed : clock >= u.made + Outgoing}}
Uncreated(msgs) == [m \in Msgs |-> IF m \in msgs THEN 0 ELSE created[m]]

(* Its result, "true if something left".                                    *)
SomethingLeft(s) == s.tags # <<>> \/ s.unconfirmed = {}

(* The first tag that is not expired is used, and the rest is kept.         *)
AfterTag(tags) ==
  LET usable == {k \in DOMAIN tags : Usable(tags[k])}
  IN IF usable = {} THEN <<>> ELSE SubSeq(tags, Min(usable) + 1, Len(tags))
FirstTag(tags) ==
  LET usable == {k \in DOMAIN tags : Usable(tags[k])}
  IN IF usable = {} THEN NoTag ELSE tags[Min(usable)]

----------------------------------------------------------------------------
(* WrapMessage: GetRoutingSession, WrapSingleMessage, CreateAESBlock and    *)
(* CreateGarlicPayload.  Without an inbound tunnel there is no DeliveryStatus*)
(* clove, and the new tags are sent but forgotten.                          *)
GetRoutingSession(g) == IF current = 0 THEN NewRouting ELSE routing[g]

(* Resubmit a LeaseSet that was not confirmed in time.                      *)
Resubmitted(s) ==
  IF s.status = "Submitted" /\ clock > s.lsTime + Confirmation THEN [s EXCEPT !.status = "Updated"] ELSE s

(* A DeliveryStatus clove is made when something is to be confirmed and we  *)
(* have an inbound tunnel for it.                                           *)
CreateDeliveryStatusClove(inbound, needed) == inbound /\ needed

WrapMessage(inbound) ==
  LET g == IF current # 0 THEN current ELSE CHOOSE x \in Objects : routing[x] = NoRouting
      s == GetRoutingSession(g)
      m == wrapped + 1
      rest == AfterTag(s.tags)
      newTags == Len(rest) <= (NumTags * 2) \div 3
      r == Resubmitted([s EXCEPT !.tags = rest])
      attach == r.status = "Updated"
      status == CreateDeliveryStatusClove(inbound, newTags \/ attach)
      t == IF status /\ newTags THEN [r EXCEPT !.unconfirmed = @ \cup {[msg |-> m, made |-> clock]}] ELSE r
  IN /\ m <= MaxMessages /\ Cardinality(wire) < MaxWire
     /\ current # 0 \/ \E x \in Objects : routing[x] = NoRouting
     /\ routing' = [routing EXCEPT ![g] = IF attach THEN [t EXCEPT !.status = "Submitted", !.lsMsg = m, !.lsTime = clock] ELSE t]
     /\ created' = IF status THEN [created EXCEPT ![m] = g] ELSE created
     /\ current' = g
     /\ wrapped' = m
     /\ wire' = wire \cup {[id |-> m, tag |-> FirstTag(s.tags), newTags |-> newTags, made |-> clock,
                            status |-> status, ls |-> IF attach THEN leaseSet ELSE 0]}
     /\ UNCHANGED <<clock, inTags, cleaned, confirms, leaseSet, remoteHas>>

----------------------------------------------------------------------------
(* The receiver: HandleGarlicMessage, HandleAESBlock, HandleGarlicPayload.  *)
Tags(m) == Range(GenerateSessionTags(m.id, m.made))

Decrypts(m) == m.tag = NoTag \/ \E e \in inTags : e[1] = m.tag

(* A stored LeaseSet replaces the one before, older or not.                 *)
HandleGarlicPayload(m) ==
  /\ remoteHas' = IF m.ls # 0 THEN m.ls ELSE remoteHas
  /\ confirms' = IF m.status THEN confirms \cup {m.id} ELSE confirms

(* Expired tags are looked for once in a while.                             *)
CleanupTags(tags) ==
  /\ inTags' = IF clock > cleaned + Incoming /\ cleaned # 0
               THEN {e \in tags : ~(clock > e[2] + Incoming)} ELSE tags
  /\ cleaned' = IF clock > cleaned + Incoming THEN clock ELSE cleaned

HandleGarlicMessage(m) ==
  /\ wire' = wire \ {m}
  /\ IF Decrypts(m)
     THEN /\ HandleGarlicPayload(m)
          /\ CleanupTags({e \in inTags : e[1] # m.tag}
                         \cup (IF m.newTags THEN {<<t, clock>> : t \in Tags(m)} ELSE {}))
     ELSE /\ CleanupTags(inTags)
          /\ UNCHANGED <<remoteHas, confirms>>
  /\ UNCHANGED <<clock, routing, current, created, wrapped, leaseSet>>

Lost(m) ==
  /\ wire' = wire \ {m}
  /\ UNCHANGED <<clock, routing, current, created, wrapped, inTags, cleaned, confirms, leaseSet, remoteHas>>

----------------------------------------------------------------------------
(* MessageConfirmed: TagsConfirmed, and either the LeaseSet is up to date   *)
(* or expired tags are cleaned up.                                          *)
TagsConfirmed(s, m) ==
  LET mine == {u \in s.unconfirmed : u.msg = m}
  IN IF mine = {} THEN s
     ELSE LET u == CHOOSE u \in mine : TRUE
          IN [s EXCEPT !.unconfirmed = @ \ mine,
                       !.tags = IF clock < u.made + Outgoing THEN @ \o GenerateSessionTags(m, u.made) ELSE @]

MessageConfirmed(s, m) ==
  LET t == TagsConfirmed(s, m)
  IN IF m = s.lsMsg THEN [t EXCEPT !.status = "UpToDate"] ELSE CleanupExpiredTags(t)

HandleDeliveryStatusMessage(m) ==
  LET g == created[m]
  IN /\ m \in confirms
     /\ confirms' = confirms \ {m}
     /\ IF g = 0 THEN UNCHANGED <<routing, created>>
        ELSE LET gone == IF m = routing[g].lsMsg THEN {m} ELSE Forgotten(TagsConfirmed(routing[g], m)) \cup {m}
             IN /\ created' = Uncreated(gone)
                /\ routing' = Kept([routing EXCEPT ![g] = MessageConfirmed(@, m)], current, created')
     /\ UNCHANGED <<clock, current, wrapped, inTags, cleaned, wire, leaseSet, remoteHas>>

(* HandleCleanupTimer's CleanupRoutingSessions.                             *)
CleanupRoutingSessions ==
  /\ current # 0
  /\ LET s == CleanupExpiredTags(routing[current])
     IN /\ created' = Uncreated(Forgotten(routing[current]))
        /\ current' = IF SomethingLeft(s) THEN current ELSE 0
        /\ routing' = Kept([routing EXCEPT ![current] = s], current', created')
  /\ UNCHANGED <<clock, wrapped, inTags, cleaned, wire, confirms, leaseSet, remoteHas>>

(* The tunnel pool has new leases for us.                                   *)
SetLeaseSetUpdated ==
  /\ leaseSet <= MaxUpdates
  /\ leaseSet' = leaseSet + 1
  /\ routing' = IF current = 0 THEN routing ELSE [routing EXCEPT ![current] = [@ EXCEPT !.status = "Updated"]]
  /\ UNCHANGED <<clock, current, created, wrapped, inTags, cleaned, wire, confirms, remoteHas>>

GarlicTick ==
  /\ clock < MaxClock
  /\ clock' = clock + 1
  /\ UNCHANGED <<routing, current, created, wrapped, inTags, cleaned, wire, confirms, leaseSet, remoteHas>>

GarlicNext ==
  \/ \E inbound \in BOOLEAN : WrapMessage(inbound)
  \/ \E m \in wire : HandleGarlicMessage(m) \/ Lost(m)
  \/ \E m \in Msgs : HandleDeliveryStatusMessage(m)
  \/ CleanupRoutingSessions \/ SetLeaseSetUpdated \/ GarlicTick

GarlicSpec == GarlicInit /\ [][GarlicNext]_garlicVars

----------------------------------------------------------------------------
(* A message under a tag can be decrypted if it takes no longer than the    *)
(* receiver keeps tags beyond the sender: no tag is used twice, before the  *)
(* receiver has it or after it forgot it.                                   *)
DecryptableInTime ==
  \A m \in wire : clock <= m.made + (Incoming - Outgoing) => Decrypts(m)

(* The LeaseSet is up to date ("LeaseSet update confirmed") only when the   *)
(* remote destination has been sent the current one and confirmed it.  The  *)
(* code does not keep this.                                                 *)
LeaseSetConfirmed ==
  current # 0 /\ routing[current].status = "UpToDate" => remoteHas = leaseSet \/ \E m \in wire : m.ls # 0

(* CleanupRoutingSessions deletes a session only when CleanupExpiredTags    *)
(* left nothing ("returns true if something left"): no tag and no message   *)
(* whose tags wait for their confirmation.  The code does not keep this.    *)
DeletedWhenEmpty ==
  [][current # 0 /\ current' = 0 => CleanupExpiredTags(routing[current]).unconfirmed = {}]_garlicVars
=============================================================================
