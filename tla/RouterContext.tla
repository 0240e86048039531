--------------------------- MODULE RouterContext ---------------------------
(* The router's own router info: capabilities, addresses and introducers     *)
(* (RouterContext.cpp and the setters of RouterInfo.cpp), the status peer    *)
(* tests give it, and the timer of the SSU server that publishes introducers *)
(* while the router is firewalled (SSU.cpp).  Every change is written to the *)
(* file, from which the next start reads it.  Hosts and ports are left out:  *)
(* an address is its transport and whether it is of IPv6, and an introducer  *)
(* is the router it is and the tag it gave.  An introducer is published at   *)
(* the SSU address of its router info but taken away by the endpoint of its  *)
(* session, which may be another one (over IPv6, or behind a NAT).           *)
EXTENDS Integers, Sequences, FiniteSets

CONSTANTS
  CtxPeers,          \* routers that can introduce us, one session each
  CtxElsewhere,      \* those whose session is not at the SSU address they publish
  CtxTags,           \* relay tags they give
  CtxMaxIntroducers, \* SSU_MAX_NUM_INTRODUCERS
  CtxMaxAddresses,   \* bound: addresses of the router info
  CtxMaxStarts       \* bound: starts of the process

VARIABLES
  ours,          \* m_RouterInfo: [caps, addresses, introducers]
  ourFile,       \* router.info on disk, as it is read back
  supportsV6,    \* SupportsV6 (): the -v6 option of this start
  status,        \* m_Status
  introducers,   \* m_Introducers of the SSU server, with the tags they were added for
  introTimer,    \* whether the introducers timer is pending
  introSessions, \* the session with each router: none, without a relay tag, or its tag
  starts
ctxVars == <<ours, ourFile, supportsV6, status, introducers, introTimer, introSessions, starts>>

Addr(style, v6) == [style |-> style, v6 |-> v6]

\* The addresses without the first of those in S.
WithoutFirst(s, S) ==
  LET hits == {k \in DOMAIN s : s[k] \in S}
      at == CHOOSE k \in hits : \A j \in hits : k <= j
  IN IF hits = {} THEN s ELSE SubSeq(s, 1, at - 1) \o SubSeq(s, at + 1, Len(s))

\* What WriteToStream and ReadFromStream make of a router info: the caps of a
\* floodfill say the highest bandwidth, and are read that way (UpdateCapsProperty,
\* ExtractCaps); those of SSU are written with an SSU address.
ReadBack(info) ==
  LET ssu == \E k \in DOMAIN info.addresses : info.addresses[k].style = "SSU"
  IN [info EXCEPT !.caps = (IF "floodfill" \in info.caps THEN {"high"} ELSE {})
                           \cup (IF ssu THEN info.caps ELSE info.caps \ {"testing", "introducer"})]

\* UpdateRouterInfo: the changed router info is signed and saved.
Publishes(info) == ours' = info /\ ourFile' = ReadBack(info)

\* Both addresses are of the -host option.
NewRouterInfo(hostV6) ==
  [caps |-> {"reachable", "testing", "introducer"}, introducers |-> {},
   addresses |-> <<Addr("SSU", hostV6), Addr("NTCP", hostV6)>>]

\* SetFloodfill; SetHighBandwidth and SetLowBandwidth, or neither.
SetFloodfill(info, on) ==
  [info EXCEPT !.caps = IF on THEN @ \cup {"floodfill"} ELSE @ \ {"floodfill"}]
SetBandwidth(info, bandwidth) ==
  [info EXCEPT !.caps = CASE bandwidth = "high" -> @ \cup {"high"}
                          [] bandwidth = "low" -> @ \ {"high"}
                          [] OTHER -> @]

\* DisableV6: the first NTCP and the first SSU address of IPv6 go.
DisableV6(info) ==
  [info EXCEPT !.addresses = WithoutFirst(WithoutFirst(@, {Addr("NTCP", TRUE)}), {Addr("SSU", TRUE)})]

\* The options of a start, in the order of the daemon's init.
Configured(info, v6, floodfill, bandwidth) ==
  SetBandwidth(SetFloodfill(IF v6 THEN info ELSE DisableV6(info), floodfill), bandwidth)

\* A connection over IPv6 gives addresses when there is none of NTCP yet.
UpdateNTCPV6Address ==
  /\ supportsV6
  /\ ~\E k \in DOMAIN ours.addresses : ours.addresses[k] = Addr("NTCP", TRUE)
  /\ Len(ours.addresses) + 2 <= CtxMaxAddresses
  /\ Publishes([ours EXCEPT !.addresses = @ \o <<Addr("NTCP", TRUE), Addr("SSU", TRUE)>>,
                            !.caps = @ \cup {"testing", "introducer"}])
  /\ UNCHANGED <<supportsV6, status, introducers, introTimer, introSessions, starts>>

IsUnreachable(info) == "unreachable" \in info.caps

\* SetUnreachable: the first NTCP address goes, and the introducers.
Unreachable(info) ==
  [caps |-> {"unreachable", "testing"}, introducers |-> {},
   addresses |-> WithoutFirst(info.addresses, {Addr("NTCP", FALSE), Addr("NTCP", TRUE)})]

\* Variant: the NTCP address does not come back.
ReachableNoNTCP(info) ==
  [caps |-> (info.caps \ {"unreachable"}) \cup {"reachable", "introducer"}, introducers |-> {},
   addresses |-> info.addresses]
\* SetReachable, when a start finds the router unreachable: NTCP is inserted
\* with the host of the first SSU address.
Reachable(info) ==
  LET ssu == {k \in DOMAIN info.addresses : info.addresses[k].style = "SSU"}
      first == CHOOSE k \in ssu : \A j \in ssu : k <= j
  IN [caps |-> (info.caps \ {"unreachable"}) \cup {"reachable", "introducer"}, introducers |-> {},
      addresses |-> IF ssu = {} THEN info.addresses
                    ELSE Append(info.addresses, Addr("NTCP", info.addresses[first].v6))]

\* A peer test finds the firewall while it is under way, or, also later, finds
\* that we can be reached.
SetStatus(s) ==
  /\ s = "firewalled" => status = "testing"
  /\ status' = s
  /\ UNCHANGED <<ours, ourFile, supportsV6, introducers, introTimer, introSessions, starts>>

NoSession == -1
NoTag == 0

\* A session starts, gets its relay tag, or ends or grows too old to introduce us.
IntroSession(p, s) ==
  /\ s # introSessions[p] /\ (s # NoSession => introSessions[p] \in {NoSession, NoTag})
  /\ introSessions' = [introSessions EXCEPT ![p] = s]
  /\ UNCHANGED <<ours, ourFile, supportsV6, status, introducers, introTimer, starts>>

HasSession(intro) == introSessions[intro[1]] # NoSession

\* RemoveIntroducer for those of the list whose session ended: one entry at the
\* endpoint of that session goes, where there is one.  As many are published at
\* an endpoint as are on the list, so which of them is taken first is left out.
Alive(info) ==
  [info EXCEPT !.introducers =
     @ \ {intro \in introducers : ~HasSession(intro) /\ intro[1] \notin CtxElsewhere}]

\* AddIntroducer: those of new whose tag is not published yet, by the first SSU
\* address over IPv4.
Introduced(info, new) ==
  IF \E k \in DOMAIN info.addresses : info.addresses[k] = Addr("SSU", FALSE)
  THEN {intro \in new : \A other \in info.introducers : other[2] # intro[2]} ELSE {}

\* FindIntroducers: one session with a relay tag at most, whatever is asked for.
\* Its router may have no SSU address to be added with.
FindIntroducers ==
  {{}} \cup {{<<p, introSessions[p]>>} : p \in {q \in CtxPeers : introSessions[q] \in CtxTags}}

\* HandleIntroducersUpdateTimer.  The timer is not set again once the status is OK.
HandleIntroducersUpdateTimer ==
  /\ introTimer
  /\ UNCHANGED <<supportsV6, status, introSessions, starts>>
  /\ \/ status = "testing" /\ UNCHANGED <<ours, ourFile, introducers, introTimer>>
     \/ status = "OK" /\ introTimer' = FALSE /\ UNCHANGED <<ours, ourFile, introducers>>
     \/ /\ status = "firewalled"
        /\ LET info == IF IsUnreachable(ours) THEN ours ELSE Unreachable(ours)
               kept == {intro \in introducers : HasSession(intro)}
           IN \E new \in (IF Cardinality(kept) < CtxMaxIntroducers THEN FindIntroducers ELSE {{}}) :
                LET added == Introduced(Alive(info), new)
                IN /\ Publishes([Alive(info) EXCEPT !.introducers = @ \cup added])
                   /\ introducers' = kept \cup added
        /\ UNCHANGED introTimer

\* The process stops and starts again from its file, with any options; the SSU
\* server starts with its timer set, and peer tests begin.
RouterStart(v6, floodfill, bandwidth) ==
  /\ starts < CtxMaxStarts /\ Len(ourFile.addresses) < CtxMaxAddresses
  /\ starts' = starts + 1
  /\ Publishes(Configured(IF IsUnreachable(ourFile) THEN Reachable(ourFile) ELSE ourFile,
                          v6, floodfill, bandwidth))
  /\ supportsV6' = v6 /\ status' = "testing"
  /\ introducers' = {} /\ introTimer' = TRUE /\ introSessions' = [p \in CtxPeers |-> NoSession]

CtxInit ==
  /\ supportsV6 \in BOOLEAN
  /\ \E hostV6, floodfill \in BOOLEAN, bandwidth \in {"", "high", "low"} :
       ours = Configured(NewRouterInfo(hostV6), supportsV6, floodfill, bandwidth)
  /\ ourFile = ReadBack(ours)
  /\ status = "testing"
  /\ introducers = {} /\ introTimer = TRUE /\ starts = 1
  /\ introSessions = [p \in CtxPeers |-> NoSession]

CtxNext ==
  \/ UpdateNTCPV6Address
  \/ \E s \in {"firewalled", "OK"} : SetStatus(s)
  \/ \E p \in CtxPeers, s \in {NoSession, NoTag} \cup CtxTags : IntroSession(p, s)
  \/ HandleIntroducersUpdateTimer
  \/ \E v6, floodfill \in BOOLEAN, bandwidth \in {"", "high", "low"} : RouterStart(v6, floodfill, bandwidth)

CtxSpec == CtxInit /\ [][CtxNext]_ctxVars

----------------------------------------------------------------------------
Offered(address) == \E k \in DOMAIN ours.addresses : ours.addresses[k] = address

\* What the router publishes agrees with itself through restarts and changes of
\* status.  One that says it can be reached names no introducers and, when it is
\* reached at all over IPv4, offers NTCP there too: what SetUnreachable took, the
\* next start gave back.  Every introducer named, of those whose session is at the
\* address it is named with, is on the list by which the SSU server takes away
\* the ones it lost (SetReachable, SetUnreachable, HandleIntroducersUpdateTimer).
PublishedConsistent ==
  /\ ~IsUnreachable(ours) =>
       /\ Offered(Addr("SSU", FALSE)) => Offered(Addr("NTCP", FALSE))
       /\ ours.introducers = {}
  /\ \A intro \in ours.introducers : intro[1] \notin CtxElsewhere => intro \in introducers

\* An unreachable router publishes no NTCP address over IPv4
\* ("remove NTCP address", RouterContext::SetUnreachable).  The code does not keep
\* this once an NTCP address over IPv6 comes before the one over IPv4.
NTCPRemoved == IsUnreachable(ours) => ~Offered(Addr("NTCP", FALSE))
=============================================================================
