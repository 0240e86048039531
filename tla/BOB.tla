--------------------------------- MODULE BOB ---------------------------------
(* The BOB command channel (src/client/BOB.cpp).  A command session lives   *)
(* by its pending operations: a handler that starts none ends it.  Sessions *)
(* share destinations by nickname and keep plain pointers to them; a        *)
(* destination owns an inbound tunnel (local clients that name the peer     *)
(* they want) and an outbound one (streams handed to a local server), whose *)
(* callbacks hold plain pointers to the tunnel.  A use of a deleted object  *)
(* takes the router down.                                                   *)
EXTENDS Naturals, FiniteSets

CONSTANTS
  BobSessions,     \* command connections
  BobNicks,        \* nicknames
  BobObjects,      \* bound: BOBDestination objects ever made, 1..n
  BobClients,      \* clients of the inbound tunnels
  BobCommands,     \* the commands of each session
  BobPending       \* bound: operations of a session under way, and lines of its buffer

ASSUME BobAssumption ==
  /\ BobPending \in Nat \ {0} /\ IsFiniteSet(BobNicks)
  /\ BobCommands \in [BobSessions -> SUBSET {"zap", "quit", "start", "stop", "setnick", "getnick", "port", "lookup", "clear", "list", "get"}]

VARIABLES
  bobSess,     \* BOBCommandSession objects
  dests,       \* BOBDestination objects
  bobTable,    \* m_Destinations: nickname -> object, 0 for none
  recvs,       \* AddressReceivers of the inbound tunnels
  bobUp

bobVars == <<bobSess, dests, bobTable, recvs, bobUp>>

(* A session has the empty nickname, 0, to begin with.                      *)
Nicks == BobNicks \cup {0}

(* extra is the number of replies LIST has sent beyond one per command,     *)
(* dropped how many handlers have ended without starting an operation.      *)
BobSession ==
  [socket |-> "none", reads |-> 0, writes |-> 0, lookups |-> 0, extra |-> 0, dropped |-> 0, rest |-> 0,
   open |-> TRUE, nick |-> 0, inPort |-> FALSE, outPort |-> FALSE, current |-> 0]
(* local: m_LocalDestination is not null.                                   *)
BobDest ==
  [live |-> FALSE, made |-> FALSE, local |-> FALSE, in |-> "none", out |-> "none", acceptor |-> "none"]
AddressReceiver == [phase |-> "none", of |-> 0, tunnel |-> TRUE]

BobInit ==
  /\ bobSess = [s \in BobSessions |-> BobSession]
  /\ dests = [n \in BobObjects |-> BobDest]
  /\ bobTable = [x \in Nicks |-> 0]
  /\ recvs = [c \in BobClients |-> AddressReceiver]
  /\ bobUp = "running"

BobWorld == [sess |-> bobSess, dests |-> dests, table |-> bobTable, recvs |-> recvs]
BobSettle(w) ==
  /\ bobSess' = w.sess /\ dests' = w.dests /\ bobTable' = w.table /\ recvs' = w.recvs
  /\ UNCHANGED bobUp
BobCrash == bobUp' = "down" /\ UNCHANGED <<bobSess, dests, bobTable, recvs>>

----------------------------------------------------------------------------
(* BOBDestination.                                                          *)
(* StopTunnels deletes the tunnels.  What holds a pointer to them stays:    *)
(* the receivers under way, and the destination's acceptor.                 *)
WithoutTunnels(d) ==
  [d EXCEPT !.in = "none", !.out = "none", !.acceptor = IF @ = "tunnel" THEN "gone" ELSE @]
Orphaned(R, n) ==
  [c \in BobClients |->
     IF R[c].of # n THEN R[c]
     ELSE [R[c] EXCEPT !.tunnel = FALSE, !.phase = IF @ = "connected" THEN "done" ELSE @]]
StopTunnels(w, n) ==
  [w EXCEPT !.dests[n] = WithoutTunnels(@), !.recvs = Orphaned(@, n)]

(* DeleteDestination stops the tunnels, then the local destination with its *)
(* acceptor.                                                                *)
DeleteDestination(w, x) ==
  LET n == w.table[x]
  IN IF n = 0 THEN w
     ELSE [StopTunnels(w, n) EXCEPT !.dests[n] = [BobDest EXCEPT !.made = TRUE], !.table[x] = 0]

(* Start of the destination's tunnels.                                      *)
StartTunnels(d) ==
  [d EXCEPT !.in = IF @ = "none" THEN @ ELSE "listening", !.acceptor = IF d.out = "none" THEN @ ELSE "tunnel"]

----------------------------------------------------------------------------
(* BOBCommandSession.                                                       *)
BobTerminate(w, s) ==
  [w EXCEPT !.sess[s] = [@ EXCEPT !.socket = "closed", !.open = FALSE, !.reads = 0, !.writes = 0]]

BobSend(w, s) == [w EXCEPT !.sess[s].writes = @ + 1]

(* A handler that starts no operation.  Nothing ends the session; when it   *)
(* was the last operation nothing holds the session any more either, and    *)
(* its destructor closes the socket.                                        *)
BobDropped(w, s) == [w EXCEPT !.sess[s].dropped = @ + 1]

BobRuns(s) == bobUp = "running" /\ bobSess[s].socket # "none"

BobHandleAccept(s) ==
  /\ bobUp = "running" /\ bobSess[s].socket = "none"
  /\ BobSettle(BobSend([BobWorld EXCEPT !.sess[s].socket = "up"], s))    \* SendVersion

(* HandleSent: the next read, or the end after QUIT.                        *)
BobHandleSent(s) ==
  LET w == [BobWorld EXCEPT !.sess[s].writes = @ - 1]
  IN /\ BobRuns(s) /\ bobSess[s].writes > 0
     /\ \/ /\ bobSess[s].socket = "up"
           /\ BobSettle(IF bobSess[s].open THEN [w EXCEPT !.sess[s].reads = @ + 1] ELSE BobTerminate(w, s))
        \/ BobSettle(BobTerminate(w, s))                                \* error

Unmade == {n \in BobObjects : ~dests[n].made}
(* new BOBDestination; CreateNewLocalDestination gives no local destination *)
(* to keys that run already.                                                *)
NewDestination == CHOOSE n \in Unmade : TRUE
WithDestination(w, s, n, local) ==
  [w EXCEPT !.sess[s].current = n, !.table[w.sess[s].nick] = n,
            !.dests[n] = [@ EXCEPT !.live = TRUE, !.made = TRUE, !.local = local]]

(* CreateInboundTunnel and CreateOutboundTunnel, each once, if there is a   *)
(* port.  An inbound tunnel uses the local destination; an outbound one     *)
(* makes one if there is none.                                              *)
WithInbound(d, v) == [d EXCEPT !.in = IF @ = "none" /\ v.inPort THEN "made" ELSE @]
WithOutbound(d, v) == [d EXCEPT !.out = IF @ = "none" /\ v.outPort THEN "made" ELSE @]

(* START of destination n.  A port in use, or an OUTHOST that is no         *)
(* address, throws out of the handler.                                      *)
StartDestination(w, s, n) ==
  LET v == w.sess[s]
      d == w.dests[n]
      in == WithInbound(d, v)
      AsksInbound == v.inPort /\ d.in = "none"
  IN IF ~d.live \/ (AsksInbound /\ ~d.local) THEN BobCrash
     ELSE \/ BobSettle(BobSend([w EXCEPT !.dests[n] = StartTunnels(WithOutbound(in, v))], s))
          \/ AsksInbound /\ BobSettle(BobDropped(w, s))
          \/ v.outPort /\ d.out = "none" /\ BobSettle(BobDropped([w EXCEPT !.dests[n] = in], s))

(* The destination is made on first use; a nickname that another            *)
(* destination has is taken over.                                           *)
StartCommandHandler(w, s) ==
  LET n == w.sess[s].current
  IN IF n # 0 THEN StartDestination(w, s, n)
     ELSE /\ Unmade # {}                                                \* bound
          /\ \E local \in BOOLEAN :
               StartDestination(WithDestination(w, s, NewDestination, local), s, NewDestination)

(* Variant: nothing is said of a nickname without a destination.            *)
StopCommandHandlerSilent(w, s) ==
  LET n == w.table[w.sess[s].nick]
  IN IF n = 0 THEN w ELSE BobSend(StopTunnels(w, n), s)
StopCommandHandler(w, s) ==
  LET n == w.table[w.sess[s].nick]
  IN BobSend(IF n = 0 THEN w ELSE StopTunnels(w, n), s)

SetNickCommandHandler(w, s, x) == BobSend([w EXCEPT !.sess[s].nick = x], s)

(* GETNICK: a nickname without a destination leaves the session with none.  *)
Turned(v, n, x) == [v EXCEPT !.current = n, !.nick = IF n = 0 THEN @ ELSE x]
GetNickCommandHandler(w, s, x) ==
  LET n == w.table[x]
  IN IF n # 0 /\ ~dests[n].local THEN BobCrash
     ELSE BobSettle(BobSend([w EXCEPT !.sess[s] = Turned(@, n, x)], s))

(* INPORT, OUTPORT (with OUTHOST); an operand that is no number throws.     *)
PortCommandHandler(w, s) ==
  \/ BobSettle(BobSend([w EXCEPT !.sess[s].inPort = TRUE], s))
  \/ BobSettle(BobSend([w EXCEPT !.sess[s].outPort = TRUE], s))
  \/ BobSettle(BobDropped(w, s))

(* LOOKUP through the current destination, at once or after a request.      *)
LookupCommandHandler(w, s) ==
  LET n == w.sess[s].current
  IN \/ BobSettle(BobSend(w, s))                                        \* unknown, or at hand
     \/ n # 0 /\ IF dests[n].live /\ dests[n].local
                  THEN BobSettle([w EXCEPT !.sess[s].lookups = @ + 1]) ELSE BobCrash

(* The local destination is stopped first.                                  *)
ClearCommandHandler(w, s) ==
  LET x == w.sess[s].nick
      n == w.table[x]
  IN IF n # 0 /\ ~dests[n].local THEN BobCrash
     ELSE BobSettle(BobSend(DeleteDestination(w, x), s))

(* LIST writes every entry at once, from the one send buffer.               *)
Listing(v, n) == [v EXCEPT !.writes = @ + n + 1, !.extra = @ + n]
ListCommandHandler(w, s) ==
  LET n == Cardinality({x \in Nicks : w.table[x] # 0})
  IN /\ w.sess[s].extra + n < BobPending                                \* bound
     /\ BobSettle([w EXCEPT !.sess[s] = Listing(@, n)])

(* One command; NEWKEYS, GETKEYS, OPTION and the like are "get", as is an   *)
(* unknown command.                                                         *)
BobCommand(w, s, command) ==
  CASE command = "zap" -> BobSettle(BobTerminate(w, s))
    [] command = "quit" -> BobSettle(BobSend([w EXCEPT !.sess[s].open = FALSE], s))
    [] command = "start" -> StartCommandHandler(w, s)
    [] command = "stop" -> BobSettle(StopCommandHandler(w, s))
    [] command = "setnick" -> \E x \in BobNicks : BobSettle(SetNickCommandHandler(w, s, x))
    [] command = "getnick" -> \E x \in BobNicks : GetNickCommandHandler(w, s, x)
    [] command = "port" -> PortCommandHandler(w, s)
    [] command = "lookup" -> LookupCommandHandler(w, s)
    [] command = "clear" -> ClearCommandHandler(w, s)
    [] command = "list" -> ListCommandHandler(w, s)
    [] OTHER -> BobSettle(BobSend(w, s))

(* HandleReceived: a read brings lines of commands; the first one in the    *)
(* buffer is processed, the rest waits for the next read to end.  Without a *)
(* whole line nothing is read again.                                        *)
BobHandleReceived(s, lines) ==
  LET w == [BobWorld EXCEPT !.sess[s].reads = @ - 1]
      have == bobSess[s].rest + lines
  IN /\ BobRuns(s) /\ bobSess[s].reads > 0 /\ have <= BobPending        \* bound
     /\ \/ lines = 0 /\ BobSettle(BobTerminate(w, s))                   \* error, or the buffer is full
        \/ have = 0 /\ BobSettle(BobDropped(w, s))
        \/ have > 0 /\ \E command \in BobCommands[s] : BobCommand([w EXCEPT !.sess[s].rest = have - 1], s, command)

(* The callback of LOOKUP's request, on the destination's thread; a         *)
(* destination that is deleted before drops it.                             *)
BobLookupComplete(s) ==
  LET w == [BobWorld EXCEPT !.sess[s].lookups = @ - 1]
  IN /\ bobUp = "running" /\ bobSess[s].lookups > 0
     /\ \/ BobSettle(BobSend(w, s))
        \/ (\E n \in BobObjects : dests[n].made /\ ~dests[n].live) /\ BobSettle(BobDropped(w, s))

----------------------------------------------------------------------------
(* The tunnels, on the destination's thread.                                *)
BobInboundAccept(n, c) ==
  /\ bobUp = "running" /\ dests[n].in = "listening" /\ recvs[c].phase = "none"
  /\ BobSettle([BobWorld EXCEPT !.recvs[c].phase = "reading", !.recvs[c].of = n])

(* HandleReceivedAddress: a whole line names the peer; its LeaseSet is at   *)
(* hand or requested.                                                       *)
HandleReceivedAddress(c) ==
  /\ bobUp = "running" /\ recvs[c].phase = "reading"
  /\ \/ BobSettle([BobWorld EXCEPT !.recvs[c].phase = "done"])          \* error, unknown, too long
     \/ recvs[c].tunnel /\ \E p \in {"reading", "lookup", "connected"} : BobSettle([BobWorld EXCEPT !.recvs[c].phase = p])
     \/ ~recvs[c].tunnel /\ BobCrash

HandleDestinationRequestComplete(c) ==
  /\ bobUp = "running" /\ recvs[c].phase = "lookup"
  /\ \/ BobSettle([BobWorld EXCEPT !.recvs[c].phase = "done"])
     \/ IF recvs[c].tunnel THEN BobSettle([BobWorld EXCEPT !.recvs[c].phase = "connected"]) ELSE BobCrash

(* A stream comes in for the outbound tunnel.                               *)
BobOutboundAccept(n) ==
  /\ bobUp = "running" /\ dests[n].live /\ dests[n].acceptor # "none"
  /\ IF dests[n].acceptor = "tunnel" THEN UNCHANGED bobVars ELSE BobCrash

(* Every destination in the table is stopped.                               *)
BobStop ==
  /\ bobUp = "running"
  /\ IF \E x \in Nicks : bobTable[x] # 0 /\ ~dests[bobTable[x]].local THEN BobCrash
     ELSE /\ bobUp' = "stopped"
          /\ dests' = [n \in BobObjects |-> IF n \in {bobTable[x] : x \in Nicks}
                                           THEN [BobDest EXCEPT !.made = TRUE] ELSE dests[n]]
          /\ bobTable' = [x \in Nicks |-> 0]
          /\ UNCHANGED <<bobSess, recvs>>

BobNext ==
  \/ \E s \in BobSessions :
       \/ BobHandleAccept(s) \/ BobHandleSent(s) \/ BobLookupComplete(s)
       \/ \E lines \in 0..BobPending : BobHandleReceived(s, lines)
  \/ \E c \in BobClients :
       \/ HandleReceivedAddress(c) \/ HandleDestinationRequestComplete(c)
       \/ \E n \in BobObjects : BobInboundAccept(n, c)
  \/ \E n \in BobObjects : BobOutboundAccept(n)
  \/ BobStop

BobSpec == BobInit /\ [][BobNext]_bobVars

----------------------------------------------------------------------------
(* A command session does one thing at a time: as long as no LIST has       *)
(* answered with several destinations, a read, a write and a lookup never   *)
(* share its buffers.  And it falls silent only where a handler threw, no   *)
(* whole line had come, or the destination it asked was deleted: every      *)
(* other command, turned down or not, leaves a reply or a lookup under way. *)
BobSerial ==
  bobUp = "running" => \A s \in BobSessions :
    LET v == bobSess[s]
        operations == v.reads + v.writes + v.lookups
    IN v.socket = "up" => /\ v.extra = 0 => operations <= 1
                          /\ operations = 0 => v.dropped > 0
=============================================================================
