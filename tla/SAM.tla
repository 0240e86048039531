--------------------------------- MODULE SAM ---------------------------------
(* The SAM bridge (src/client/SAM.cpp): client sockets that create          *)
(* sessions, connect and accept streams through them, look up names and     *)
(* send datagrams.  A socket keeps a plain pointer to its session, a        *)
(* session a list of its sockets; what ends a socket or a session must keep *)
(* the two in step.  Handlers of the bridge run on its thread, those of     *)
(* streams and lookups on the destination's; each is one step.  A use of a  *)
(* session that is deleted, or of none, takes the bridge down.  Nothing     *)
(* keeps a client from giving a second SESSION CREATE, STREAM CONNECT or    *)
(* STREAM ACCEPT on a socket: it overwrites what the first one had set.     *)
EXTENDS Naturals

CONSTANTS
  SAMSockets,      \* client connections
  SAMIds,          \* session ids clients use
  SAMObjects,      \* bound: session objects ever made, 1..n
  SAMCommands      \* the commands of each connection

ASSUME SAMAssumption ==
  /\ SAMObjects \subseteq Nat \ {0}
  /\ SAMCommands \in [SAMSockets -> SUBSET {"create", "connect", "accept", "naming", "generate", "datagram", "other"}]

VARIABLES
  socks,       \* SAMSocket objects
  objects,     \* SAMSession objects; live is FALSE once they are deleted
  samTable,    \* m_Sessions: id -> object, 0 for none
  samUp        \* "running", "stopped" or "down"

samVars == <<socks, objects, samTable, samUp>>

NoId == "no id"
(* left: a stream of the socket was replaced, not closed, and its handlers  *)
(* still come; reused (history): a second of the three commands was given.  *)
SAMSocket ==
  [type |-> "Unknown", op |-> "accept", close |-> FALSE, silent |-> FALSE, id |-> NoId, session |-> 0,
   stream |-> FALSE, streamOp |-> "none", closed |-> FALSE, left |-> FALSE, reused |-> FALSE]
(* receiver: the socket that gets the datagrams of the session.             *)
SAMSession == [live |-> FALSE, sockets |-> {}, acceptor |-> {}, receiver |-> {}, made |-> FALSE]

SAMInit ==
  /\ socks = [k \in SAMSockets |-> SAMSocket]
  /\ objects = [n \in SAMObjects |-> SAMSession]
  /\ samTable = [i \in SAMIds |-> 0]
  /\ samUp = "running"

(* What a handler changes.                                                  *)
SAMWorld == [socks |-> socks, objects |-> objects, table |-> samTable, up |-> samUp]
Settle(w) == socks' = w.socks /\ objects' = w.objects /\ samTable' = w.table /\ samUp' = w.up

Crash == samUp' = "down" /\ UNCHANGED <<socks, objects, samTable>>
Alive(n) == n # 0 /\ objects[n].live

----------------------------------------------------------------------------
(* The ends of sockets and sessions.                                        *)
CloseStream(s) == [s EXCEPT !.stream = FALSE, !.streamOp = "none"]

(* CloseSession: the session is found by id; its sockets lose their streams *)
(* and their type, but stay connected.                                      *)
CloseSession(w, id) ==
  LET n == IF id = NoId THEN 0 ELSE w.table[id]
  IN IF n = 0 THEN w
     ELSE [socks |-> [k \in SAMSockets |->
             IF k \in w.objects[n].sockets THEN [CloseStream(w.socks[k]) EXCEPT !.type = "Terminated"] ELSE w.socks[k]],
           objects |-> [w.objects EXCEPT ![n] = [SAMSession EXCEPT !.made = TRUE]],
           table |-> [w.table EXCEPT ![id] = 0], up |-> w.up]

(* Variant: the acceptor of the destination is left set.                    *)
LeaveSessionOnly(w, k) ==
  [w EXCEPT !.objects[w.socks[k].session].sockets = @ \ {k}]
(* A stream or acceptor socket leaves its session.                          *)
LeaveSession(w, k) ==
  LET s == w.socks[k]
  IN [w EXCEPT !.objects[s.session].sockets = @ \ {k},
               !.objects[s.session].acceptor = IF s.type = "Acceptor" THEN {} ELSE @,
               !.up = IF w.objects[s.session].live THEN @ ELSE "down"]

(* Terminate of socket k; pending operations of the socket are aborted, but *)
(* not its timer or lookup.                                                 *)
EndedSocket(s) ==
  [CloseStream(s) EXCEPT !.type = "Terminated", !.closed = TRUE,
                         !.op = IF @ \in {"timer", "lookup", "name"} THEN @ ELSE "none"]
SAMTerminate(w, k) ==
  LET s == w.socks[k]
      v == IF s.type \in {"Session", "UDPForward"} THEN CloseSession(w, s.id)
           ELSE IF s.type \in {"Stream", "Acceptor"} /\ s.session # 0 THEN LeaveSession(w, k)
           ELSE w
  IN [v EXCEPT !.socks[k] = EndedSocket(@)]

(* Receive reads data for a stream socket, else the next message.           *)
SAMReceive(w, k) ==
  [w EXCEPT !.socks[k].op = IF w.socks[k].type = "Stream" THEN "data" ELSE "message"]

SendMessageReply(w, k, close) ==
  IF ~w.socks[k].silent THEN [w EXCEPT !.socks[k] = [@ EXCEPT !.op = "reply", !.close = close]]
  ELSE IF close THEN SAMTerminate(w, k) ELSE SAMReceive(w, k)

(* A handler throws: the socket goes, unless something else still holds it. *)
LetGo(w, k) ==
  IF w.socks[k].stream \/ w.socks[k].left \/ \E n \in SAMObjects : k \in w.objects[n].sockets \cup w.objects[n].receiver
  THEN [w EXCEPT !.socks[k].op = "none"]
  ELSE SAMTerminate(w, k)

----------------------------------------------------------------------------
(* The socket's operations.                                                 *)
Doing(k, op) == samUp = "running" /\ socks[k].op = op
Done(k, op) == Doing(k, op) /\ ~socks[k].closed

SAMHandleAccept(k) ==
  /\ Doing(k, "accept")
  /\ Settle([SAMWorld EXCEPT !.socks[k].op = "handshake"])

HandleHandshakeReceived(k) ==
  /\ Done(k, "handshake")
  /\ \/ Settle([SAMWorld EXCEPT !.socks[k].op = "handshakeReply"])
     \/ Settle(SendMessageReply(SAMWorld, k, TRUE))                    \* version
     \/ Settle(SAMTerminate(SAMWorld, k))                              \* mismatch

HandleHandshakeReplySent(k) ==
  /\ Done(k, "handshakeReply")
  /\ Settle([SAMWorld EXCEPT !.socks[k].op = "message"])

HandleMessageReplySent(k) ==
  /\ Done(k, "reply")
  /\ Settle(IF socks[k].close THEN SAMTerminate(SAMWorld, k) ELSE SAMReceive(SAMWorld, k))

(* The other end is gone: a read or write fails.                            *)
SocketFails(k) ==
  /\ samUp = "running" /\ socks[k].op \in {"handshake", "handshakeReply", "message", "reply", "data"}
  /\ Settle(SAMTerminate(SAMWorld, k))

----------------------------------------------------------------------------
(* HandleMessage and the commands.                                          *)
Says(k, command) == Done(k, "message") /\ command \in SAMCommands[k]

(* SESSION CREATE, STREAM CONNECT or STREAM ACCEPT for the id.              *)
Unused(s) == s.session = 0 /\ s.type = "Unknown"
Named(k, id) ==
  LET s == socks[k]
  IN [SAMWorld EXCEPT !.socks[k] = [s EXCEPT !.id = id, !.reused = s.reused \/ ~Unused(s)]]

CreateSession(w, id, n) ==
  [w EXCEPT !.table[id] = n, !.objects[n] = [SAMSession EXCEPT !.live = TRUE, !.made = TRUE]]

Spare == {n \in SAMObjects : ~objects[n].made}
NewObject == CHOOSE n \in Spare : TRUE

(* A duplicated id or destination is refused; style DATAGRAM has a receiver *)
(* and may come with a port; the reply waits for the destination's tunnels. *)
(* What does not parse throws, before or after the session is made.         *)
ProcessSessionCreate(k, id) ==
  LET w == Named(k, id)
      Opened(type, receiver) ==
        [CreateSession(w, id, NewObject) EXCEPT !.socks[k].session = NewObject, !.socks[k].type = type,
                                                !.objects[NewObject].receiver = receiver]
  IN /\ Says(k, "create")
     /\ \/ /\ samTable[id] # 0
           /\ Settle(SendMessageReply(w, k, TRUE))
        \/ /\ samTable[id] = 0 /\ Spare # {}
           /\ \/ \E v \in {Opened("Session", {}), Opened("Session", {k}), Opened("UDPForward", {k})} :
                  \/ Settle(SendMessageReply(v, k, FALSE))
                  \/ Settle([v EXCEPT !.socks[k].op = "timer"])
              \/ Settle(LetGo(Opened("Session", {}), k))
        \/ /\ samTable[id] = 0
           /\ \/ Settle(SendMessageReply([w EXCEPT !.socks[k].session = 0], k, TRUE))   \* no destination
              \/ Settle(LetGo(w, k))

HandleSessionReadinessCheckTimer(k) ==
  /\ Doing(k, "timer")
  /\ IF Alive(socks[k].session)
     THEN Settle(SendMessageReply(SAMWorld, k, FALSE))                 \* or it waits on
     ELSE Crash

WithStream(s) == [s EXCEPT !.type = "Stream", !.left = @ \/ s.stream, !.stream = TRUE, !.streamOp = "receive"]
(* Variant: the socket does not enter the session's list.                   *)
ConnectUnlisted(w, k) ==
  SendMessageReply([w EXCEPT !.socks[k] = WithStream(@)], k, FALSE)
(* Connect: the socket is listed, the stream created and both ends are read.*)
SAMConnect(w, k) ==
  SendMessageReply([w EXCEPT !.socks[k] = WithStream(@), !.objects[w.socks[k].session].sockets = @ \cup {k}], k, FALSE)

(* Without a LeaseSet at hand the socket waits for RequestDestination, not  *)
(* yet in the session's list.                                               *)
ProcessStreamConnect(k, id) ==
  LET n == samTable[id]
  IN /\ Says(k, "connect")
     /\ \E silent \in BOOLEAN :
          LET w == [Named(k, id) EXCEPT !.socks[k].session = n, !.socks[k].silent = @ \/ silent]
          IN IF n = 0 THEN Settle(SendMessageReply(w, k, TRUE))
             ELSE \/ Settle(SAMConnect(w, k))
                  \/ Settle([w EXCEPT !.socks[k].op = "lookup"])
                  \/ Settle(SendMessageReply(w, k, TRUE))              \* bad key

HandleConnectLeaseSetRequestComplete(k) ==
  /\ Doing(k, "lookup")
  /\ \/ IF Alive(socks[k].session) THEN Settle(SAMConnect(SAMWorld, k)) ELSE Crash
     \/ Settle(SendMessageReply(SAMWorld, k, TRUE))

Accepting(o, k) == [o EXCEPT !.sockets = @ \cup {k}, !.acceptor = {k}]

ProcessStreamAccept(k, id) ==
  LET n == samTable[id]
      w == [Named(k, id) EXCEPT !.socks[k].session = n]
  IN /\ Says(k, "accept")
     /\ IF n # 0 /\ objects[n].acceptor = {}
        THEN Settle(SendMessageReply([w EXCEPT !.socks[k].type = "Acceptor",
                                               !.objects[n] = Accepting(@, k)], k, FALSE))
        ELSE Settle(SendMessageReply(w, k, TRUE))

(* HandleI2PAccept: a stream comes in for the acceptor k; the session that  *)
(* now has the socket's id accepts no more.  The read that is under way     *)
(* stays one for messages.                                                  *)
HandleI2PAccept(n, k) ==
  /\ samUp = "running" /\ objects[n].live /\ k \in objects[n].acceptor
  /\ Settle([SAMWorld EXCEPT
       !.socks[k] = [WithStream(@) EXCEPT !.streamOp = IF socks[k].silent THEN "receive" ELSE "write"],
       !.objects = [m \in SAMObjects |->
                      IF m = samTable[socks[k].id] THEN [objects[m] EXCEPT !.acceptor = {}] ELSE objects[m]]])

(* DEST GENERATE, and NAMING LOOKUP: at once, after a lookup through the    *)
(* session, or of the session itself.                                       *)
ProcessNamingLookup(k) ==
  \/ /\ Says(k, "generate") \/ Says(k, "naming")
     /\ Settle(SendMessageReply(SAMWorld, k, FALSE))
  \/ /\ Says(k, "naming")
     /\ IF Alive(socks[k].session) THEN Settle([SAMWorld EXCEPT !.socks[k].op = "name"]) ELSE Crash

HandleNamingLookupLeaseSetRequestComplete(k) ==
  /\ Doing(k, "name")
  /\ Settle(SendMessageReply(SAMWorld, k, FALSE))

(* A datagram, if it is whole, goes out through the session; a size that is *)
(* no number throws.                                                        *)
ProcessDatagramSend(k) ==
  /\ Says(k, "datagram")
  /\ \/ IF socks[k].session = 0 \/ Alive(socks[k].session) THEN Settle(SAMReceive(SAMWorld, k)) ELSE Crash
     \/ Settle(LetGo(SAMWorld, k))

(* Anything else ends the socket.                                           *)
UnexpectedMessage(k) ==
  /\ Says(k, "other")
  /\ Settle(SAMTerminate(SAMWorld, k))

----------------------------------------------------------------------------
(* The two directions of a stream socket.                                   *)
SAMHandleReceived(k) ==
  /\ Done(k, "data")
  /\ Settle([SAMWorld EXCEPT !.socks[k].op = IF socks[k].stream THEN "sending" ELSE "none"])

SAMSendComplete(k) ==
  /\ Doing(k, "sending")
  /\ \/ Settle(SAMReceive(SAMWorld, k))
     \/ Settle(SAMTerminate(SAMWorld, k))

HandleI2PReceive(k) ==
  /\ samUp = "running" /\ socks[k].streamOp = "receive"
  /\ \/ Settle([SAMWorld EXCEPT !.socks[k].streamOp = "write"])
     \/ Settle(SAMTerminate(SAMWorld, k))                              \* idle, closed or reset

HandleWriteI2PData(k) ==
  /\ samUp = "running" /\ socks[k].streamOp = "write"
  /\ \/ ~socks[k].closed /\ Settle([SAMWorld EXCEPT !.socks[k].streamOp = "receive"])
     \/ Settle(SAMTerminate(SAMWorld, k))

(* A stream that was replaced ends.                                         *)
LeftStreamEnds(k) ==
  /\ samUp = "running" /\ socks[k].left
  /\ Settle(SAMTerminate([SAMWorld EXCEPT !.socks[k].left = FALSE], k))

(* A datagram for a session cannot be written to the socket that created it.*)
HandleI2PDatagramReceive(k) ==
  /\ samUp = "running" /\ socks[k].type # "UDPForward"
  /\ \E n \in SAMObjects : objects[n].live /\ k \in objects[n].receiver
  /\ Settle(SAMTerminate(SAMWorld, k))

(* SAMBridge::Stop deletes the sessions; nothing runs after it.             *)
SAMStop ==
  /\ samUp = "running"
  /\ samUp' = "stopped"
  /\ socks' = [k \in SAMSockets |->
       IF \E n \in SAMObjects : k \in objects[n].sockets THEN [socks[k] EXCEPT !.type = "Terminated"] ELSE socks[k]]
  /\ objects' = [n \in SAMObjects |-> [SAMSession EXCEPT !.made = objects[n].made]]
  /\ samTable' = [i \in SAMIds |-> 0]

SAMNext ==
  \/ \E k \in SAMSockets :
       \/ SAMHandleAccept(k) \/ HandleHandshakeReceived(k) \/ HandleHandshakeReplySent(k) \/ HandleMessageReplySent(k)
       \/ SocketFails(k) \/ HandleSessionReadinessCheckTimer(k)
       \/ \E id \in SAMIds : ProcessSessionCreate(k, id) \/ ProcessStreamConnect(k, id) \/ ProcessStreamAccept(k, id)
       \/ HandleConnectLeaseSetRequestComplete(k) \/ ProcessNamingLookup(k)
       \/ HandleNamingLookupLeaseSetRequestComplete(k) \/ ProcessDatagramSend(k) \/ UnexpectedMessage(k)
       \/ \E n \in SAMObjects : HandleI2PAccept(n, k)
       \/ SAMHandleReceived(k) \/ SAMSendComplete(k) \/ HandleI2PReceive(k) \/ HandleWriteI2PData(k)
       \/ LeftStreamEnds(k) \/ HandleI2PDatagramReceive(k)
  \/ SAMStop

SAMSpec == SAMInit /\ [][SAMNext]_samVars

----------------------------------------------------------------------------
(* A stream belongs to a socket that its session lists, and the session     *)
(* exists: whatever ends the session closes the stream, also one that was   *)
(* connected after a lookup or accepted.  It holds for a socket that had    *)
(* one of the three commands, whatever the other sockets were used for.     *)
SAMStreamsOwned ==
  samUp = "running" => \A k \in SAMSockets : socks[k].stream /\ ~socks[k].reused =>
    /\ socks[k].type = "Stream" /\ Alive(socks[k].session)
    /\ k \in objects[socks[k].session].sockets

(* The acceptor that a session's destination keeps is a socket that waits   *)
(* for a stream: one that is gone never keeps the next STREAM ACCEPT out.   *)
(* It holds for a socket that had one of the three commands, whatever the   *)
(* other sockets were used for.  As long as no socket had two of them, each *)
(* socket that waits is also its session's acceptor.                        *)
SAMAcceptorLive ==
  samUp = "running" => \A n \in SAMObjects, k \in SAMSockets :
    LET waits == objects[n].live /\ socks[k].type = "Acceptor" /\ socks[k].session = n
    IN /\ k \in objects[n].acceptor => waits \/ socks[k].reused
       /\ waits => k \in objects[n].acceptor \/ \E j \in SAMSockets : socks[j].reused
=============================================================================
