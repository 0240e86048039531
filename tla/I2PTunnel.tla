------------------------------ MODULE I2PTunnel ------------------------------
(* Client and server tunnels (src/client/I2PTunnel.cpp) on the service and  *)
(* handler classes of src/client/I2PService.h: a local socket and a stream  *)
(* are joined by a connection, which relays in both directions; while a     *)
(* client tunnel's stream is being made a front handler owns the socket.    *)
(* Handlers run on the destination's thread and stay alive through the      *)
(* operations that hold them; Stop and the deletion of the service come     *)
(* from the main thread.                                                    *)
EXTENDS Naturals, FiniteSets

CONSTANTS
  TunSockets,      \* local sockets, or streams that come in
  TunKind          \* the tunnel each belongs to: "client", "server", "http"

ASSUME TunAssumption == TunKind \in [TunSockets -> {"client", "server", "http"}]

VARIABLES
  tun,         \* per socket: its front handler and its connection
  endpoint,    \* of the server tunnel: "address", "resolving", "none"
  identHash,   \* the client tunnel has looked up m_DestinationIdentHash
  svc          \* "up", "stopped", "deleted", "ended" or "down"

tunVars == <<tun, endpoint, identHash, svc>>

(* front and conn are "none", at their work, or "dead" (Kill).              *)
Tun == [front |-> "none", conn |-> "none", listed |-> {}, sock |-> FALSE, stream |-> FALSE,
        localOp |-> "none", streamOp |-> "none", headerSent |-> FALSE]

TunInit ==
  /\ tun = [s \in TunSockets |-> Tun]
  /\ endpoint \in {"address", "resolving"} /\ identHash \in BOOLEAN      \* both Starts
  /\ svc = "up"

TunRuns == svc \in {"up", "stopped", "deleted"}
TunSet(s, t) == tun' = [tun EXCEPT ![s] = t] /\ UNCHANGED <<endpoint, identHash, svc>>
TunCrash == svc' = "down" /\ UNCHANGED <<tun, endpoint, identHash>>

(* Done and AddHandler go through the owner.                                *)
ByOwner(s, t) == IF svc = "deleted" THEN TunCrash ELSE TunSet(s, t)

----------------------------------------------------------------------------
(* I2PTunnelConnection.                                                     *)
(* Variant: the connection stays among the service's handlers.              *)
TerminatedListed(t) ==
  [t EXCEPT !.conn = "dead", !.stream = FALSE, !.sock = FALSE, !.localOp = "none", !.streamOp = "none"]
(* Terminate: the stream closed, the socket closed and its operations       *)
(* aborted, the handler removed.                                            *)
Terminated(t) ==
  [t EXCEPT !.conn = "dead", !.stream = FALSE, !.sock = FALSE, !.localOp = "none", !.streamOp = "none",
            !.listed = @ \ {"conn"}]

(* I2PConnect: the first packet, then both directions.                      *)
I2PConnected(t) ==
  [t EXCEPT !.conn = "open", !.stream = TRUE, !.localOp = "read", !.streamOp = "receive", !.listed = @ \cup {"conn"}]

(* Write: the HTTP connection collects the header first; while it lacks the *)
(* end nothing is written and nothing more is received.                     *)
Written(s, t, endOfHeader) ==
  IF TunKind[s] # "http" \/ t.headerSent THEN [t EXCEPT !.streamOp = "write"]
  ELSE IF endOfHeader THEN [t EXCEPT !.streamOp = "write", !.headerSent = TRUE]
  ELSE [t EXCEPT !.streamOp = "none"]

TunHandleReceived(s) ==
  /\ TunRuns /\ tun[s].localOp = "read" /\ tun[s].conn = "open"
  /\ \/ TunSet(s, [tun[s] EXCEPT !.localOp = "sending"])
     \/ ByOwner(s, Terminated(tun[s]))

(* The handler of AsyncSend, called when the stream has taken the data.     *)
TunSendComplete(s) ==
  /\ TunRuns /\ tun[s].localOp = "sending"
  /\ \/ TunSet(s, [tun[s] EXCEPT !.localOp = "read"])
     \/ ByOwner(s, Terminated(tun[s]))

(* Data, or the stream was idle for an hour, closed or reset.               *)
HandleStreamReceive(s) ==
  /\ TunRuns /\ tun[s].streamOp = "receive"
  /\ \/ \E endOfHeader \in BOOLEAN : TunSet(s, Written(s, tun[s], endOfHeader))
     \/ ByOwner(s, Terminated(tun[s]))

HandleWrite(s) ==
  /\ TunRuns /\ tun[s].streamOp = "write"
  /\ \/ TunSet(s, [tun[s] EXCEPT !.streamOp = "receive"])
     \/ ByOwner(s, Terminated(tun[s]))

(* HandleConnect of a connection to the local server: the stream is read,   *)
(* or, for BOB's tunnels, the peer's destination is written first.          *)
HandleConnect(s) ==
  /\ TunRuns /\ tun[s].conn = "connecting"
  /\ \/ \E quiet \in BOOLEAN :
          LET t == [tun[s] EXCEPT !.conn = "open", !.localOp = "read", !.streamOp = "receive"]
          IN /\ TunKind[s] = "http" => quiet
             /\ TunSet(s, IF quiet THEN t ELSE Written(s, t, FALSE))
     \/ ByOwner(s, Terminated(tun[s]))

----------------------------------------------------------------------------
(* The client tunnel.                                                       *)
(* HandleAccept: a handler, if the address is known, asks for the stream.   *)
TunHandleAccept(s) ==
  /\ svc = "up" /\ TunKind[s] = "client" /\ tun[s] = Tun
  /\ \/ /\ tun' = [tun EXCEPT ![s] = [Tun EXCEPT !.front = "creating", !.sock = TRUE, !.listed = {"front"}]]
        /\ identHash' = TRUE
     \/ /\ ~identHash                                                   \* no address: closed
        /\ tun' = [tun EXCEPT ![s].front = "dead"] /\ UNCHANGED identHash
  /\ UNCHANGED <<endpoint, svc>>

(* HandleStreamRequestComplete: the socket goes over to a connection.       *)
TunStreamRequestComplete(s) ==
  LET done == [tun[s] EXCEPT !.front = "dead", !.listed = @ \ {"front"}]
  IN /\ TunRuns /\ tun[s].front = "creating"
     /\ \/ ByOwner(s, I2PConnected(done))
        \/ ByOwner(s, [done EXCEPT !.sock = FALSE])

----------------------------------------------------------------------------
(* The server tunnel.  Its acceptor stays with the destination after Stop.  *)
HandleResolve ==
  /\ svc \in {"up", "stopped"} /\ endpoint = "resolving"
  /\ endpoint' \in {"address", "none"}
  /\ UNCHANGED <<tun, identHash, svc>>

(* HandleAccept: a stream that the access list does not name is closed.     *)
ServerHandleAccept(s) ==
  /\ TunRuns /\ TunKind[s] # "client" /\ endpoint = "address" /\ tun[s] = Tun
  /\ \/ ByOwner(s, [tun[s] EXCEPT !.conn = "connecting", !.stream = TRUE, !.sock = TRUE, !.listed = {"conn"}])
     \/ ByOwner(s, [tun[s] EXCEPT !.conn = "dead"])

----------------------------------------------------------------------------
(* ClientContext::Stop: the acceptor is closed and the handlers forgotten,  *)
(* the service deleted; the destinations stop after that.                   *)
TunStop ==
  /\ svc = "up" /\ svc' = "stopped"
  /\ tun' = [s \in TunSockets |-> [tun[s] EXCEPT !.listed = {}]] /\ identHash' = FALSE
  /\ UNCHANGED endpoint

TunDelete == svc = "stopped" /\ svc' = "deleted" /\ UNCHANGED <<tun, endpoint, identHash>>

DestinationsStop == svc = "deleted" /\ svc' = "ended" /\ UNCHANGED <<tun, endpoint, identHash>>

TunNext ==
  \/ \E s \in TunSockets :
       \/ TunHandleReceived(s) \/ TunSendComplete(s) \/ HandleStreamReceive(s) \/ HandleWrite(s) \/ HandleConnect(s)
       \/ TunHandleAccept(s) \/ TunStreamRequestComplete(s) \/ ServerHandleAccept(s)
  \/ HandleResolve \/ TunStop \/ TunDelete \/ DestinationsStop

TunSpec == TunInit /\ [][TunNext]_tunVars

----------------------------------------------------------------------------
(* A local socket is open exactly while one handler owns it, the front one  *)
(* or the connection and never both; the service lists no handler that is   *)
(* dead, and an open connection goes on reading its socket and its stream,  *)
(* a connection of an HTTP server tunnel from the end of the header on.     *)
TunnelOwned ==
  svc # "down" => \A s \in TunSockets :
    LET front == tun[s].front = "creating"
        conn == tun[s].conn \in {"connecting", "open"}
    IN /\ ~(front /\ conn)
       /\ tun[s].sock <=> front \/ conn
       /\ "front" \in tun[s].listed => front
       /\ "conn" \in tun[s].listed => conn
       /\ tun[s].conn = "open" =>
            /\ tun[s].localOp # "none"
            /\ tun[s].streamOp # "none" \/ (TunKind[s] = "http" /\ ~tun[s].headerSent)
=============================================================================
