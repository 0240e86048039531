------------------------------- MODULE Proxies -------------------------------
(* The request handlers of the SOCKS proxy (src/client/SOCKS.cpp) and of    *)
(* the HTTP proxy (src/client/HTTPProxy.cpp): an octet parser fed in        *)
(* whatever pieces the socket delivers, then a stream to the address        *)
(* parsed, then the hand-over of the socket to a tunnel connection.         *)
EXTENDS Integers, Sequences

CONSTANTS
  Octets,          \* values of an octet; the code's is 256
  PortSize, IPv4Size, IPv6Size,     \* octets of each; the code's are 2, 4, 16
  SocksOctets,     \* the octets a SOCKS client sends
  HTTPOctets,      \* and an HTTP client
  ProxyChunk,      \* bound: octets of one read
  MaxHeard         \* bound: octets parsed of SOCKS 4 and 5, and of HTTP, 0

ASSUME ProxyAssumption ==
  /\ Octets \in Nat \ {0, 1} /\ {PortSize, IPv4Size, IPv6Size} \subseteq 1..Octets - 1
  /\ SocksOctets \subseteq 0..Octets - 1 /\ HTTPOctets \subseteq Nat /\ ProxyChunk \in Nat \ {0} /\ MaxHeard \in [{0, 4, 5} -> Nat]

VARIABLES
  proxy,       \* "socks" or "http"
  px,          \* the parser, and what it has heard
  proxyOps,    \* operations under way
  proxySock,   \* the handler has its socket
  proxyEnd     \* "none", "dead" (Kill), "handed" over, "thrown" out of, "down"

proxyVars == <<proxy, px, proxyOps, proxySock, proxyEnd>>

Parser(state) ==
  [state |-> state, left |-> 1, v |-> 0, cmd |-> 0, auth |-> FALSE, chosen |-> FALSE, addr |-> "IPV4", ip |-> 0, host |-> 0,
   verdict |-> "more", heard |-> << >>, rest |-> 0]

ProxyInit ==
  /\ proxy \in {"socks", "http"}
  /\ px = Parser(IF proxy = "socks" THEN "GET_SOCKSV" ELSE "GET_METHOD")
  /\ proxyOps = {"read"} /\ proxySock = TRUE /\ proxyEnd = "none"

----------------------------------------------------------------------------
(* The SOCKS parser.                                                        *)
EnterState(p, s, left) ==
  [p EXCEPT !.state = s,
     !.left = CASE s = "GET_PORT" -> PortSize [] s = "GET_IPV4" -> IPv4Size [] s = "GET5_IPV6" -> IPv6Size [] OTHER -> left,
     !.addr = CASE s = "GET_IPV4" -> "IPV4" [] s \in {"GET4A_HOST", "GET5_HOST"} -> "DNS" [] s = "GET5_IPV6" -> "IPV6" [] OTHER -> @,
     !.ip = IF s = "GET_IPV4" THEN 0 ELSE @,
     !.host = IF s \in {"GET4A_HOST", "GET5_HOST"} THEN 0 ELSE @]

(* m_parseleft is one octet wide: a count of 0 runs to the full range.      *)
Counted(p, next) ==
  LET left == (p.left + Octets - 1) % Octets
  IN IF left = 0 THEN EnterState(p, next, 1) ELSE [p EXCEPT !.left = left]

Refused(p) == [p EXCEPT !.verdict = "fail"]

(* Socks5ChooseAuth, once the methods are read.                             *)
Authenticated(p) ==
  IF p.state = "GET5_AUTH" THEN p ELSE IF p.auth THEN [p EXCEPT !.chosen = TRUE] ELSE Refused(p)

(* Variant: the address 0.0.0.0 asks for a host name.                       *)
Is4aOrZero(ip) == ip < Octets
(* SOCKS4a: the host name follows an address 0.0.0.x, x not 0.              *)
Is4a(ip) == ip # 0 /\ ip < Octets

SocksOctet(p, o) ==
  CASE p.state = "GET_SOCKSV" ->
         CASE o = 4 -> EnterState([p EXCEPT !.v = 4], "GET_COMMAND", 1)
           [] o = 5 -> EnterState([p EXCEPT !.v = 5], "GET5_AUTHNUM", 1)
           [] OTHER -> [p EXCEPT !.verdict = "terminate"]
    [] p.state = "GET5_AUTHNUM" -> EnterState(p, "GET5_AUTH", o)
    [] p.state = "GET5_AUTH" -> Authenticated(Counted([p EXCEPT !.auth = @ \/ o = 0], "GET5_REQUESTV"))
    [] p.state = "GET5_REQUESTV" -> IF o = 5 THEN EnterState(p, "GET_COMMAND", 1) ELSE Refused(p)
    [] p.state = "GET_COMMAND" ->
         IF o \in {1, 2} \/ (o = 3 /\ p.v = 5)
         THEN EnterState([p EXCEPT !.cmd = o], IF p.v = 5 THEN "GET5_GETRSV" ELSE "GET_PORT", 1)
         ELSE Refused(p)
    [] p.state = "GET5_GETRSV" -> IF o = 0 THEN EnterState(p, "GET5_GETADDRTYPE", 1) ELSE Refused(p)
    [] p.state = "GET5_GETADDRTYPE" ->
         CASE o = 1 -> EnterState(p, "GET_IPV4", 1)
           [] o = 4 -> EnterState(p, "GET5_IPV6", 1)
           [] o = 3 -> EnterState(p, "GET5_HOST_SIZE", 1)
           [] OTHER -> Refused(p)
    [] p.state = "GET_IPV4" -> Counted([p EXCEPT !.ip = @ * Octets + o], IF p.v = 5 THEN "GET_PORT" ELSE "GET4_IDENT")
    [] p.state = "GET5_IPV6" -> Counted(p, "GET_PORT")
    [] p.state = "GET5_HOST_SIZE" -> EnterState(p, "GET5_HOST", o)
    [] p.state = "GET5_HOST" -> Counted([p EXCEPT !.host = @ + 1], "GET_PORT")
    [] p.state = "GET_PORT" -> Counted(p, IF p.v = 5 THEN "DONE" ELSE "GET_IPV4")
    [] p.state = "GET4_IDENT" ->
         IF o # 0 THEN p ELSE EnterState(p, IF Is4a(p.ip) THEN "GET4A_HOST" ELSE "DONE", 1)
    [] OTHER ->                                                         \* GET4A_HOST
         CASE o = 0 -> EnterState(p, "DONE", 1)
           [] o # 0 /\ p.host >= Octets - 1 -> Refused(p)               \* too large
           [] OTHER -> [p EXCEPT !.host = @ + 1]

(* ValidateSOCKSRequest: CONNECT to a host name; whether it is in .i2p is   *)
(* left open.                                                               *)
SocksValid(p) == p.cmd = 1 /\ p.addr = "DNS"

----------------------------------------------------------------------------
(* The HTTP parser: " " ends method and URL, CR LF the request line.        *)
SP == 32
CR == 13
LF == 10
HTTPOctet(p, o) ==
  CASE p.state = "GET_METHOD" -> IF o = SP THEN [p EXCEPT !.state = "GET_HOSTNAME"] ELSE p
    [] p.state = "GET_HOSTNAME" -> IF o = SP THEN [p EXCEPT !.state = "GET_HTTPV"] ELSE p
    [] p.state = "GET_HTTPV" -> IF o = CR THEN [p EXCEPT !.state = "GET_HTTPVNL"] ELSE p
    [] OTHER -> IF o = LF THEN [p EXCEPT !.state = "DONE"] ELSE Refused(p)

(* ExtractRequest and ValidateHTTPRequest: the version is turned down, or a *)
(* port that is no int throws out of the handler.                           *)
HTTPVerdicts == {"create", "fail", "throw"}

(* HandleData: octet by octet until the request is refused or complete;     *)
(* what is left of the piece goes along with the request.                   *)
HandleOctet(q, o) ==
  IF q.verdict # "more" \/ q.state = "DONE" THEN [q EXCEPT !.rest = @ + 1]
  ELSE LET r == IF proxy = "socks" THEN SocksOctet(q, o) ELSE HTTPOctet(q, o)
       IN [r EXCEPT !.heard = Append(@, o)]

HandleData(p, piece) ==
  LET parsed[i \in 0..Len(piece)] == IF i = 0 THEN p ELSE HandleOctet(parsed[i - 1], piece[i])
  IN parsed[Len(piece)]

----------------------------------------------------------------------------
(* The handler.                                                             *)
ProxyRuns(op) == proxyEnd \notin {"down"} /\ op \in proxyOps

(* Terminate: Kill, the socket is closed and what is pending on it aborted. *)
ProxyTerminate(ops) ==
  /\ proxyEnd' = "dead" /\ proxySock' = FALSE
  /\ proxyOps' = ops \cap {"create"}

(* SocksRequestFailed, HTTPRequestFailed.                                   *)
RequestFailed(ops) ==
  IF proxySock THEN proxyOps' = ops \cup {"failed"} /\ UNCHANGED <<proxySock, proxyEnd>>
  ELSE proxyEnd' = "down" /\ proxyOps' = ops /\ UNCHANGED proxySock

ProxyAlphabet == IF proxy = "socks" THEN SocksOctets ELSE HTTPOctets

(* HandleSockRecv of a piece of the request: more is read, the stream asked *)
(* for, or the request turned down.                                         *)
HandleSockRecv(piece) ==
  LET p == HandleData(px, piece)
      ops == (proxyOps \ {"read"}) \cup (IF p.chosen /\ ~px.chosen THEN {"auth"} ELSE {})
      Verdicts == IF proxy = "http" THEN HTTPVerdicts ELSE IF SocksValid(p) THEN {"create", "fail"} ELSE {"fail"}
  IN /\ ProxyRuns("read") /\ Len(px.heard) + Len(piece) <= MaxHeard[px.v]  \* bound
     /\ px' = p
     /\ \E verdict \in IF p.verdict = "more" /\ p.state = "DONE" THEN Verdicts ELSE {p.verdict} :
          \/ verdict = "terminate" /\ ProxyTerminate(ops)
          \/ verdict = "fail" /\ RequestFailed(ops)
          \/ verdict = "more" /\ proxyOps' = ops \cup {"read"} /\ UNCHANGED <<proxySock, proxyEnd>>
          \/ verdict = "create" /\ proxyOps' = ops \cup {"create"} /\ UNCHANGED <<proxySock, proxyEnd>>
          \/ verdict = "throw" /\ proxyEnd' = "thrown" /\ proxyOps' = ops /\ UNCHANGED proxySock
     /\ UNCHANGED proxy

(* A read or a write fails; SentSocksFailed and SentHTTPFailed end the      *)
(* handler either way, SentSocksResponse goes on.                           *)
ProxyError ==
  /\ \E op \in {"read", "auth", "failed", "done"} : ProxyRuns(op) /\ ProxyTerminate(proxyOps)
  /\ UNCHANGED <<proxy, px>>

SentSocksResponse ==
  /\ ProxyRuns("auth")
  /\ proxyOps' = proxyOps \ {"auth"} /\ UNCHANGED <<proxy, px, proxySock, proxyEnd>>

(* The socket goes to a new I2PTunnelConnection, which is given the rest of *)
(* the piece to send first.                                                 *)
HandOver == proxyEnd # "dead" /\ proxyEnd' = "handed" /\ proxySock' = FALSE

(* The stream is there or not; SOCKS tells its client first.                *)
HandleStreamRequestComplete ==
  /\ ProxyRuns("create")
  /\ \/ RequestFailed(proxyOps \ {"create"})
     \/ /\ proxy = "socks" /\ proxySock
        /\ proxyOps' = (proxyOps \ {"create"}) \cup {"done"} /\ UNCHANGED <<proxySock, proxyEnd>>
     \/ /\ proxy = "http"
        /\ proxyOps' = proxyOps \ {"create"} /\ HandOver
  /\ UNCHANGED <<proxy, px>>

SentSocksDone ==
  /\ ProxyRuns("done")
  /\ proxyOps' = proxyOps \ {"done"} /\ HandOver
  /\ UNCHANGED <<proxy, px>>

ProxyNext ==
  \/ \E n \in 1..ProxyChunk : \E piece \in [1..n -> ProxyAlphabet] : HandleSockRecv(piece)
  \/ ProxyError \/ SentSocksResponse \/ HandleStreamRequestComplete \/ SentSocksDone

ProxySpec == ProxyInit /\ [][ProxyNext]_proxyVars

----------------------------------------------------------------------------
(* The requests, as their definitions give them.                            *)
FirstZeroAfter(h, i, e) == e \in i + 1..Len(h) /\ h[e] = 0 /\ \A j \in i + 1..e - 1 : h[j] # 0

Socks4Request(h) ==
  LET fixed == 2 + PortSize + IPv4Size
  IN /\ Len(h) > fixed /\ h[1] = 4 /\ h[2] \in {1, 2}
     /\ \E e \in fixed + 1..Len(h) :
          /\ FirstZeroAfter(h, fixed, e)
          /\ IF h[fixed] # 0 /\ \A j \in 3 + PortSize..fixed - 1 : h[j] = 0
             THEN FirstZeroAfter(h, e, Len(h)) ELSE Len(h) = e

Socks5Request(h) ==
  /\ Len(h) > 2 /\ h[1] = 5
  /\ LET n == h[2]
     IN /\ Len(h) > 7 + n
        /\ \E j \in 3..2 + n : h[j] = 0
        /\ h[3 + n] = 5 /\ h[4 + n] \in {1, 2, 3} /\ h[5 + n] = 0
        /\ \/ h[6 + n] = 1 /\ Len(h) = 6 + n + IPv4Size + PortSize
           \/ h[6 + n] = 4 /\ Len(h) = 6 + n + IPv6Size + PortSize
           \/ h[6 + n] = 3 /\ Len(h) = 7 + n + h[7 + n] + PortSize

(* No methods, or a name of no octets.                                      *)
ZeroLength(h) ==
  /\ Len(h) > 1 /\ h[1] = 5
  /\ LET n == h[2]
     IN n = 0 \/ (Len(h) > 6 + n /\ h[6 + n] = 3 /\ h[7 + n] = 0)

HTTPRequest(h) ==
  \E i, j, k \in 1..Len(h) :
    /\ i < j /\ j < k /\ k = Len(h) - 1
    /\ \A l \in 1..j : h[l] = SP <=> l \in {i, j}
    /\ \A l \in j + 1..k : h[l] = CR <=> l = k
    /\ h[k + 1] = LF

(* However the octets of a request are cut into pieces, the proxy acts on   *)
(* it at its last octet and never earlier or later: what comes after it is  *)
(* data for the stream.  A SOCKS5 client that sends a length of 0 is the    *)
(* exception: HandleData counts it down through the whole range of          *)
(* m_parseleft, and takes what follows for methods or for a name.           *)
RequestExact ==
  IF proxy = "http" THEN px.state = "DONE" <=> HTTPRequest(px.heard)
  ELSE ~ZeroLength(px.heard) =>
         (px.state = "DONE" <=> Socks4Request(px.heard) \/ Socks5Request(px.heard))
=============================================================================
