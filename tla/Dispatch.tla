------------------------------ MODULE Dispatch -----------------------------
(***************************************************************************)
(* What the MASQUE server makes of a request, before any tunnel: the arms  *)
(* of handle_connection and the validators they call, in src/src/masque.rs,*)
(* with parse_authority of server.rs.  Everything here is a function of    *)
(* the request.                                                            *)
(*                                                                         *)
(* A request is a record: method, proto (the :protocol, or "none"), path   *)
(* ("udp", "ip" or "other": which template it begins with), host and port  *)
(* (of the udp path or of the authority, by their form), capsule (the      *)
(* capsule-protocol header is "?1") and cred, the Proxy-Authorization.     *)
(***************************************************************************)
EXTENDS Integers, Sequences

CONSTANT HasToken   \* --auth-token is set; always so with --enable h3

(***************************************************************************)
(* The arms, in the order in which they are tried.                         *)
(***************************************************************************)
IsConnectIpPath(r) == r.path = "ip"

\* Faulty variant: the default path is enough, whatever the :protocol.
ArmByPath(r) ==
  IF r.method # "CONNECT" THEN "reject405"
  ELSE IF r.proto = "connect-udp" THEN "udp"
  ELSE IF r.proto = "connect-ip" \/ IsConnectIpPath(r) THEN "ip"
  ELSE IF r.proto = "websocket" THEN "ws"
  ELSE IF r.proto = "none" THEN "tcp" ELSE "reject501"

Arm(r) ==
  IF r.method # "CONNECT" THEN "reject405"
  ELSE IF r.proto = "connect-udp" THEN "udp"
  ELSE IF r.proto = "connect-ip" \/ (r.proto = "none" /\ IsConnectIpPath(r)) THEN "ip"
  ELSE IF r.proto = "websocket" THEN "ws"
  ELSE IF r.proto = "none" THEN "tcp" ELSE "reject501"

(***************************************************************************)
(* The validators.  Each is a list of checks with the status that answers  *)
(* the first one that fails.                                               *)
(***************************************************************************)
\* cred: scheme, whether the base64 and UTF-8 decode, and the part compared with
\* the token: all of a Bearer, the password of a Basic or all of one without colon.
CheckProxyAuth(cred) ==
  /\ HasToken
  /\ \/ cred.scheme = "Bearer"
     \/ cred.scheme = "Basic" /\ cred.decodes
  /\ cred.secret = "token"

\* parse_target and parse_target_host: a non-empty host, after percent-decoding and
\* with brackets taken off, and a numeric port.
ParseTarget(r) ==
  /\ r.path = "udp"
  /\ r.port = "number"
  /\ r.host \in {"literal", "name", "bracketed", "bracketedname"}

\* parse_authority: the port is required; brackets hold an IPv6 literal.  A host
\* before the last colon may be empty, resolving it fails later.
ParseAuthority(r) ==
  /\ r.port = "number"
  /\ r.host \in {"literal", "name", "bracketed", "empty"}

Verdict(checks) ==
  LET failed == {i \in DOMAIN checks : ~checks[i][1]}
  IN IF failed = {} THEN 200
     ELSE checks[CHOOSE i \in failed : \A j \in failed : i <= j][2]

ValidateConnectUdp(r) ==
  Verdict(<< <<r.method = "CONNECT", 405>>,
             <<r.proto = "connect-udp", 501>>,
             <<r.capsule, 400>>,
             <<CheckProxyAuth(r.cred), 407>>,
             <<ParseTarget(r), 400>> >>)

\* The third check is never reached with connect-udp, which Arm gives to the udp arm.
ValidateConnectIp(r) ==
  Verdict(<< <<r.method = "CONNECT", 405>>,
             <<IsConnectIpPath(r), 400>>,
             <<r.proto # "connect-udp", 501>>,
             <<r.capsule, 400>>,
             <<CheckProxyAuth(r.cred), 407>> >>)

ValidateTcpConnect(r) ==
  Verdict(<< <<r.method = "CONNECT", 405>>,
             <<r.proto = "none", 501>>,
             <<CheckProxyAuth(r.cred), 407>>,
             <<ParseAuthority(r), 400>> >>)

ValidateWebsocketConnect(r) ==
  Verdict(<< <<r.method = "CONNECT", 405>>,
             <<r.proto = "websocket", 501>>,
             <<CheckProxyAuth(r.cred), 407>>,
             <<ParseAuthority(r), 400>> >>)

\* The status of the request's own checks; after 200 the handler of the arm goes on.
Validate(r) ==
  LET arm == Arm(r)
  IN IF arm = "reject405" THEN 405
     ELSE IF arm = "reject501" THEN 501
     ELSE IF arm = "udp" THEN ValidateConnectUdp(r)
     ELSE IF arm = "ip" THEN ValidateConnectIp(r)
     ELSE IF arm = "ws" THEN ValidateWebsocketConnect(r)
     ELSE ValidateTcpConnect(r)
=============================================================================
