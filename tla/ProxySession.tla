--------------------------- MODULE ProxySession ---------------------------
(***************************************************************************)
(* One client of the TCP proxy, from accept to the end of its session:     *)
(* handle_client and the SOCKS4, SOCKS5 and HTTP CONNECT handlers of       *)
(* src/src/server.rs.                                                      *)
(*                                                                         *)
(* What a client sends is a row of parts: those of its handshake, then its *)
(* payload, one part for one byte.  A handler reads a SOCKS part with      *)
(* read_exact; the HTTP handler reads whatever has arrived.  The relay of  *)
(* UDP ASSOCIATE ends here with its control connection.                    *)
(***************************************************************************)
EXTENDS Integers, Sequences

CONSTANTS
  Asks,       \* requests: [proto, cmd, form, dest]
  Addrs,      \* IP addresses
  Special,    \* those is_rfc6890_special holds for
  NoAddr,     \* no address
  Lookup,     \* [destination -> addresses a lookup of it may give]
  Literals,   \* destinations given as an address
  Block,      \* block_special_addrs
  MaxPayload  \* bound: bytes each side sends through the tunnel

ASSUME SessionAssumption ==
  /\ Asks \subseteq [proto : {"socks4", "socks5", "http", "other"},
                     cmd : {"connect", "bind", "udp", "other"},
                     form : {"ok", "nomethod", "version", "reserved", "address"},
                     dest : DOMAIN Lookup]
  /\ Special \subseteq Addrs
  /\ NoAddr \notin Addrs
  /\ \A d \in DOMAIN Lookup : Lookup[d] \subseteq Addrs
  /\ Block \in BOOLEAN
  /\ MaxPayload \in Nat

VARIABLES
  ask,       \* what the client asks for
  client,    \* its side of the connection: "open", "fin" or "reset"
  arrived,   \* parts it has sent
  consumed,  \* parts the handler has read
  stage,     \* where the handler stands
  replies,   \* the replies it has written
  target,    \* the address the destination resolved to
  upstream,  \* the address the proxy is connected to
  upEnd,     \* upstream's side: "open", "fin" or "reset"
  upSent,    \* bytes upstream has sent
  upGot,     \* payload parts written to upstream, in order
  downGot,   \* bytes written to the client after the handshake
  eof        \* [up, down]: the end has been signalled to upstream, to the client

peers == <<ask, client, arrived, upEnd, upSent>>
relay == <<upGot, downGot, eof>>
vars == <<peers, consumed, stage, replies, target, upstream, relay>>

\* The parts of a handshake: greeting, request and address; request and strings; a piece
\* of "CONNECT ", what is missing of it, and the rest of the head.
HeadLen ==
  CASE ask.proto \in {"socks5", "http"} -> 3
    [] ask.proto = "socks4" -> 2
    [] OTHER -> 1

Reading == {"greeting", "request", "target", "fixed", "strings", "head"}
Stages == Reading \cup
  {"probe", "resolve", "check", "connect", "listen", "accept", "answer", "forward",
   "tunnel", "associate", "udp", "done"}

Init ==
  /\ ask \in Asks
  /\ client = "open" /\ arrived = 0 /\ consumed = 0
  /\ stage = "probe"
  /\ replies = <<>>
  /\ target = NoAddr /\ upstream = NoAddr
  /\ upEnd = "open" /\ upSent = 0
  /\ upGot = <<>> /\ downGot = 0
  /\ eof = [up |-> FALSE, down |-> FALSE]

(***************************************************************************)
(* Replies.                                                                *)
(***************************************************************************)
\* A write to a client that has reset the connection fails, or is lost.
Say(reply, next) ==
  \/ /\ client # "reset"
     /\ replies' = Append(replies, reply)
     /\ stage' = next
  \/ /\ client = "reset"
     /\ stage' \in {next, "done"}
     /\ UNCHANGED replies

Fail(reply) == Say(reply, "done")

FailSilently == stage' = "done" /\ UNCHANGED replies

(***************************************************************************)
(* The handshake.                                                          *)
(***************************************************************************)
\* detect_protocol: one byte tells SOCKS, "CONNECT " must be there as a whole.
Detected ==
  CASE ask.proto = "socks5" -> "greeting"
    [] ask.proto = "socks4" -> "fixed"
    [] ask.proto = "http" /\ arrived > 1 -> "head"
    [] OTHER -> "done"

\* peek sees every part that has arrived and takes none.
Detect ==
  /\ stage = "probe"
  /\ arrived > 0
  /\ stage' = Detected
  /\ UNCHANGED <<peers, consumed, replies, target, upstream, relay>>

\* The client closed or reset, or the handshake timeout passed, before a byte arrived.
ProbeFails ==
  /\ stage = "probe"
  /\ arrived = 0 \/ client = "reset"
  /\ stage' = "done"
  /\ UNCHANGED <<peers, consumed, replies, target, upstream, relay>>

ReadPart(at) ==
  /\ stage = at
  /\ consumed < arrived
  /\ consumed' = consumed + 1
  /\ UNCHANGED <<peers, target, upstream, relay>>

Greeting ==
  /\ ReadPart("greeting")
  /\ IF ask.form = "nomethod" THEN Fail("nomethod") ELSE Say("method", "request")

\* The version and the reserved byte are checked, the address type is not read yet.
Request ==
  /\ ReadPart("request")
  /\ IF ask.form = "version" THEN FailSilently
     ELSE IF ask.form = "reserved" THEN Fail("general")
     ELSE stage' = "target" /\ UNCHANGED replies

Target ==
  /\ ReadPart("target")
  /\ CASE ask.form = "address" -> Fail("address")
       [] ask.form # "address" /\ ask.cmd = "other" -> Fail("command")
       [] ask.form # "address" /\ ask.cmd = "udp" -> stage' = "associate" /\ UNCHANGED replies
       [] OTHER -> stage' = "resolve" /\ UNCHANGED replies

\* An unknown address type is refused before the address is read.
TargetUnread ==
  /\ stage = "target"
  /\ ask.form = "address"
  /\ Fail("address")
  /\ UNCHANGED <<peers, consumed, target, upstream, relay>>

Fixed ==
  /\ ReadPart("fixed")
  /\ IF ask.cmd # "connect" THEN Fail("command") ELSE stage' = "strings" /\ UNCHANGED replies

Strings ==
  /\ ReadPart("strings")
  /\ IF ask.form = "address" THEN FailSilently ELSE stage' = "resolve" /\ UNCHANGED replies

\* read_http_head takes what is there; what follows the blank line is pending payload.  A
\* head that is no UTF-8, has no authority or does not end within 8192 bytes ends the
\* session.  The 405 cannot happen: the head begins with "CONNECT ".
ReadHead ==
  /\ stage = "head"
  /\ consumed < arrived
  /\ consumed' \in consumed + 1 .. arrived
  /\ stage' = IF consumed' < HeadLen THEN "head"
              ELSE IF ask.form = "address" THEN "done" ELSE "resolve"
  /\ UNCHANGED <<peers, replies, target, upstream, relay>>

\* Faulty variant: a read of 0 bytes is not taken for the end.
ReadFailsOnReset ==
  /\ stage \in Reading
  /\ client = "reset"
  /\ IF stage = "target" THEN Fail("address") ELSE FailSilently
  /\ UNCHANGED <<peers, consumed, target, upstream, relay>>

\* The stream ends or fails within the handshake; only the address reader answers.
ReadFails ==
  /\ stage \in Reading
  /\ client = "reset" \/ (client = "fin" /\ consumed = arrived)
  /\ IF stage = "target" THEN Fail("address") ELSE FailSilently
  /\ UNCHANGED <<peers, consumed, target, upstream, relay>>

Handshake ==
  \/ Detect \/ ProbeFails
  \/ Greeting \/ Request \/ Target \/ TargetUnread
  \/ Fixed \/ Strings \/ ReadHead \/ ReadFails

(***************************************************************************)
(* The target.                                                             *)
(***************************************************************************)
Resolve ==
  /\ stage = "resolve"
  /\ target' \in Lookup[ask.dest]
  /\ stage' = "check"
  /\ UNCHANGED <<peers, consumed, replies, upstream, relay>>

ResolveFails ==
  /\ stage = "resolve"
  /\ ask.dest \notin Literals
  /\ stage' = "done"
  /\ UNCHANGED <<peers, consumed, replies, target, upstream, relay>>

Forbidden == Block /\ target \in Special

Forbid ==
  /\ stage = "check"
  /\ Forbidden
  /\ Fail("forbidden")
  /\ UNCHANGED <<peers, consumed, target, upstream, relay>>

Permit ==
  /\ stage = "check"
  /\ ~Forbidden
  /\ stage' = IF ask.cmd = "bind" THEN "listen" ELSE "connect"
  /\ UNCHANGED <<peers, consumed, replies, target, upstream, relay>>

\* Faulty variant: the name is resolved again for the connection.
ConnectByName ==
  /\ stage = "connect"
  /\ upstream' \in Lookup[ask.dest]
  /\ stage' = "answer"
  /\ UNCHANGED <<peers, consumed, replies, target, relay>>

Connect ==
  /\ stage = "connect"
  /\ upstream' = target
  /\ stage' = "answer"
  /\ UNCHANGED <<peers, consumed, replies, target, relay>>

ConnectFails ==
  /\ stage = "connect"
  /\ Fail("refused")
  /\ UNCHANGED <<peers, consumed, target, upstream, relay>>

\* connect_timeout, for a connection or for BIND's accept: no reply is written.
TimesOut ==
  /\ stage \in {"connect", "accept"}
  /\ stage' = "done"
  /\ UNCHANGED <<peers, consumed, replies, target, upstream, relay>>

Listen ==
  /\ stage = "listen"
  /\ Say("listening", "accept")
  /\ UNCHANGED <<peers, consumed, target, upstream, relay>>

\* bind or accept fails; so may the bind of the UDP relay socket.
ListenFails ==
  /\ stage \in {"listen", "accept", "associate"}
  /\ stage' = "done"
  /\ UNCHANGED <<peers, consumed, replies, target, upstream, relay>>

AcceptExpected ==
  /\ stage = "accept"
  /\ upstream' = target
  /\ stage' = "answer"
  /\ UNCHANGED <<peers, consumed, replies, target, relay>>

\* Faulty variant: the stranger is refused and served.
AcceptStrangerStays ==
  /\ stage = "accept"
  /\ Say("forbidden", "answer")
  /\ upstream' \in Addrs \ {target}
  /\ UNCHANGED <<peers, consumed, target, relay>>

\* Somebody else connects: the listener is given up.
AcceptStranger ==
  /\ stage = "accept"
  /\ \E peer \in Addrs : peer # target
  /\ Fail("forbidden")
  /\ UNCHANGED <<peers, consumed, target, upstream, relay>>

Dial ==
  \/ Resolve \/ ResolveFails \/ Forbid \/ Permit
  \/ Connect \/ ConnectFails \/ TimesOut
  \/ Listen \/ ListenFails \/ AcceptExpected \/ AcceptStranger

(***************************************************************************)
(* The tunnel, and the control connection of UDP ASSOCIATE.                *)
(***************************************************************************)
Pending == [i \in 1 .. consumed - HeadLen |-> HeadLen + i]

\* The success reply precedes everything upstream sends.  When it cannot be written the
\* handler returns and upstream is closed.
Answer ==
  /\ stage = "answer"
  /\ Say("ok", IF Pending = <<>> THEN "tunnel" ELSE "forward")
  /\ IF stage' = "done" THEN eof' = [eof EXCEPT !.up = TRUE] ELSE UNCHANGED eof
  /\ UNCHANGED <<peers, consumed, target, upstream, upGot, downGot>>

\* Faulty variant: what came with the head is dropped.
ForwardNothing ==
  /\ stage = "forward"
  /\ stage' = "tunnel"
  /\ UNCHANGED <<peers, consumed, replies, target, upstream, relay>>

\* The payload that came with an HTTP head goes first.
Forward ==
  /\ stage = "forward"
  /\ upGot' = Pending
  /\ stage' = "tunnel"
  /\ UNCHANGED <<peers, consumed, replies, target, upstream, downGot, eof>>

ForwardFails ==
  /\ stage = "forward"
  /\ upEnd = "reset"
  /\ stage' = "done"
  /\ eof' = [eof EXCEPT !.down = TRUE]
  /\ UNCHANGED <<peers, consumed, replies, target, upstream, upGot, downGot>>

CopyUp ==
  /\ stage = "tunnel"
  /\ consumed < arrived
  /\ consumed' = consumed + 1
  /\ upGot' = Append(upGot, consumed')
  /\ UNCHANGED <<peers, stage, replies, target, upstream, downGot, eof>>

CopyDown ==
  /\ stage = "tunnel"
  /\ downGot < upSent
  /\ downGot' = downGot + 1
  /\ UNCHANGED <<peers, consumed, stage, replies, target, upstream, upGot, eof>>

\* Faulty variant: the end of one side is the end of the tunnel.
EndUpEndsBoth ==
  /\ stage = "tunnel"
  /\ client = "fin" /\ consumed = arrived
  /\ eof' = [up |-> TRUE, down |-> TRUE]
  /\ stage' = "done"
  /\ UNCHANGED <<peers, consumed, replies, target, upstream, upGot, downGot>>

\* copy_bidirectional shuts the other side down and goes on with the other direction.
EndUp ==
  /\ stage = "tunnel"
  /\ client = "fin" /\ consumed = arrived /\ ~eof.up
  /\ eof' = [eof EXCEPT !.up = TRUE]
  /\ UNCHANGED <<peers, consumed, stage, replies, target, upstream, upGot, downGot>>

EndDown ==
  /\ stage = "tunnel"
  /\ upEnd = "fin" /\ downGot = upSent /\ ~eof.down
  /\ eof' = [eof EXCEPT !.down = TRUE]
  /\ UNCHANGED <<peers, consumed, stage, replies, target, upstream, upGot, downGot>>

TunnelCloses ==
  /\ stage = "tunnel"
  /\ eof.up /\ eof.down
  /\ stage' = "done"
  /\ UNCHANGED <<peers, consumed, replies, target, upstream, relay>>

\* The first error ends both directions and closes both sockets.
TunnelFails ==
  /\ stage = "tunnel"
  /\ client = "reset" \/ upEnd = "reset"
  /\ eof' = [up |-> eof.up \/ client = "reset", down |-> eof.down \/ upEnd = "reset"]
  /\ stage' = "done"
  /\ UNCHANGED <<peers, consumed, replies, target, upstream, upGot, downGot>>

Tunnel ==
  \/ Answer \/ Forward \/ ForwardFails
  \/ CopyUp \/ CopyDown \/ EndUp \/ EndDown
  \/ TunnelCloses \/ TunnelFails

Associate ==
  /\ stage = "associate"
  /\ Say("ok", "udp")
  /\ UNCHANGED <<peers, consumed, target, upstream, relay>>

ControlByte ==
  /\ ReadPart("udp")
  /\ UNCHANGED <<stage, replies>>

ControlEnds ==
  /\ stage = "udp"
  /\ client = "reset" \/ (client = "fin" /\ consumed = arrived)
  /\ stage' = "done"
  /\ UNCHANGED <<peers, consumed, replies, target, upstream, relay>>

Control == Associate \/ ControlByte \/ ControlEnds

(***************************************************************************)
(* The client and upstream.                                                *)
(***************************************************************************)
ClientSends ==
  /\ client = "open"
  /\ arrived < HeadLen + MaxPayload
  /\ arrived' = arrived + 1
  /\ UNCHANGED <<ask, client, upEnd, upSent, consumed, stage, replies, target, upstream, relay>>

ClientEnds ==
  /\ client # "reset"
  /\ client' \in {"fin", "reset"} \ {client}
  /\ UNCHANGED <<ask, arrived, upEnd, upSent, consumed, stage, replies, target, upstream, relay>>

UpstreamSends ==
  /\ upstream # NoAddr
  /\ upEnd = "open" /\ upSent < MaxPayload
  /\ upSent' = upSent + 1
  /\ UNCHANGED <<ask, client, arrived, upEnd, consumed, stage, replies, target, upstream, relay>>

UpstreamEnds ==
  /\ upstream # NoAddr
  /\ upEnd # "reset"
  /\ upEnd' \in {"fin", "reset"} \ {upEnd}
  /\ UNCHANGED <<ask, client, arrived, upSent, consumed, stage, replies, target, upstream, relay>>

-----------------------------------------------------------------------------
Session == Handshake \/ Dial \/ Tunnel \/ Control

Next ==
  \/ Session
  \/ ClientSends \/ ClientEnds
  \/ UpstreamSends \/ UpstreamEnds

Spec == Init /\ [][Next]_vars

\* A handler that can go on is polled, lookups and timeouts come to an end, and the peers
\* read what the tunnel writes to them.
Fairness == WF_vars(Session)

FairSpec == Spec /\ Fairness

-----------------------------------------------------------------------------
Replies == {"nomethod", "method", "general", "address", "command", "forbidden",
            "refused", "listening", "ok"}

TypeOK ==
  /\ ask \in Asks
  /\ client \in {"open", "fin", "reset"} /\ upEnd \in {"open", "fin", "reset"}
  /\ arrived \in Nat /\ consumed \in 0 .. arrived
  /\ stage \in Stages
  /\ replies \in Seq(Replies)
  /\ target \in Addrs \cup {NoAddr} /\ upstream \in Addrs \cup {NoAddr}
  /\ upSent \in Nat /\ downGot \in 0 .. upSent
  /\ upGot \in Seq(Nat)
  /\ eof \in [up : BOOLEAN, down : BOOLEAN]

Opening == IF ask.proto = "socks5" THEN <<"method">> ELSE <<>>

Failures ==
  {"forbidden", "refused"}
    \cup (IF ask.proto = "socks5" THEN {"general", "address"} ELSE {})
    \cup (IF ask.proto = "http" THEN {} ELSE {"command"})

\* The answers a protocol has, to the end.
Dialogues ==
  {<<"nomethod">>} \cup
  {Opening \o d : d \in {<<>>, <<"ok">>, <<"listening">>, <<"listening", "ok">>,
                         <<"listening", "forbidden">>} \cup {<<f>> : f \in Failures}}

Said == IF replies = <<>> THEN "" ELSE replies[Len(replies)]

\* A request is answered once: no reply follows a refusal or a success, a refusal ends the
\* session, "ok" means that upstream is there, and no byte passes before it
\* (server.rs:287-332, 346-386, 399-429, 690-729, 782-810).
RepliesFit ==
  /\ replies \in {<<>>} \cup Dialogues
  /\ Said \in Failures \cup {"nomethod"} => stage = "done" /\ upstream = NoAddr
  /\ Said = "ok" /\ ask.cmd # "udp" => upstream # NoAddr
  /\ upGot # <<>> \/ downGot > 0 => Said = "ok" \/ client = "reset"

\* The address the proxy talks to is the one that was checked, whatever other answers the
\* name may have; BIND serves nobody else (server.rs:344-371, 397-410, 710-716, 780-788).
OnlyPermitted ==
  upstream # NoAddr => upstream = target /\ ~(Block /\ upstream \in Special)

\* Upstream gets the client's payload from its first byte, in order, without the handshake,
\* also when part of it came with the HTTP head (server.rs:806-810, 826-832).
PayloadInOrder ==
  \A i \in DOMAIN upGot : upGot[i] = HeadLen + i

PayloadSent == IF arrived > HeadLen THEN arrived - HeadLen ELSE 0

Up == INSTANCE BytePipe WITH
  sent <- PayloadSent, ending <- client, got <- Len(upGot), eof <- eof.up

Down == INSTANCE BytePipe WITH
  sent <- upSent, ending <- upEnd, got <- downGot, eof <- eof.down

\* Both directions of a session implement the byte pipe that CONNECT over HTTP/3 promises:
\* neither is cut off by the end of the other (server.rs:806-810, 881-891).
PipesImplemented == Up!Spec /\ Down!Spec

Abandoned == client # "open" /\ (upstream = NoAddr \/ upEnd # "open")

\* A session whose client has closed does not stay for ever, in whichever read, lookup,
\* connection attempt or accept it is, unless upstream keeps it (server.rs:227-430).
AbandonedEnds == Abandoned ~> (stage = "done" \/ ~Abandoned)
=============================================================================
