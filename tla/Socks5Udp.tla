----------------------------- MODULE Socks5Udp -----------------------------
(***************************************************************************)
(* The relay of one SOCKS5 UDP ASSOCIATE, the loop of                      *)
(* handle_socks5_udp_associate in src/src/server.rs, after the reply that  *)
(* ProxySession!Associate writes.                                          *)
(*                                                                         *)
(* One socket serves the client and every target.  What tells them apart   *)
(* is the content of a datagram alone: "request" parses as a SOCKS5 UDP    *)
(* request, "fragment" does with FRAG # 0, "other" does not parse.  Where  *)
(* it comes from is not looked at, so a target's or a stranger's datagram  *)
(* may have any of the three forms.  The socket is a set of datagrams,     *)
(* which the network may lose and take in any order.                       *)
(* Payloads, logging and a recv_from that fails (a `continue`) are left    *)
(* out.                                                                    *)
(***************************************************************************)
EXTENDS Naturals, FiniteSets

CONSTANTS
  Clients,       \* addresses the client sends from; it may migrate
  Targets,       \* addresses of targets, and of strangers
  Special,       \* targets that is_rfc6890_special
  Hosts,         \* (host, port) pairs a request may name
  Lookup,        \* Lookup[h]: the targets a lookup of h may answer, {} if none
  Announced,     \* the address named in the ASSOCIATE request, or NoAddr
  NoAddr,        \* no address
  BlockSpecial,  \* config.block_special_addrs()
  Backlog        \* bound of the model: datagrams waiting in the socket

ASSUME AddressAssumption ==
  /\ Special \subseteq Targets
  /\ Lookup \in [Hosts -> SUBSET Targets]
  /\ Announced \in Clients \cup {NoAddr}
  /\ NoAddr \notin Clients \cup Targets
  /\ Clients \cap Targets = {}
  /\ BlockSpecial \in BOOLEAN
  /\ Backlog \in Nat

VARIABLES
  control,    \* the TCP control connection: "open", "bytes" waiting, "closed"
  socket,     \* datagrams that wait on the UDP socket
  relay,      \* the task: "select", "resolving" or "ended"
  asked,      \* the host whose lookup the task awaits
  client,     \* client_udp_addr
  cache,      \* target_cache: the target of a host, or NoAddr
  forwarded,  \* history: [host, to] of every payload sent to a target
  asker,      \* history: where the last whole request came from
  reply       \* history: where the last response went, and asker then

env == <<control, socket>>
sent == <<forwarded, asker, reply>>
vars == <<env, relay, asked, client, cache, sent>>

Sources == Clients \cup Targets

Datagrams ==
  [src : Sources, form : {"request"}, host : Hosts]
    \cup [src : Sources, form : {"fragment", "other"}]

Init ==
  /\ control = "open" /\ socket = {}
  /\ relay = "select" /\ asked \in Hosts
  /\ client = Announced
  /\ cache = [h \in Hosts |-> NoAddr]
  /\ forwarded = {}
  /\ asker = Announced /\ reply = [to |-> NoAddr, asker |-> NoAddr]

(***************************************************************************)
(* The client, the targets and the network.                                *)
(***************************************************************************)
Send ==
  /\ Cardinality(socket) < Backlog
  /\ \E d \in Datagrams \ socket : socket' = socket \cup {d}
  /\ UNCHANGED <<control, relay, asked, client, cache, sent>>

Lose ==
  /\ \E d \in socket : socket' = socket \ {d}
  /\ UNCHANGED <<control, relay, asked, client, cache, sent>>

\* The client writes to the control connection, closes it or is cut off.
ControlEvent ==
  /\ control # "closed"
  /\ control' \in {"bytes", "closed"}
  /\ UNCHANGED <<socket, relay, asked, client, cache, sent>>

(***************************************************************************)
(* The arm of select! that reads the control connection.                   *)
(***************************************************************************)
\* Faulty variant: a read of no bytes is taken for unexpected data.
ReadControlOn ==
  /\ relay = "select" /\ control # "open"
  /\ control' = IF control = "bytes" THEN "open" ELSE control
  /\ UNCHANGED <<socket, relay, asked, client, cache, sent>>

\* Bytes are read and ignored; end of file or an error ends the relay.
ReadControl ==
  /\ relay = "select" /\ control # "open"
  /\ control' = IF control = "bytes" THEN "open" ELSE control
  /\ relay' = IF control = "bytes" THEN "select" ELSE "ended"
  /\ UNCHANGED <<socket, asked, client, cache, sent>>

(***************************************************************************)
(* The arm that receives a datagram.                                       *)
(***************************************************************************)
Take(d) == relay = "select" /\ d \in socket /\ socket' = socket \ {d}

\* send_to: the payload leaves, or the error is logged and the datagram dropped.
Forward(h, t) == forwarded' \in {forwarded, forwarded \cup {[host |-> h, to |-> t]}}

DropFragment(d) ==
  /\ Take(d) /\ d.form = "fragment"
  /\ UNCHANGED <<control, relay, asked, client, cache, sent>>

\* Faulty variant: the first address is kept, as "the original code" did (server.rs:459).
ForwardCachedLocked(d) ==
  /\ Take(d) /\ d.form = "request" /\ cache[d.host] # NoAddr
  /\ client' = (IF client = NoAddr THEN d.src ELSE client) /\ asker' = d.src
  /\ Forward(d.host, cache[d.host])
  /\ UNCHANGED <<control, relay, asked, cache, reply>>

\* The sender of a whole request is the client.  A request whose target is cached
\* goes out without lookup and without check.
ForwardCached(d) ==
  /\ Take(d) /\ d.form = "request" /\ cache[d.host] # NoAddr
  /\ client' = d.src /\ asker' = d.src
  /\ Forward(d.host, cache[d.host])
  /\ UNCHANGED <<control, relay, asked, cache, reply>>

\* Any other request is resolved first; the select! polls nothing meanwhile.
StartLookup(d) ==
  /\ Take(d) /\ d.form = "request" /\ cache[d.host] = NoAddr
  /\ client' = d.src /\ asker' = d.src
  /\ relay' = "resolving" /\ asked' = d.host
  /\ UNCHANGED <<control, cache, forwarded, reply>>

\* Whatever does not parse is a response, for the client if there is one.
Return(d) ==
  /\ Take(d) /\ d.form = "other"
  /\ reply' \in IF client = NoAddr THEN {reply} ELSE {reply, [to |-> client, asker |-> asker]}
  /\ UNCHANGED <<control, relay, asked, client, cache, forwarded, asker>>

Receive == \E d \in socket : \/ DropFragment(d) \/ ForwardCached(d)
                             \/ StartLookup(d) \/ Return(d)

(***************************************************************************)
(* The lookup, awaited inside that arm.                                    *)
(***************************************************************************)
Forbidden(t) == BlockSpecial /\ t \in Special

LookupFails ==
  /\ relay = "resolving" /\ relay' = "select"
  /\ UNCHANGED <<env, asked, client, cache, sent>>

\* Faulty variants: the target is cached before it is checked; it is not cached.
CheckedInsert(t) ==
  IF Forbidden(t) THEN cache' = [cache EXCEPT ![asked] = t] /\ UNCHANGED forwarded
                  ELSE cache' = [cache EXCEPT ![asked] = t] /\ Forward(asked, t)
InsertNothing(t) == UNCHANGED cache /\ IF Forbidden(t) THEN UNCHANGED forwarded
                                                       ELSE Forward(asked, t)

\* A forbidden target is dropped and forgotten; any other is cached and used.
Insert(t) ==
  IF Forbidden(t) THEN UNCHANGED <<cache, forwarded>>
                  ELSE cache' = [cache EXCEPT ![asked] = t] /\ Forward(asked, t)

LookupAnswers ==
  /\ relay = "resolving" /\ relay' = "select"
  /\ \E t \in Lookup[asked] : Insert(t)
  /\ UNCHANGED <<env, asked, client, asker, reply>>

Next == \/ Send \/ Lose \/ ControlEvent
        \/ ReadControl \/ Receive \/ LookupFails \/ LookupAnswers

Spec == Init /\ [][Next]_vars

\* A lookup ends by its own timeout.  select! picks at random among the arms that
\* are ready, so one that is ready again and again is taken some time.
Fairness ==
  /\ WF_vars(LookupFails \/ LookupAnswers)
  /\ SF_vars(ReadControl)

FairSpec == Spec /\ Fairness

-----------------------------------------------------------------------------
\* Types of the variables.
TypeOK ==
  /\ control \in {"open", "bytes", "closed"} /\ socket \subseteq Datagrams
  /\ relay \in {"select", "resolving", "ended"} /\ asked \in Hosts
  /\ client \in Sources \cup {NoAddr}
  /\ cache \in [Hosts -> Targets \cup {NoAddr}]
  /\ forwarded \subseteq [host : Hosts, to : Targets]
  /\ asker \in Sources \cup {NoAddr}
  /\ reply \in [to : Sources \cup {NoAddr}, asker : Sources \cup {NoAddr}]

\* With --acl-no-rfc6890 no payload reaches a special-purpose address, although
\* the check of server.rs:522 runs on a cache miss only and every later request
\* for the host skips it.
OnlyPermittedTargets == BlockSpecial => \A f \in forwarded : f.to \notin Special

\* All payloads an association sends to one destination reach one address, however
\* often the answer of the name changes: a QUIC connection through the relay keeps
\* its server (target_cache, server.rs:464-468).
PinnedTargets == \A f, g \in forwarded : f.host = g.host => f.to = g.to

\* Responses follow a client that migrates (server.rs:456-460, docs/QUIC.md:60-63): one
\* goes to where the last whole request came from, at once, while that request still
\* waits for its lookup or has been dropped; fragments and responses redirect nothing.
\* Nothing says that this is the client: a whole request of anyone is followed.
RepliesFollowRequests == reply.to = reply.asker

\* When the control connection closes or fails the association ends, however many
\* datagrams keep coming and whatever lookup is awaited at that moment.
ControlEndStops == control = "closed" ~> relay = "ended"
=============================================================================
