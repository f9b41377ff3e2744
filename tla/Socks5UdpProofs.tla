-------------------------- MODULE Socks5UdpProofs --------------------------
(***************************************************************************)
(* Proofs about Socks5Udp for any addresses, hosts, lookups and backlog.   *)
(* The invariant says what the cache holds and that everything that was    *)
(* forwarded went to what the cache holds now: entries are never replaced. *)
(***************************************************************************)
EXTENDS Socks5Udp, TLAPS

\* client_udp_addr is where the last whole request came from, or was announced.
ClientIsAsker == client = asker

\* Only targets that passed the check are cached.
CachePermitted == BlockSpecial => \A h \in Hosts : cache[h] \notin Special

\* A payload for a host went to the address that is cached for the host.
ForwardedCached == \A f \in forwarded : f.to = cache[f.host]

IInv ==
  /\ TypeOK /\ ClientIsAsker /\ CachePermitted /\ ForwardedCached
  /\ RepliesFollowRequests

-----------------------------------------------------------------------------
\* What a datagram of each form carries.
LEMMA Fields ==
  ASSUME NEW d \in Datagrams
  PROVE  /\ d.src \in Sources
         /\ d.form \in {"request", "fragment", "other"}
         /\ d.form = "request" => d.host \in Hosts
BY DEF Datagrams

LEMMA InitInv == Init => IInv
BY AddressAssumption
DEF Init, Sources, IInv, TypeOK, ClientIsAsker, CachePermitted, ForwardedCached,
    RepliesFollowRequests

\* The steps of the client, the network and the control connection.
LEMMA OutsideInv ==
  ASSUME IInv, Send \/ Lose \/ ControlEvent \/ ReadControl
  PROVE  IInv'
<1>1. TypeOK'
  BY DEF IInv, TypeOK, Send, Lose, ControlEvent, ReadControl, sent
<1>2. UNCHANGED <<client, cache, sent>>
  BY DEF Send, Lose, ControlEvent, ReadControl, sent
<1> QED
  BY <1>1, <1>2 DEF IInv, ClientIsAsker, CachePermitted, ForwardedCached, RepliesFollowRequests, sent

\* A datagram is taken from the socket: nothing is forwarded but to the cache.
LEMMA ReceiveInv ==
  ASSUME IInv, Receive
  PROVE  IInv'
<1> USE DEF IInv
<1>1. PICK d \in socket : DropFragment(d) \/ ForwardCached(d) \/ StartLookup(d) \/ Return(d)
  BY DEF Receive
<1>2. d \in Datagrams /\ socket' \subseteq Datagrams
  BY <1>1 DEF TypeOK, DropFragment, ForwardCached, StartLookup, Return, Take
<1>3. CASE DropFragment(d)
  BY <1>2, <1>3 DEF DropFragment, TypeOK, ClientIsAsker, CachePermitted,
     ForwardedCached, RepliesFollowRequests, sent
<1>4. CASE ForwardCached(d)
  <2> DEFINE f == [host |-> d.host, to |-> cache[d.host]]
  <2>1. d.src \in Sources /\ d.host \in Hosts
    BY <1>2, <1>4, Fields DEF ForwardCached
  <2>2. f \in [host : Hosts, to : Targets] /\ f.to = cache[f.host]
    BY <1>4, <2>1 DEF ForwardCached, TypeOK
  <2>3. /\ forwarded' \in {forwarded, forwarded \cup {f}}
        /\ client' = d.src /\ asker' = d.src
        /\ UNCHANGED <<control, relay, asked, cache, reply>>
    BY <1>4 DEF ForwardCached, Forward
  <2>4. TypeOK' /\ ForwardedCached'
    BY <1>2, <2>1, <2>2, <2>3 DEF TypeOK, ForwardedCached
  <2> QED
    BY <2>1, <2>3, <2>4 DEF ClientIsAsker, CachePermitted, RepliesFollowRequests
<1>5. CASE StartLookup(d)
  <2>1. d.src \in Sources /\ d.host \in Hosts
    BY <1>2, <1>5, Fields DEF StartLookup
  <2> QED
    BY <1>2, <1>5, <2>1 DEF StartLookup, TypeOK, ClientIsAsker, CachePermitted,
       ForwardedCached, RepliesFollowRequests, sent
<1>6. CASE Return(d)
  <2>1. /\ reply' \in {reply, [to |-> client, asker |-> asker]}
        /\ UNCHANGED <<control, relay, asked, client, cache, forwarded, asker>>
    BY <1>6 DEF Return
  <2> QED
    BY <1>2, <2>1 DEF TypeOK, ClientIsAsker, CachePermitted,
       ForwardedCached, RepliesFollowRequests
<1> QED
  BY <1>1, <1>3, <1>4, <1>5, <1>6

\* A lookup that answers fills an empty entry of the cache, after the check.
\* The entry of the awaited host is still empty then: only this task fills it.
AskedUncached == relay = "resolving" => cache[asked] = NoAddr

\* Nothing has been forwarded to a host that is not cached.
LEMMA NothingForwarded ==
  ASSUME IInv, NEW h \in Hosts, cache[h] = NoAddr
  PROVE  \A f \in forwarded : f.host # h
BY AddressAssumption DEF IInv, ForwardedCached, TypeOK

LEMMA AnswerInv ==
  ASSUME IInv, AskedUncached, LookupAnswers
  PROVE  IInv'
<1> USE DEF IInv
<1>1. asked \in Hosts /\ cache[asked] = NoAddr
  BY DEF LookupAnswers, AskedUncached, TypeOK
<1>2. PICK t \in Lookup[asked] : Insert(t)
  BY DEF LookupAnswers
<1>3. t \in Targets
  BY <1>1, <1>2, AddressAssumption
<1>4. UNCHANGED <<control, socket, asked, client, asker, reply>> /\ relay' = "select"
  BY DEF LookupAnswers, env
<1>5. CASE Forbidden(t)
  BY <1>2, <1>4, <1>5 DEF Insert, TypeOK, ClientIsAsker, CachePermitted,
     ForwardedCached, RepliesFollowRequests
<1>6. CASE ~Forbidden(t)
  <2> DEFINE f == [host |-> asked, to |-> t]
  <2>1. /\ cache' = [cache EXCEPT ![asked] = t]
        /\ forwarded' \in {forwarded, forwarded \cup {f}}
    BY <1>2, <1>6 DEF Insert, Forward
  <2>2. TypeOK'
    BY <1>1, <1>3, <1>4, <2>1 DEF TypeOK
  <2>3. CachePermitted'
    BY <1>1, <1>6, <2>1 DEF CachePermitted, Forbidden, TypeOK
  <2>4. ForwardedCached'
    <3>1. \A g \in forwarded : g.host # asked /\ g.host \in Hosts
      BY <1>1, NothingForwarded DEF TypeOK
    <3>2. \A g \in forwarded : g.to = cache'[g.host]
      BY <2>1, <3>1 DEF ForwardedCached, TypeOK
    <3>3. f.to = cache'[f.host]
      BY <1>1, <2>1 DEF TypeOK
    <3> QED
      BY <2>1, <3>2, <3>3 DEF ForwardedCached
  <2> QED
    BY <1>4, <2>2, <2>3, <2>4 DEF ClientIsAsker, RepliesFollowRequests
<1> QED
  BY <1>5, <1>6

\* The cache does not change while a lookup is awaited: select! polls no other arm.
LEMMA AskedStep ==
  ASSUME IInv, AskedUncached, [Next]_vars
  PROVE  AskedUncached'
<1>1. CASE Receive
  <2>1. PICK d \in socket : DropFragment(d) \/ ForwardCached(d) \/ StartLookup(d) \/ Return(d)
    BY <1>1 DEF Receive
  <2> QED
    BY <2>1 DEF AskedUncached, DropFragment, ForwardCached, StartLookup, Return, Take, sent
<1>2. CASE Next /\ ~Receive
  BY <1>2 DEF Next, AskedUncached, Send, Lose, ControlEvent, ReadControl,
     LookupFails, LookupAnswers, sent, env
<1>3. CASE UNCHANGED vars
  BY <1>3 DEF vars, AskedUncached
<1> QED
  BY <1>1, <1>2, <1>3

LEMMA StepInv ==
  ASSUME IInv, AskedUncached, [Next]_vars
  PROVE  IInv'
<1>1. CASE LookupFails
  BY <1>1 DEF LookupFails, IInv, TypeOK, ClientIsAsker, CachePermitted, ForwardedCached,
     RepliesFollowRequests, sent, env
<1>2. CASE UNCHANGED vars
  BY <1>2 DEF vars, env, sent, IInv, TypeOK, ClientIsAsker, CachePermitted,
     ForwardedCached, RepliesFollowRequests
<1> QED
  BY <1>1, <1>2, OutsideInv, ReceiveInv, AnswerInv DEF Next

\* The invariant of the relay, for any client, targets and network.
THEOREM RelayInvariance == Spec => [](IInv /\ AskedUncached)
<1>1. Init => IInv /\ AskedUncached
  BY InitInv DEF Init, AskedUncached
<1>2. (IInv /\ AskedUncached) /\ [Next]_vars => (IInv /\ AskedUncached)'
  BY StepInv, AskedStep
<1> QED
  BY <1>1, <1>2, PTL DEF Spec

\* Types; the address responses go to is known once anyone has asked.
THEOREM RelayTypes == Spec => []TypeOK
<1>1. IInv => TypeOK
  BY DEF IInv
<1> QED
  BY <1>1, RelayInvariance, PTL

\* No payload reaches a special-purpose address: what is forwarded is cached, and
\* what is cached was checked (server.rs:522-526).
THEOREM TargetsPermitted == Spec => []OnlyPermittedTargets
<1>1. IInv => OnlyPermittedTargets
  BY DEF IInv, CachePermitted, ForwardedCached, OnlyPermittedTargets, TypeOK
<1> QED
  BY <1>1, RelayInvariance, PTL

\* One destination keeps one address for the life of the association.
THEOREM TargetsPinned == Spec => []PinnedTargets
<1>1. IInv => PinnedTargets
  BY DEF IInv, ForwardedCached, PinnedTargets
<1> QED
  BY <1>1, RelayInvariance, PTL

\* Responses go where the last whole request came from, whoever sent it, in every
\* order of requests, fragments, lookups and responses (server.rs:491-543).
THEOREM ResponsesFollow == Spec => []RepliesFollowRequests
<1>1. IInv => RepliesFollowRequests
  BY DEF IInv
<1> QED
  BY <1>1, RelayInvariance, PTL
=============================================================================
