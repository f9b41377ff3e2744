-------------------------- MODULE IpTunnelProofs ---------------------------
(***************************************************************************)
(* Proofs about IpTunnel: the packet sizes of a CONNECT-IP tunnel, for     *)
(* every room a path may have and every value of the overheads; the status *)
(* of every request; what the server says in capsules, for every script of *)
(* a client and all pieces it may arrive in; and the packets it delivers.  *)
(*                                                                         *)
(* The codec comes in as two facts proved here: a decoder which finds what *)
(* it needs in s finds the same in s followed by t (GetVarintExtends,      *)
(* SplitExtends), and what is encoded is decoded again (VarintRoundTrip,   *)
(* AssignRoundTrip, RoutesRoundTrip).                                      *)
(***************************************************************************)
EXTENDS IpTunnel, FiniteSetTheorems, SequenceTheorems, WellFoundedInduction, TLAPS

\* The stages at which the device exists or has existed.
Made == stage \in {"created", "assign", "advertise", "running"}

\* What room, mtu, held and plane may be.
SizeTypes ==
  /\ room \in Rooms
  /\ mtu \in [size : Nat, madeFor : Nat]
  /\ held \in Nat
  /\ shrunk \in BOOLEAN /\ tooBig \in BOOLEAN
  /\ plane \in {"off", "select", "sending", "ended"}
  /\ stage \in Stages

\* The MTU leaves room for the overheads in the datagrams it was made for; as long as
\* the path has not shrunk they fit; nothing moves before the device is made.
SizesFit ==
  /\ mtu.size > 0 => mtu.size + Overhead + Margin <= mtu.madeFor
  /\ Made /\ ~shrunk => mtu.madeFor <= room
  /\ plane \in {"select", "sending"} => stage = "running"
  /\ stage \in {"start", "valid", "allocated"} => ~shrunk /\ ~tooBig /\ mtu.size = 0
  /\ plane = "sending" => held \in {1, DeviceMtu}

TunnelInv == SizeTypes /\ SizesFit /\ NothingTooBig

\* The assumptions on the constants as the provers use them.
LEMMA SizeConstants ==
  /\ Overhead \in Nat /\ Overhead >= 1 /\ Margin \in Nat /\ Margin >= 1
  /\ QuarterId \in Nat /\ QuarterId <= Overhead /\ DefaultMtu \in Nat /\ DefaultMtu >= 1
  /\ Rooms \subseteq Nat
  BY SizeAssumption

\* The invariant of the sizes holds at the start.
LEMMA TunnelStarts == Init => TunnelInv
<1> SUFFICES ASSUME Init PROVE TunnelInv
  OBVIOUS
<1>1. shrunk \in BOOLEAN /\ tooBig \in BOOLEAN
  BY Zenon DEF Init
<1>2. mtu \in [size : Nat, madeFor : Nat] /\ mtu.size = 0
  BY DEF Init
<1>3. SizeTypes
  BY <1>1, <1>2 DEF Init, SizeTypes, Stages
<1>4. ~shrunk /\ ~tooBig
  BY Zenon DEF Init
<1>5. SizesFit
  BY <1>2, <1>4 DEF Init, SizesFit, Made
<1>6. NothingTooBig
  BY <1>2 DEF NothingTooBig
<1> QED BY <1>3, <1>5, <1>6 DEF TunnelInv

\* The MTU of a device leaves room for the overheads.
LEMMA MtuFits == ASSUME SizeTypes
  PROVE  /\ TunMtu \in Nat
         /\ TunMtu > 0 => TunMtu + Overhead + Margin <= room
  BY SizeConstants DEF SizeTypes, TunMtu

\* The handler: it creates the device, and starts the data plane once all is sent.
LEMMA SetupFits == TunnelInv /\ Setup => TunnelInv'
<1> SUFFICES ASSUME TunnelInv, Setup PROVE TunnelInv'
  OBVIOUS
<1> USE SizeConstants DEF TunnelInv, SizeTypes, SizesFit, NothingTooBig, Made, Stages, DeviceMtu
<1>1. CASE Reject
  BY <1>1 DEF Reject, Reply, packets, sizes
<1>2. CASE Admit
  BY <1>2 DEF Admit, packets, sizes
<1>3. CASE Allocate
  BY <1>3 DEF Allocate, packets, sizes
<1>4. CASE PoolExhausted
  BY <1>4 DEF PoolExhausted, Reply, packets, sizes
<1>5. CASE Create
  <2>1. TunMtu \in Nat /\ (TunMtu > 0 => TunMtu + Overhead + Margin <= room)
    BY MtuFits
  <2> QED BY <1>5, <2>1 DEF Create, packets
<1>6. CASE CreateFails
  BY <1>6 DEF CreateFails, Reply, packets, sizes
<1>7. CASE Respond
  BY <1>7 DEF Respond, packets, sizes
<1>8. CASE Assign
  BY <1>8 DEF Assign, Signal, packets, sizes
<1>9. CASE Advertise
  BY <1>9 DEF Advertise, Signal, sizes
<1> QED BY <1>1, <1>2, <1>3, <1>4, <1>5, <1>6, <1>7, <1>8, <1>9 DEF Setup

\* The data plane: what it reads and sends fits unless the path has shrunk.
LEMMA PlaneFits == TunnelInv /\ Plane => TunnelInv'
<1> SUFFICES ASSUME TunnelInv, Plane PROVE TunnelInv'
  OBVIOUS
<1> USE SizeConstants DEF TunnelInv, SizeTypes, SizesFit, NothingTooBig, Made, Stages, DeviceMtu
<1>1. CASE ReadPacket
  <2>1. PICK n \in {1, DeviceMtu} :
          IF 1 + n + Overhead > room
          THEN tooBig' = TRUE /\ UNCHANGED <<plane, held>>
          ELSE plane' = "sending" /\ held' = n /\ UNCHANGED tooBig
    BY <1>1 DEF ReadPacket
  <2>2. plane = "select" /\ UNCHANGED <<stage, room, mtu, shrunk>>
    BY <1>1 DEF ReadPacket, handler, sizes
  <2>3. CASE 1 + n + Overhead > room
    <3>1. tooBig' \in BOOLEAN /\ UNCHANGED <<plane, held>>
      BY <2>1, <2>3
    <3>2. ~(mtu.size > 0 /\ ~shrunk)
      BY <2>2, <2>3
    <3> QED BY <2>2, <3>1, <3>2
  <2>4. CASE ~(1 + n + Overhead > room)
    <3>1. n \in Nat
      OBVIOUS
    <3> QED BY <2>1, <2>2, <2>4, <3>1
  <2> QED BY <2>3, <2>4
<1>2. CASE SendPacket
  BY <1>2 DEF SendPacket, handler, sizes
<1>3. CASE ReadDeviceFails
  BY <1>3 DEF ReadDeviceFails, handler, sizes
<1>4. CASE WritePacket
  BY <1>4 DEF WritePacket, handler, sizes
<1>5. CASE ChannelCloses
  BY <1>5 DEF ChannelCloses, handler, sizes
<1>6. CASE TearDown
  BY <1>6 DEF TearDown, handler, sizes
<1> QED BY <1>1, <1>2, <1>3, <1>4, <1>5, <1>6 DEF Plane

\* The path: a room smaller than the device was made for is recorded.
LEMMA ClientFits == TunnelInv /\ Client => TunnelInv'
<1> SUFFICES ASSUME TunnelInv, Client PROVE TunnelInv'
  OBVIOUS
<1> USE SizeConstants DEF TunnelInv, SizeTypes, SizesFit, NothingTooBig, Made, Stages, DeviceMtu
<1>1. CASE ClientEnds
  BY <1>1 DEF ClientEnds, handler, packets, sizes
<1>2. CASE ClientStops
  BY <1>2 DEF ClientStops, handler, packets, sizes
<1>3. CASE LoseConnection
  BY <1>3 DEF LoseConnection, handler, packets, sizes
<1>4. CASE PathChanges
  <2>1. room' \in Rooms /\ UNCHANGED <<handler, packets, mtu>>
    BY <1>4 DEF PathChanges
  <2>2. shrunk' \in BOOLEAN
    BY <1>4, Zenon DEF PathChanges
  <2>3. ~shrunk' => ~shrunk /\ (stage \in {"start", "valid", "allocated"} \/ ~(room' < mtu.madeFor))
    BY <1>4, Zenon DEF PathChanges
  <2>4. stage \in {"start", "valid", "allocated"} /\ ~shrunk => ~shrunk'
    BY <1>4, Zenon DEF PathChanges
  <2> QED BY <2>1, <2>2, <2>3, <2>4 DEF handler, packets
<1> QED BY <1>1, <1>2, <1>3, <1>4 DEF Client

\* The capsule reader moves no packet.
LEMMA ReaderFits == TunnelInv /\ Reader => TunnelInv'
<1> SUFFICES ASSUME TunnelInv, Reader PROVE TunnelInv'
  OBVIOUS
<1>1. UNCHANGED <<handler, packets, sizes>>
  BY DEF Reader, Recv, RecvEnds, SplitNothing, IgnoreCapsule, AnswerRequest, AnswerSent,
         AnswerFails, AbortRequest, CloseStream
<1> QED BY <1>1 DEF TunnelInv, SizeTypes, SizesFit, NothingTooBig, Made, DeviceMtu,
                    handler, packets, sizes

\* It holds in every state.
LEMMA TunnelInvariance == Spec => []TunnelInv
<1>1. TunnelInv /\ [Next]_vars => TunnelInv'
  <2> SUFFICES ASSUME TunnelInv, [Next]_vars PROVE TunnelInv'
    OBVIOUS
  <2>1. CASE UNCHANGED vars
    BY <2>1 DEF vars, TunnelInv, SizeTypes, SizesFit, NothingTooBig, Made, DeviceMtu,
                handler, packets, sizes
  <2> QED BY <2>1, SetupFits, PlaneFits, ClientFits, ReaderFits DEF Next
<1> QED BY <1>1, TunnelStarts, PTL DEF Spec

\* For every path and every overhead: no packet the kernel routes into the tunnel is
\* dropped, or ends it, for its size, unless the path shrinks (masque.rs:661-664, 821-831).
THEOREM PacketsFit == Spec => []NothingTooBig
<1>1. TunnelInv => NothingTooBig
  BY DEF TunnelInv
<1> QED BY <1>1, TunnelInvariance, PTL

(***************************************************************************)
(* Dispatch and the status of a request.                                   *)
(***************************************************************************)
\* A list of checks yields 200 when all hold, else the status of the first that fails.
LEMMA VerdictIs ==
  ASSUME NEW checks, NEW n \in {4, 5}, DOMAIN checks = 1 .. n,
         \A i \in 1 .. n : checks[i][1] \in BOOLEAN
  PROVE  \/ Verdict(checks) = 200 /\ \A i \in 1 .. n : checks[i][1]
         \/ \E i \in 1 .. n : /\ Verdict(checks) = checks[i][2] /\ ~checks[i][1]
                              /\ \A j \in 1 .. n : j < i => checks[j][1]
<1> DEFINE failed == {i \in DOMAIN checks : ~checks[i][1]}
           first == CHOOSE i \in failed : \A j \in failed : i <= j
<1>1. CASE failed = {}
  BY <1>1 DEF Verdict
<1>2. CASE failed # {}
  <2>1. failed \in SUBSET (1 .. n) /\ n \in 4 .. 5
    OBVIOUS
  <2>2. \E i \in failed : \A j \in failed : i <= j
    <3> HIDE DEF failed
    <3>1. n = 4 \/ n = 5
      OBVIOUS
    <3>2. \A i \in failed : i \in 1 .. 5
      BY <2>1
    <3>3. \/ 1 \in failed \/ 2 \in failed \/ 3 \in failed \/ 4 \in failed \/ 5 \in failed
      BY <1>2, <3>2
    <3>4. QED
      BY <3>2, <3>3
  <2>3. first \in failed /\ \A j \in failed : first <= j
    <3> HIDE DEF failed
    <3>1. QED
      BY <2>2
  <2>4. Verdict(checks) = checks[first][2]
    BY <1>2 DEF Verdict
  <2>5. first \in 1 .. n /\ ~checks[first][1]
    BY <2>3
  <2>6. \A j \in 1 .. n : j < first => checks[j][1]
    <3> SUFFICES ASSUME NEW j \in 1 .. n, j < first, ~checks[j][1] PROVE FALSE
      OBVIOUS
    <3>1. j \in failed
      OBVIOUS
    <3>2. first <= j
      BY <2>3, <3>1
    <3>3. QED
      BY <2>1, <2>5, <3>2
  <2>7. QED
    BY <2>4, <2>5, <2>6
<1>3. QED
  BY <1>1, <1>2

\* The same for the four checks of a validator, one by one.
LEMMA VerdictOfFour ==
  ASSUME NEW a \in BOOLEAN, NEW b \in BOOLEAN, NEW c \in BOOLEAN, NEW d \in BOOLEAN,
         NEW p, NEW q, NEW r, NEW s,
         NEW checks, checks = << <<a, p>>, <<b, q>>, <<c, r>>, <<d, s>> >>
  PROVE  \/ Verdict(checks) = 200 /\ a /\ b /\ c /\ d
         \/ Verdict(checks) = p /\ ~a
         \/ Verdict(checks) = q /\ a /\ ~b
         \/ Verdict(checks) = r /\ a /\ b /\ ~c
         \/ Verdict(checks) = s /\ a /\ b /\ c /\ ~d
<1>1. DOMAIN checks = 1 .. 4
  OBVIOUS
<1>2. /\ checks[1][1] = a /\ checks[2][1] = b /\ checks[3][1] = c /\ checks[4][1] = d
      /\ checks[1][2] = p /\ checks[2][2] = q /\ checks[3][2] = r /\ checks[4][2] = s
  OBVIOUS
<1>3. \A i \in 1 .. 4 : i = 1 \/ i = 2 \/ i = 3 \/ i = 4
  OBVIOUS
<1>4. \A i \in 1 .. 4 : checks[i][1] \in BOOLEAN
  BY <1>2, <1>3
<1>5. \/ Verdict(checks) = 200 /\ \A i \in 1 .. 4 : checks[i][1]
      \/ \E i \in 1 .. 4 : /\ Verdict(checks) = checks[i][2] /\ ~checks[i][1]
                           /\ \A j \in 1 .. 4 : j < i => checks[j][1]
  BY <1>1, <1>4, VerdictIs
<1>6. CASE Verdict(checks) = 200 /\ \A i \in 1 .. 4 : checks[i][1]
  <2>1. checks[1][1] /\ checks[2][1] /\ checks[3][1] /\ checks[4][1]
    BY <1>6
  <2>2. QED
    BY <1>2, <1>6, <2>1, Zenon
<1>7. ASSUME NEW i \in 1 .. 4, Verdict(checks) = checks[i][2], ~checks[i][1],
             \A j \in 1 .. 4 : j < i => checks[j][1]
      PROVE  \/ Verdict(checks) = p /\ ~a
             \/ Verdict(checks) = q /\ a /\ ~b
             \/ Verdict(checks) = r /\ a /\ b /\ ~c
             \/ Verdict(checks) = s /\ a /\ b /\ c /\ ~d
  <2>1. CASE i = 1
    <3>1. Verdict(checks) = checks[1][2] /\ ~checks[1][1]
      BY <1>7, <2>1
    <3>2. QED
      BY <1>2, <3>1, Zenon
  <2>2. CASE i = 2
    <3>1. Verdict(checks) = checks[2][2] /\ ~checks[2][1]
      BY <1>7, <2>2
    <3>2. checks[1][1]
      BY <1>7, <2>2
    <3>3. QED
      BY <1>2, <3>1, <3>2, Zenon
  <2>3. CASE i = 3
    <3>1. Verdict(checks) = checks[3][2] /\ ~checks[3][1]
      BY <1>7, <2>3
    <3>2. checks[1][1] /\ checks[2][1]
      BY <1>7, <2>3
    <3>3. QED
      BY <1>2, <3>1, <3>2, Zenon
  <2>4. CASE i = 4
    <3>1. Verdict(checks) = checks[4][2] /\ ~checks[4][1]
      BY <1>7, <2>4
    <3>2. checks[1][1] /\ checks[2][1] /\ checks[3][1]
      BY <1>7, <2>4
    <3>3. QED
      BY <1>2, <3>1, <3>2, Zenon
  <2>5. QED
    BY <1>3, <2>1, <2>2, <2>3, <2>4
<1>8. QED
  BY <1>5, <1>6, <1>7

\* And for the five checks of the others.
LEMMA VerdictOfFive ==
  ASSUME NEW a \in BOOLEAN, NEW b \in BOOLEAN, NEW c \in BOOLEAN, NEW d \in BOOLEAN,
         NEW e \in BOOLEAN, NEW p, NEW q, NEW r, NEW s, NEW t,
         NEW checks, checks = << <<a, p>>, <<b, q>>, <<c, r>>, <<d, s>>, <<e, t>> >>
  PROVE  \/ Verdict(checks) = 200 /\ a /\ b /\ c /\ d /\ e
         \/ Verdict(checks) = p /\ ~a
         \/ Verdict(checks) = q /\ a /\ ~b
         \/ Verdict(checks) = r /\ a /\ b /\ ~c
         \/ Verdict(checks) = s /\ a /\ b /\ c /\ ~d
         \/ Verdict(checks) = t /\ a /\ b /\ c /\ d /\ ~e
<1>1. DOMAIN checks = 1 .. 5
  OBVIOUS
<1>2. /\ checks[1][1] = a /\ checks[2][1] = b /\ checks[3][1] = c
      /\ checks[4][1] = d /\ checks[5][1] = e
      /\ checks[1][2] = p /\ checks[2][2] = q /\ checks[3][2] = r
      /\ checks[4][2] = s /\ checks[5][2] = t
  OBVIOUS
<1>3. \A i \in 1 .. 5 : i = 1 \/ i = 2 \/ i = 3 \/ i = 4 \/ i = 5
  OBVIOUS
<1>4. \A i \in 1 .. 5 : checks[i][1] \in BOOLEAN
  BY <1>2, <1>3
<1>5. \/ Verdict(checks) = 200 /\ \A i \in 1 .. 5 : checks[i][1]
      \/ \E i \in 1 .. 5 : /\ Verdict(checks) = checks[i][2] /\ ~checks[i][1]
                           /\ \A j \in 1 .. 5 : j < i => checks[j][1]
  BY <1>1, <1>4, VerdictIs
<1>6. CASE Verdict(checks) = 200 /\ \A i \in 1 .. 5 : checks[i][1]
  <2>1. checks[1][1] /\ checks[2][1] /\ checks[3][1] /\ checks[4][1] /\ checks[5][1]
    BY <1>6
  <2>2. QED
    BY <1>2, <1>6, <2>1, Zenon
<1>7. ASSUME NEW i \in 1 .. 5, Verdict(checks) = checks[i][2], ~checks[i][1],
             \A j \in 1 .. 5 : j < i => checks[j][1]
      PROVE  \/ Verdict(checks) = p /\ ~a
             \/ Verdict(checks) = q /\ a /\ ~b
             \/ Verdict(checks) = r /\ a /\ b /\ ~c
             \/ Verdict(checks) = s /\ a /\ b /\ c /\ ~d
             \/ Verdict(checks) = t /\ a /\ b /\ c /\ d /\ ~e
  <2>1. CASE i = 1
    <3>1. Verdict(checks) = checks[1][2] /\ ~checks[1][1]
      BY <1>7, <2>1
    <3>2. QED
      BY <1>2, <3>1, Zenon
  <2>2. CASE i = 2
    <3>1. Verdict(checks) = checks[2][2] /\ ~checks[2][1]
      BY <1>7, <2>2
    <3>2. checks[1][1]
      BY <1>7, <2>2
    <3>3. QED
      BY <1>2, <3>1, <3>2, Zenon
  <2>3. CASE i = 3
    <3>1. Verdict(checks) = checks[3][2] /\ ~checks[3][1]
      BY <1>7, <2>3
    <3>2. checks[1][1] /\ checks[2][1]
      BY <1>7, <2>3
    <3>3. QED
      BY <1>2, <3>1, <3>2, Zenon
  <2>4. CASE i = 4
    <3>1. Verdict(checks) = checks[4][2] /\ ~checks[4][1]
      BY <1>7, <2>4
    <3>2. checks[1][1] /\ checks[2][1] /\ checks[3][1]
      BY <1>7, <2>4
    <3>3. QED
      BY <1>2, <3>1, <3>2, Zenon
  <2>5. CASE i = 5
    <3>1. Verdict(checks) = checks[5][2] /\ ~checks[5][1]
      BY <1>7, <2>5
    <3>2. checks[1][1] /\ checks[2][1] /\ checks[3][1] /\ checks[4][1]
      BY <1>7, <2>5
    <3>3. QED
      BY <1>2, <3>1, <3>2, Zenon
  <2>6. QED
    BY <1>3, <2>1, <2>2, <2>3, <2>4, <2>5
<1>8. QED
  BY <1>5, <1>6, <1>7

\* What the validators say of a request, in terms of the request.
LEMMA ValidatorsAgree ==
  ASSUME NEW r \in Requests
  PROVE  /\ Validate(r) = 405 => r.method # "CONNECT"
         /\ Validate(r) = 501 =>
              r.proto \notin {"none", "connect-udp", "connect-ip", "websocket"}
         /\ r.proto = "connect-udp" /\ r.path = "ip" => Validate(r) \in {400, 405, 407}
         /\ Validate(r) = 407 => ~CheckProxyAuth(r.cred)
         /\ Validate(r) = 200 =>
              r.method = "CONNECT" /\ Asks(r, Arm(r)) /\ CheckProxyAuth(r.cred)
<1> DEFINE auth == CheckProxyAuth(r.cred)
<1>0. r.capsule \in BOOLEAN /\ auth \in BOOLEAN
  BY RequestAssumption DEF CheckProxyAuth
<1>1. CASE r.method # "CONNECT"
  BY <1>1 DEF Arm, Validate
<1>2. CASE r.method = "CONNECT" /\ r.proto = "connect-udp"
  <2>1. Arm(r) = "udp" /\ Validate(r) = ValidateConnectUdp(r)
    BY <1>2 DEF Arm, Validate, IsConnectIpPath
  <2> DEFINE isConnect == r.method = "CONNECT"
             isUdp == r.proto = "connect-udp"
             target == ParseTarget(r)
             checks == << <<isConnect, 405>>, <<isUdp, 501>>, <<r.capsule, 400>>,
                          <<auth, 407>>, <<target, 400>> >>
  <2>2. Validate(r) = Verdict(checks)
    BY <2>1 DEF ValidateConnectUdp
  <2>3. /\ isConnect \in BOOLEAN /\ isUdp \in BOOLEAN /\ r.capsule \in BOOLEAN
        /\ auth \in BOOLEAN /\ target \in BOOLEAN
    BY <1>0 DEF ParseTarget
  <2>4. isConnect /\ isUdp
    BY <1>2
  <2>5. \/ Verdict(checks) = 200 /\ isConnect /\ isUdp /\ r.capsule /\ auth /\ target
        \/ Verdict(checks) = 405 /\ ~isConnect
        \/ Verdict(checks) = 501 /\ isConnect /\ ~isUdp
        \/ Verdict(checks) = 400 /\ isConnect /\ isUdp /\ ~r.capsule
        \/ Verdict(checks) = 407 /\ isConnect /\ isUdp /\ r.capsule /\ ~auth
        \/ Verdict(checks) = 400 /\ isConnect /\ isUdp /\ r.capsule /\ auth /\ ~target
    <3> HIDE DEF auth, isConnect, isUdp, target
    <3>1. QED
      BY <2>3, VerdictOfFive
  <2>6. \/ Validate(r) = 200 /\ r.capsule /\ auth /\ target
        \/ Validate(r) = 400
        \/ Validate(r) = 407 /\ ~auth
    <3> HIDE DEF auth, isConnect, isUdp, target, checks
    <3>1. QED
      BY <2>2, <2>4, <2>5
  <2>7. QED
    BY <1>2, <2>1, <2>6 DEF Asks, ParseTarget, IsConnectIpPath
<1>3. CASE /\ r.method = "CONNECT"
           /\ r.proto = "connect-ip" \/ (r.proto = "none" /\ IsConnectIpPath(r))
  <2>1. Arm(r) = "ip" /\ Validate(r) = ValidateConnectIp(r)
    BY <1>3 DEF Arm, Validate, IsConnectIpPath
  <2> DEFINE isConnect == r.method = "CONNECT"
             isPath == IsConnectIpPath(r)
             notUdp == r.proto # "connect-udp"
             checks == << <<isConnect, 405>>, <<isPath, 400>>, <<notUdp, 501>>,
                          <<r.capsule, 400>>, <<auth, 407>> >>
  <2>2. Validate(r) = Verdict(checks)
    BY <2>1 DEF ValidateConnectIp
  <2>3. /\ isConnect \in BOOLEAN /\ isPath \in BOOLEAN /\ notUdp \in BOOLEAN
        /\ r.capsule \in BOOLEAN /\ auth \in BOOLEAN
    BY <1>0 DEF IsConnectIpPath
  <2>4. isConnect /\ notUdp
    BY <1>3
  <2>5. \/ Verdict(checks) = 200 /\ isConnect /\ isPath /\ notUdp /\ r.capsule /\ auth
        \/ Verdict(checks) = 405 /\ ~isConnect
        \/ Verdict(checks) = 400 /\ isConnect /\ ~isPath
        \/ Verdict(checks) = 501 /\ isConnect /\ isPath /\ ~notUdp
        \/ Verdict(checks) = 400 /\ isConnect /\ isPath /\ notUdp /\ ~r.capsule
        \/ Verdict(checks) = 407 /\ isConnect /\ isPath /\ notUdp /\ r.capsule /\ ~auth
    <3> HIDE DEF auth, isConnect, isPath, notUdp
    <3>1. QED
      BY <2>3, VerdictOfFive
  <2>6. \/ Validate(r) = 200 /\ isPath /\ r.capsule /\ auth
        \/ Validate(r) = 400
        \/ Validate(r) = 407 /\ ~auth
    <3> HIDE DEF auth, isConnect, isPath, notUdp, checks
    <3>1. QED
      BY <2>2, <2>4, <2>5
  <2>7. QED
    BY <1>3, <2>1, <2>6 DEF Asks, IsConnectIpPath
<1>4. CASE r.method = "CONNECT" /\ r.proto = "websocket"
  <2>1. Arm(r) = "ws" /\ Validate(r) = ValidateWebsocketConnect(r)
    BY <1>4 DEF Arm, Validate, IsConnectIpPath
  <2> DEFINE isConnect == r.method = "CONNECT"
             isWs == r.proto = "websocket"
             target == ParseAuthority(r)
             checks == << <<isConnect, 405>>, <<isWs, 501>>, <<auth, 407>>, <<target, 400>> >>
  <2>2. Validate(r) = Verdict(checks)
    BY <2>1 DEF ValidateWebsocketConnect
  <2>3. isConnect \in BOOLEAN /\ isWs \in BOOLEAN /\ auth \in BOOLEAN /\ target \in BOOLEAN
    BY <1>0 DEF ParseAuthority
  <2>4. isConnect /\ isWs
    BY <1>4
  <2>5. \/ Verdict(checks) = 200 /\ isConnect /\ isWs /\ auth /\ target
        \/ Verdict(checks) = 405 /\ ~isConnect
        \/ Verdict(checks) = 501 /\ isConnect /\ ~isWs
        \/ Verdict(checks) = 407 /\ isConnect /\ isWs /\ ~auth
        \/ Verdict(checks) = 400 /\ isConnect /\ isWs /\ auth /\ ~target
    <3> HIDE DEF auth, isConnect, isWs, target
    <3>1. QED
      BY <2>3, VerdictOfFour
  <2>6. \/ Validate(r) = 200 /\ auth /\ target
        \/ Validate(r) = 400
        \/ Validate(r) = 407 /\ ~auth
    <3> HIDE DEF auth, isConnect, isWs, target, checks
    <3>1. QED
      BY <2>2, <2>4, <2>5
  <2>7. QED
    BY <1>4, <2>1, <2>6 DEF Asks, ParseAuthority, IsConnectIpPath
<1>5. CASE r.method = "CONNECT" /\ r.proto = "none" /\ ~IsConnectIpPath(r)
  <2>1. Arm(r) = "tcp" /\ Validate(r) = ValidateTcpConnect(r)
    BY <1>5 DEF Arm, Validate, IsConnectIpPath
  <2> DEFINE isConnect == r.method = "CONNECT"
             isPlain == r.proto = "none"
             target == ParseAuthority(r)
             checks == << <<isConnect, 405>>, <<isPlain, 501>>, <<auth, 407>>,
                          <<target, 400>> >>
  <2>2. Validate(r) = Verdict(checks)
    BY <2>1 DEF ValidateTcpConnect
  <2>3. isConnect \in BOOLEAN /\ isPlain \in BOOLEAN /\ auth \in BOOLEAN /\ target \in BOOLEAN
    BY <1>0 DEF ParseAuthority
  <2>4. isConnect /\ isPlain
    BY <1>5
  <2>5. \/ Verdict(checks) = 200 /\ isConnect /\ isPlain /\ auth /\ target
        \/ Verdict(checks) = 405 /\ ~isConnect
        \/ Verdict(checks) = 501 /\ isConnect /\ ~isPlain
        \/ Verdict(checks) = 407 /\ isConnect /\ isPlain /\ ~auth
        \/ Verdict(checks) = 400 /\ isConnect /\ isPlain /\ auth /\ ~target
    <3> HIDE DEF auth, isConnect, isPlain, target
    <3>1. QED
      BY <2>3, VerdictOfFour
  <2>6. \/ Validate(r) = 200 /\ auth /\ target
        \/ Validate(r) = 400
        \/ Validate(r) = 407 /\ ~auth
    <3> HIDE DEF auth, isConnect, isPlain, target, checks
    <3>1. QED
      BY <2>2, <2>4, <2>5
  <2>7. QED
    BY <1>5, <2>1, <2>6 DEF Asks, ParseAuthority, IsConnectIpPath
<1>6. CASE /\ r.method = "CONNECT"
           /\ r.proto \notin {"none", "connect-udp", "connect-ip", "websocket"}
  BY <1>6 DEF Arm, Validate
<1>7. QED
  BY <1>1, <1>2, <1>3, <1>4, <1>5, <1>6

\* With a token configured, a request that is not authorized lacks the token, decodes to
\* nothing or has another scheme.
LEMMA AuthMeans ==
  ASSUME HasToken = TRUE, NEW r \in Requests
  PROVE  /\ CheckProxyAuth(r.cred) => r.cred.secret = "token"
         /\ ~CheckProxyAuth(r.cred) =>
              r.cred.secret # "token" \/ r.cred.scheme = "other" \/ ~r.cred.decodes
BY RequestAssumption, Zenon DEF CheckProxyAuth

\* No status is sent before a request is dispatched.
LEMMA AnswerStarts == Init => AnswerFits
BY RequestAssumption DEF Init, AnswerFits

\* Only the handler's own steps choose a status, the validators' before admission and
\* the tunnel's after it.
LEMMA AnswerStep == AnswerFits /\ [Next]_vars => AnswerFits'
<1> SUFFICES ASSUME AnswerFits, [Next]_vars PROVE AnswerFits'
  OBVIOUS
<1>1. CASE Reject
  <2>1. req \in Requests /\ req # None
    BY <1>1, RequestAssumption DEF Reject, AnswerFits
  <2>2. req' = req /\ stage' = "done" /\ answer' \in {0, Validate(req)}
    BY <1>1 DEF Reject, Reply
  <2>3. QED
    BY <2>1, <2>2 DEF AnswerFits
<1>2. CASE Admit
  <2>1. req' = None /\ stage' \in {"valid", "done"} /\ answer' = answer /\ answer = 0
    BY <1>2 DEF Admit, AnswerFits
  <2>2. QED
    BY <2>1 DEF AnswerFits
<1>3. CASE Allocate \/ Create \/ Assign \/ Advertise
  <2>1. /\ stage \notin {"start", "done"} /\ stage' # "start"
        /\ req' = req /\ answer' = answer
    BY <1>3 DEF Allocate, Create, Assign, Advertise, Signal
  <2>2. QED
    BY <2>1 DEF AnswerFits
<1>4. CASE PoolExhausted \/ CreateFails \/ Respond
  <2>1. /\ stage \notin {"start", "done"} /\ stage' # "start"
        /\ req' = req /\ answer' \in {0, 200, 500, 503}
    BY <1>4 DEF PoolExhausted, CreateFails, Respond, Reply
  <2>2. QED
    BY <2>1 DEF AnswerFits
<1>5. CASE Reader \/ Plane
  <2>1. UNCHANGED handler
    BY <1>5 DEF Reader, Recv, RecvEnds, SplitNothing, IgnoreCapsule, AnswerRequest,
       AnswerSent, AnswerFails, AbortRequest, CloseStream, Plane, ReadPacket, SendPacket, ReadDeviceFails, WritePacket,
       ChannelCloses, TearDown
  <2>2. QED
    BY <2>1 DEF handler, AnswerFits
<1>6. CASE Client
  <2>1. UNCHANGED handler
    BY <1>6 DEF Client, ClientEnds, ClientStops, LoseConnection, PathChanges
  <2>2. QED
    BY <2>1 DEF handler, AnswerFits
<1>7. CASE UNCHANGED vars
  BY <1>7 DEF vars, handler, AnswerFits
<1>8. QED
  BY <1>1, <1>2, <1>3, <1>4, <1>5, <1>6, <1>7 DEF Next, Setup

\* With a token configured, as --enable h3 requires, the dispatcher and the validators
\* agree on every request: none that is answered 405 or 501 was of a supported kind, a
\* connect-udp request on the path of CONNECT-IP is answered 400, 405 or 407, and none
\* is admitted to a tunnel it did not ask for, or without the token.
THEOREM DispatchAlwaysAgrees ==
  ASSUME HasToken = TRUE
  PROVE  Spec => []DispatchAgrees
<1>1. AnswerFits => DispatchAgrees
  <2> SUFFICES ASSUME AnswerFits PROVE DispatchAgrees
    OBVIOUS
  <2>1. ASSUME req \in Requests PROVE DispatchAgrees
    <3>1. req # None
      BY <2>1, RequestAssumption
    <3>2. answer \in {0, Validate(req)}
      BY <3>1 DEF AnswerFits
    <3>3. /\ Validate(req) = 405 => req.method # "CONNECT"
          /\ Validate(req) = 501 =>
               req.proto \notin {"none", "connect-udp", "connect-ip", "websocket"}
          /\ req.proto = "connect-udp" /\ req.path = "ip" =>
               Validate(req) \in {400, 405, 407}
          /\ Validate(req) = 407 => ~CheckProxyAuth(req.cred)
          /\ Validate(req) = 200 =>
               req.method = "CONNECT" /\ Asks(req, Arm(req)) /\ CheckProxyAuth(req.cred)
      BY <2>1, ValidatorsAgree
    <3>4. /\ CheckProxyAuth(req.cred) => req.cred.secret = "token"
          /\ ~CheckProxyAuth(req.cred) =>
               req.cred.secret # "token" \/ req.cred.scheme = "other" \/ ~req.cred.decodes
      BY <2>1, AuthMeans
    <3>5. QED
      BY <3>2, <3>3, <3>4 DEF DispatchAgrees
  <2>2. ASSUME req = None PROVE DispatchAgrees
    <3>1. stage # "start" /\ answer \in {0, 200, 500, 503}
      BY <2>2, RequestAssumption DEF AnswerFits
    <3>2. QED
      BY <2>2, <3>1 DEF DispatchAgrees
  <2>3. QED
    BY <2>1, <2>2 DEF AnswerFits
<1>2. QED
  BY <1>1, AnswerStarts, AnswerStep, PTL DEF Spec

(***************************************************************************)
(* What the server says in capsules.                                       *)
(***************************************************************************)
\* The first capsule assigns the address of the session, the second is the route, and
\* every later one assigns that same address again, whatever the client asked for.
ServerSays ==
  /\ Len(out) >= 1 => out[1] = EncodeAssign(<<Entry(0)>>)
  /\ Len(out) >= 2 => out[2] = EncodeRoutes(<<DefaultRoute>>)
  /\ \A k \in 3 .. Len(out) :
       \E ids : out[k] = EncodeAssign([i \in DOMAIN ids |-> Entry(ids[i])])

\* How many capsules have been sent is given by the stage, and the reader runs only
\* after the first two.
SaysInv ==
  /\ \E S : out \in Seq(S)
  /\ stage \in {"start", "valid", "allocated", "created", "assign"} => Len(out) = 0
  /\ stage = "advertise" => Len(out) = 1
  /\ stage = "running" => Len(out) >= 2
  /\ reader # "off" => stage = "running"
  /\ ServerSays

\* A capsule appended is the last, and leaves those before it.
LEMMA OneMore ==
  ASSUME NEW S, NEW s \in Seq(S), NEW c
  PROVE  /\ \E T : Append(s, c) \in Seq(T)
         /\ Len(s) \in Nat /\ Len(Append(s, c)) = Len(s) + 1
         /\ \A k \in 1 .. Len(s) : Append(s, c)[k] = s[k]
         /\ Append(s, c)[Len(s) + 1] = c
<1> DEFINE T == S \cup {c}
<1>1. s \in Seq(T) /\ c \in T
  OBVIOUS
<1>2. QED
  BY <1>1

\* As long as the address stands, what was said stands.
LEMMA SaysSame ==
  ASSUME SaysInv, out' = out, address' = address, stage' = stage, reader' = reader
  PROVE  SaysInv'
BY DEF SaysInv, ServerSays, Entry, DefaultRoute

\* Every ADDRESS_REQUEST is answered with the session's own address.
LEMMA AnswerSays ==
  ASSUME SaysInv, AnswerRequest
  PROVE  SaysInv'
<1>1. /\ stage' = stage /\ address' = address /\ reader # "off"
      /\ reader' # "off"
  BY DEF AnswerRequest, handler
<1>2. stage = "running" /\ Len(out) >= 2
  BY <1>1 DEF SaysInv
<1>3. PICK entries : out' = IF CanSend THEN Append(out, Replies(entries)) ELSE out
  BY DEF AnswerRequest
<1>4. CASE ~CanSend
  BY <1>1, <1>2, <1>3, <1>4 DEF SaysInv, ServerSays, Entry, DefaultRoute
<1>5. CASE CanSend
  <2>1. PICK S : out \in Seq(S)
    BY DEF SaysInv
  <2>2. out' = Append(out, Replies(entries))
    BY <1>3, <1>5
  <2>3. /\ \E T : out' \in Seq(T)
        /\ Len(out) \in Nat /\ Len(out') = Len(out) + 1
        /\ \A k \in 1 .. Len(out) : out'[k] = out[k]
        /\ out'[Len(out) + 1] = Replies(entries)
    <3>1. /\ \E T : Append(out, Replies(entries)) \in Seq(T)
          /\ Len(out) \in Nat /\ Len(Append(out, Replies(entries))) = Len(out) + 1
          /\ \A k \in 1 .. Len(out) : Append(out, Replies(entries))[k] = out[k]
          /\ Append(out, Replies(entries))[Len(out) + 1] = Replies(entries)
      BY ONLY <2>1, OneMore
    <3>2. QED
      BY <2>2, <3>1, Zenon
  <2>4. \E ids : Replies(entries) = EncodeAssign([i \in DOMAIN ids |-> Entry(ids[i])])
    <3> DEFINE ids == [i \in DOMAIN entries |-> entries[i].id]
    <3>1. DOMAIN ids = DOMAIN entries /\ \A i \in DOMAIN entries : ids[i] = entries[i].id
      OBVIOUS
    <3>2. [i \in DOMAIN ids |-> Entry(ids[i])] = [i \in DOMAIN entries |-> Entry(entries[i].id)]
      BY <3>1
    <3>3. QED
      BY <3>2 DEF Replies
  <2>5. ServerSays'
    <3>1. \A id : Entry(id)' = Entry(id)
      BY <1>1 DEF Entry
    <3>2. DefaultRoute' = DefaultRoute
      BY <1>1 DEF DefaultRoute
    <3>3. out'[1] = EncodeAssign(<<Entry(0)>>) /\ out'[2] = EncodeRoutes(<<DefaultRoute>>)
      BY <1>2, <2>3 DEF SaysInv, ServerSays
    <3>4. ASSUME NEW k \in 3 .. Len(out')
          PROVE  \E ids : out'[k] = EncodeAssign([i \in DOMAIN ids |-> Entry(ids[i])])
      <4>1. k \in 3 .. Len(out) \/ k = Len(out) + 1
        BY <2>3
      <4>2. CASE k \in 3 .. Len(out)
        <5>1. out'[k] = out[k]
          BY <2>3, <4>2
        <5>2. \E ids : out[k] = EncodeAssign([i \in DOMAIN ids |-> Entry(ids[i])])
          BY <4>2 DEF SaysInv, ServerSays
        <5>3. QED
          BY <5>1, <5>2
      <4>3. CASE k = Len(out) + 1
        BY <2>3, <2>4, <4>3
      <4>4. QED
        BY <4>1, <4>2, <4>3
    <3>5. QED
      BY <3>1, <3>2, <3>3, <3>4 DEF ServerSays
  <2>6. QED
    BY <1>1, <1>2, <2>3, <2>5 DEF SaysInv
<1>6. QED
  BY <1>4, <1>5

\* The two capsules nobody asked for.
LEMMA SignalSays ==
  ASSUME SaysInv, Assign \/ Advertise
  PROVE  SaysInv'
<1>1. PICK S : out \in Seq(S)
  BY DEF SaysInv
<1>2. address' = address /\ reader = "off"
  BY DEF Assign, Advertise, Signal, SaysInv
<1>3. \A id : Entry(id)' = Entry(id)
  BY <1>2 DEF Entry
<1>4. DefaultRoute' = DefaultRoute
  BY <1>2 DEF DefaultRoute
<1>5. CASE Assign
  <2>1. stage = "assign" /\ Len(out) = 0 /\ reader' = reader
    BY <1>5 DEF Assign, Signal, SaysInv
  <2>2. CASE CanSend
    <3>1. out' = Append(out, EncodeAssign(<<Entry(0)>>)) /\ stage' = "advertise"
      BY <1>5, <2>2 DEF Assign, Signal
    <3>2. /\ \E T : out' \in Seq(T)
          /\ Len(out') = 1 /\ out'[1] = EncodeAssign(<<Entry(0)>>)
      <4> DEFINE c == EncodeAssign(<<Entry(0)>>)
      <4>1. /\ \E T : Append(out, c) \in Seq(T)
            /\ Len(Append(out, c)) = Len(out) + 1
            /\ Append(out, c)[Len(out) + 1] = c
        <5> HIDE DEF c
        <5>1. QED
          BY ONLY <1>1, OneMore
      <4>2. QED
        BY <2>1, <3>1, <4>1
    <3>3. QED
      BY <1>2, <1>3, <2>1, <3>1, <3>2 DEF SaysInv, ServerSays
  <2>3. CASE ~CanSend
    <3>1. out' = out /\ stage' = "done"
      BY <1>5, <2>3 DEF Assign, Signal
    <3>2. QED
      BY <1>2, <2>1, <3>1 DEF SaysInv, ServerSays
  <2>4. QED
    BY <2>2, <2>3
<1>6. CASE Advertise
  <2>1. stage = "advertise" /\ Len(out) = 1 /\ out[1] = EncodeAssign(<<Entry(0)>>)
    BY <1>6 DEF Advertise, Signal, SaysInv, ServerSays
  <2>2. CASE CanSend
    <3>1. out' = Append(out, EncodeRoutes(<<DefaultRoute>>)) /\ stage' = "running"
      BY <1>6, <2>2 DEF Advertise, Signal
    <3>2. /\ \E T : out' \in Seq(T)
          /\ Len(out') = 2 /\ out'[1] = out[1] /\ out'[2] = EncodeRoutes(<<DefaultRoute>>)
      <4> DEFINE c == EncodeRoutes(<<DefaultRoute>>)
      <4>1. /\ \E T : Append(out, c) \in Seq(T)
            /\ Len(Append(out, c)) = Len(out) + 1
            /\ \A k \in 1 .. Len(out) : Append(out, c)[k] = out[k]
            /\ Append(out, c)[Len(out) + 1] = c
        <5> HIDE DEF c
        <5>1. \E T : Append(out, c) \in Seq(T)
          BY ONLY <1>1, OneMore
        <5>2. Len(Append(out, c)) = Len(out) + 1
          BY ONLY <1>1, OneMore
        <5>3. \A k \in 1 .. Len(out) : Append(out, c)[k] = out[k]
          BY ONLY <1>1, OneMore
        <5>4. Append(out, c)[Len(out) + 1] = c
          BY ONLY <1>1, OneMore
        <5>5. QED
          BY <5>1, <5>2, <5>3, <5>4
      <4>2. QED
        BY <2>1, <3>1, <4>1
    <3>3. QED
      BY <1>3, <1>4, <2>1, <3>1, <3>2 DEF SaysInv, ServerSays
  <2>3. CASE ~CanSend
    <3>1. out' = out /\ stage' = "done" /\ reader' = "off"
      BY <1>6, <2>3 DEF Advertise, Signal
    <3>2. ServerSays'
      <4>1. Len(out') = 1 /\ 3 .. Len(out') = {}
        BY <2>1, <3>1
      <4>2. out'[1] = EncodeAssign(<<Entry(0)'>>)
        BY <1>3, <2>1, <3>1
      <4>3. QED
        BY <4>1, <4>2 DEF ServerSays
    <3>3. QED
      BY <1>1, <2>1, <3>1, <3>2 DEF SaysInv
  <2>4. QED
    BY <2>2, <2>3
<1>7. QED
  BY <1>5, <1>6

\* The other steps of the handler send no capsule.
LEMMA SetupSays ==
  ASSUME SaysInv, Setup
  PROVE  SaysInv'
<1>1. CASE Assign \/ Advertise
  BY <1>1, SignalSays
<1>2. CASE \/ Reject \/ Admit \/ Allocate \/ PoolExhausted \/ Create \/ CreateFails \/ Respond
  <2>1. /\ out' = out /\ reader' = reader
        /\ stage \in {"start", "valid", "allocated", "created"}
        /\ stage' \in {"valid", "allocated", "created", "assign", "done"}
    BY <1>2 DEF Reject, Admit, Allocate, PoolExhausted, Create, CreateFails, Respond, Reply,
       capsules
  <2>2. Len(out) = 0 /\ reader = "off"
    BY <2>1 DEF SaysInv
  <2>3. QED
    BY <2>1, <2>2 DEF SaysInv, ServerSays
<1>3. QED
  BY <1>1, <1>2 DEF Setup

\* Nothing has been said at the start.
LEMMA SaysStarts == Init => SaysInv
<1> SUFFICES ASSUME Init PROVE SaysInv
  OBVIOUS
<1>1. out = <<>> /\ Len(out) = 0 /\ out \in Seq({})
  BY DEF Init
<1>2. QED
  BY <1>1 DEF Init, SaysInv, ServerSays

\* Every step says what the server may say next.
LEMMA SaysStep ==
  ASSUME SaysInv, [Next]_vars
  PROVE  SaysInv'
<1>1. CASE Setup
  BY <1>1, SetupSays
<1>2. CASE Reader
  <2>1. CASE AnswerRequest
    BY <2>1, AnswerSays
  <2>2. CASE \/ Recv \/ RecvEnds \/ SplitNothing \/ IgnoreCapsule
             \/ AnswerSent \/ AnswerFails \/ AbortRequest \/ CloseStream
    <3>1. /\ UNCHANGED <<handler, out>> /\ reader # "off" /\ reader' # "off"
      BY <2>2 DEF Recv, RecvEnds, SplitNothing, IgnoreCapsule, AnswerSent, AnswerFails,
         AbortRequest, CloseStream
    <3>2. QED
      BY <3>1 DEF handler, SaysInv, ServerSays, Entry, DefaultRoute
  <2>3. QED
    BY <1>2, <2>1, <2>2 DEF Reader
<1>3. CASE Plane \/ Client \/ UNCHANGED vars
  <2>1. UNCHANGED <<handler, capsules>>
    BY <1>3 DEF Plane, ReadPacket, SendPacket, ReadDeviceFails, WritePacket, ChannelCloses,
       TearDown, Client, ClientEnds, ClientStops, LoseConnection, PathChanges, vars
  <2>2. QED
    BY <2>1, SaysSame DEF handler, capsules
<1>4. QED
  BY <1>1, <1>2, <1>3 DEF Next

\* For every script of the client: the server assigns one address and one route first,
\* and answers every request with that address only (masque.rs:694-711, 751-763).
THEOREM OneAddressAssigned == Spec => []ServerSays
<1>1. SaysInv => ServerSays
  BY DEF SaysInv
<1>2. QED
  BY <1>1, SaysStarts, SaysStep, PTL DEF Spec

(***************************************************************************)
(* Induction over the natural numbers, and what a fold of sequences yields. *)
(***************************************************************************)

\* A set of natural numbers has a least member.
LEMMA Least ==
  ASSUME NEW T, T \subseteq Nat, T # {}
  PROVE  \E x \in T : \A y \in T : ~(y < x)
<1>1. IsWellFoundedOn(OpToRel(<, Nat), Nat)
  BY NatLessThanWellFounded
<1>2. \E x \in T : \A y \in T : ~(<<y, x>> \in OpToRel(<, Nat))
  BY <1>1, WFMin
<1>3. QED
  BY <1>2 DEF OpToRel

\* Induction on natural numbers, for a set instead of a predicate.
LEMMA Induct ==
  ASSUME NEW T, 0 \in T, \A n \in Nat : n \in T => n + 1 \in T
  PROVE  \A n \in Nat : n \in T
<1> DEFINE U == Nat \ T
<1>1. SUFFICES ASSUME U # {} PROVE FALSE
  OBVIOUS
<1>2. PICK x \in U : \A y \in U : ~(y < x)
  BY <1>1, Least
<1>3. x \in Nat /\ x # 0 /\ x - 1 \in Nat
  BY <1>2
<1>4. x - 1 \in T
  BY <1>2, <1>3
<1>5. x - 1 + 1 \in T
  BY <1>3, <1>4
<1>6. QED
  BY <1>2, <1>3, <1>5

\* f is a running concatenation of w.
Runs(f, w, n) == f = [i \in 1 .. n |-> IF i = 1 THEN w[i] ELSE f[i - 1] \o w[i]]

\* A running concatenation, by its index.
LEMMA RunsAt ==
  ASSUME NEW f, NEW w, NEW n, Runs(f, w, n), NEW i \in 1 .. n
  PROVE  f[i] = IF i = 1 THEN w[i] ELSE f[i - 1] \o w[i]
<1> DEFINE B == [j \in 1 .. n |-> IF j = 1 THEN w[j] ELSE f[j - 1] \o w[j]]
<1>1. f = B
  BY DEF Runs
<1>2. B[i] = IF i = 1 THEN w[i] ELSE f[i - 1] \o w[i]
  OBVIOUS
<1> HIDE DEF B
<1>3. f[i] = B[i]
  BY <1>1
<1>4. QED
  BY <1>2, <1>3

\* The next of a running concatenation has one sequence more.
LEMMA RunsNext ==
  ASSUME NEW f, NEW w, NEW n, Runs(f, w, n), NEW i \in Nat, i # 0, i + 1 \in 1 .. n
  PROVE  f[i + 1] = f[i] \o w[i + 1]
<1>1. PICK j \in 1 .. n : j = i + 1
  OBVIOUS
<1>2. j # 1 /\ j - 1 = i
  BY <1>1
<1>3. f[j] = f[j - 1] \o w[j]
  <2>1. f[j] = IF j = 1 THEN w[j] ELSE f[j - 1] \o w[j]
    BY RunsAt
  <2>2. QED
    BY <1>2, <2>1, Zenon
<1>4. QED
  BY <1>1, <1>2, <1>3, Zenon

\* Every family of sequences has its running concatenation.
LEMMA RunsExist ==
  ASSUME NEW w, NEW n \in Nat
  PROVE  \E f : Runs(f, w, n)
<1> DEFINE T == {m \in Nat : \E f : Runs(f, w, m)}
<1>1. 0 \in T
  <2> DEFINE f == [i \in 1 .. 0 |-> w[i]]
  <2>1. f = [i \in 1 .. 0 |-> IF i = 1 THEN w[i] ELSE f[i - 1] \o w[i]]
    OBVIOUS
  <2>2. QED
    BY <2>1 DEF Runs
<1>2. ASSUME NEW m \in Nat, m \in T PROVE m + 1 \in T
  <2>1. PICK f : Runs(f, w, m)
    BY <1>2
  <2> DEFINE g == [i \in 1 .. m + 1 |-> IF i = 1 THEN w[i]
                                         ELSE IF i <= m THEN f[i] ELSE f[m] \o w[m + 1]]
             h == [i \in 1 .. m + 1 |-> IF i = 1 THEN w[i] ELSE g[i - 1] \o w[i]]
  <2>2. \A i \in 1 .. m : f[i] = IF i = 1 THEN w[i] ELSE f[i - 1] \o w[i]
    BY <2>1, RunsAt
  <2> HIDE DEF g
  <2>7. \A j \in 1 .. m + 1 : h[j] = IF j = 1 THEN w[j] ELSE g[j - 1] \o w[j]
    OBVIOUS
  <2> USE DEF g
  <2> HIDE DEF h
  <2>3. ASSUME NEW i \in 1 .. m + 1 PROVE g[i] = h[i]
    <3>1. CASE i = 1
      BY <2>7, <3>1
    <3>2. CASE i # 1 /\ i <= m
      <4>1. i - 1 \in 1 .. m + 1 /\ i - 1 <= m /\ i \in 1 .. m /\ i - 1 \in 1 .. m
        BY <3>2
      <4>2. g[i - 1] = f[i - 1]
        BY <2>2, <4>1
      <4>3. QED
        BY <2>2, <2>7, <3>2, <4>1, <4>2
    <3>3. CASE i # 1 /\ i > m
      <4>1. i = m + 1 /\ m \in 1 .. m /\ m \in 1 .. m + 1
        BY <3>3
      <4>2. g[m] = f[m]
        BY <2>2, <4>1
      <4>3. i # 1 /\ ~(i <= m) /\ i - 1 = m
        BY <3>3, <4>1
      <4>4. g[i] = f[m] \o w[m + 1]
        BY <4>3, Zenon
      <4>5. h[i] = g[i - 1] \o w[i]
        BY <2>7, <4>3, Zenon
      <4>6. QED
        BY <4>1, <4>2, <4>3, <4>4, <4>5, Zenon
    <3>4. QED
      BY <3>1, <3>2, <3>3
  <2>4. g = h
    <3>1. g = [i \in 1 .. m + 1 |-> g[i]] /\ h = [i \in 1 .. m + 1 |-> h[i]]
      BY DEF h
    <3>2. QED
      BY <2>3, <3>1
  <2>5. Runs(g, w, m + 1)
    BY <2>4 DEF Runs, h
  <2>6. QED
    BY <2>5
<1> HIDE DEF T
<1>3. n \in T
  BY <1>1, <1>2, Induct
<1>4. QED
  BY <1>3 DEF T

\* Two of them agree as long as the sequences do.
LEMMA RunsAgree ==
  ASSUME NEW w, NEW v, NEW n \in Nat, NEW m \in Nat, NEW f, NEW g, Runs(f, w, n), Runs(g, v, m),
         NEW k \in Nat, k <= n, k <= m, \A i \in 1 .. k : w[i] = v[i]
  PROVE  \A i \in 1 .. k : f[i] = g[i]
<1> DEFINE T == {i \in Nat : i \in 1 .. k => f[i] = g[i]}
<1>1. 0 \in T
  OBVIOUS
<1>2. ASSUME NEW i \in Nat, i \in T PROVE i + 1 \in T
  <2> SUFFICES ASSUME i + 1 \in 1 .. k PROVE f[i + 1] = g[i + 1]
    OBVIOUS
  <2>1. i + 1 \in 1 .. n /\ i + 1 \in 1 .. m /\ w[i + 1] = v[i + 1]
    OBVIOUS
  <2>2. f[i + 1] = IF i + 1 = 1 THEN w[i + 1] ELSE f[i + 1 - 1] \o w[i + 1]
    BY <2>1, RunsAt
  <2>3. g[i + 1] = IF i + 1 = 1 THEN v[i + 1] ELSE g[i + 1 - 1] \o v[i + 1]
    BY <2>1, RunsAt
  <2>4. CASE i = 0
    BY <2>1, <2>2, <2>3, <2>4
  <2>5. CASE i # 0
    <3>1. f[i] = g[i] /\ i + 1 - 1 = i
      BY <1>2, <2>5
    <3>2. QED
      BY <2>1, <2>2, <2>3, <2>5, <3>1
  <2>6. QED
    BY <2>4, <2>5
<1> HIDE DEF T
<1>3. \A i \in Nat : i \in T
  BY <1>1, <1>2, Induct
<1>4. QED
  BY <1>3 DEF T

\* FlattenSeq is the last of the running concatenations.
LEMMA FlattenIs ==
  ASSUME NEW w, Len(w) \in Nat, NEW f, Runs(f, w, Len(w)), Len(w) # 0
  PROVE  FlattenSeq(w) = f[Len(w)]
<1> DEFINE n == Len(w)
           g == CHOOSE g : g = [i \in 1 .. n |-> IF i = 1 THEN w[i] ELSE g[i - 1] \o w[i]]
<1>1. FlattenSeq(w) = g[n]
  BY DEF FlattenSeq
<1>2. \E h : h = [i \in 1 .. n |-> IF i = 1 THEN w[i] ELSE h[i - 1] \o w[i]]
  BY DEF Runs
<1>3. g = [i \in 1 .. n |-> IF i = 1 THEN w[i] ELSE g[i - 1] \o w[i]]
  BY <1>2
<1> HIDE DEF g
<1>4. Runs(g, w, n)
  BY <1>3 DEF Runs
<1>5. \A i \in 1 .. n : g[i] = f[i]
  BY <1>4, RunsAgree
<1>6. QED
  BY <1>1, <1>5

Restricted(w, k) == [i \in 1 .. k |-> w[i]]

\* What FlattenSeq does to the first k of many sequences.
LEMMA FlattenStep ==
  ASSUME NEW S, NEW w, NEW n \in Nat, \A i \in 1 .. n : w[i] \in Seq(S)
  PROVE  /\ FlattenSeq(Restricted(w, 0)) = <<>>
         /\ \A k \in 0 .. n : FlattenSeq(Restricted(w, k)) \in Seq(S)
         /\ \A k \in 0 .. n - 1 :
              FlattenSeq(Restricted(w, k + 1)) = FlattenSeq(Restricted(w, k)) \o w[k + 1]
<1>1. \A k \in Nat : /\ Len(Restricted(w, k)) = k
                     /\ \A i \in 1 .. k : Restricted(w, k)[i] = w[i]
  BY DEF Restricted
<1>2. FlattenSeq(Restricted(w, 0)) = <<>>
  <2>1. Restricted(w, 0) = <<>>
    BY DEF Restricted
  <2>2. QED
    BY <1>1, <2>1 DEF FlattenSeq
<1>3. FlattenSeq(Restricted(w, 1)) = w[1]
  <2>1. PICK f : Runs(f, Restricted(w, 1), 1)
    BY RunsExist
  <2>2. f[1] = Restricted(w, 1)[1]
    BY <2>1, RunsAt
  <2>3. QED
    BY <1>1, <2>1, <2>2, FlattenIs
<1>4. ASSUME NEW k \in Nat, k # 0
      PROVE  FlattenSeq(Restricted(w, k + 1)) = FlattenSeq(Restricted(w, k)) \o w[k + 1]
  <2>1. PICK f : Runs(f, Restricted(w, k + 1), k + 1)
    BY RunsExist
  <2>2. PICK g : Runs(g, Restricted(w, k), k)
    BY RunsExist
  <2>3. \A i \in 1 .. k : Restricted(w, k + 1)[i] = Restricted(w, k)[i]
    BY <1>1
  <2>4. f[k] = g[k]
    <3>1. \A i \in 1 .. k : f[i] = g[i]
      BY <2>1, <2>2, <2>3, RunsAgree
    <3>2. QED
      BY <1>4, <3>1
  <2>5. f[k + 1] = f[k] \o w[k + 1]
    <3>1. k + 1 \in 1 .. k + 1
      BY <1>4
    <3>2. f[k + 1] = f[k] \o Restricted(w, k + 1)[k + 1]
      BY <1>4, <2>1, <3>1, RunsNext, Zenon
    <3>3. Restricted(w, k + 1)[k + 1] = w[k + 1]
      BY <1>1, <3>1
    <3>4. QED
      BY <3>2, <3>3
  <2>6. FlattenSeq(Restricted(w, k + 1)) = f[k + 1]
    BY <1>1, <2>1, FlattenIs
  <2>7. FlattenSeq(Restricted(w, k)) = g[k]
    BY <1>1, <1>4, <2>2, FlattenIs
  <2>8. QED
    BY <2>4, <2>5, <2>6, <2>7
<1>5. ASSUME NEW k \in 0 .. n - 1
      PROVE  FlattenSeq(Restricted(w, k + 1)) = FlattenSeq(Restricted(w, k)) \o w[k + 1]
  <2>1. CASE k # 0
    <3>1. k \in Nat
      OBVIOUS
    <3>2. QED
      BY <1>4, <2>1, <3>1, Zenon
  <2>2. CASE k = 0
    <3>1. w[1] \in Seq(S)
      BY <1>5
    <3>2. <<>> \o w[1] = w[1]
      BY <3>1, ConcatEmptySeq
    <3>3. QED
      BY <1>2, <1>3, <2>2, <3>2
  <2>3. QED
    BY <2>1, <2>2
<1>6. \A k \in 0 .. n : FlattenSeq(Restricted(w, k)) \in Seq(S)
  <2> DEFINE T == {k \in Nat : k <= n => FlattenSeq(Restricted(w, k)) \in Seq(S)}
  <2>1. 0 \in T
    <3>1. <<>> \in Seq(S)
      OBVIOUS
    <3>2. QED
      BY <1>2, <3>1
  <2>2. ASSUME NEW k \in Nat, k \in T PROVE k + 1 \in T
    <3> SUFFICES ASSUME k + 1 <= n PROVE FlattenSeq(Restricted(w, k + 1)) \in Seq(S)
      OBVIOUS
    <3>1. FlattenSeq(Restricted(w, k)) \in Seq(S) /\ w[k + 1] \in Seq(S) /\ k \in 0 .. n - 1
      BY <2>2
    <3>2. QED
      BY <1>5, <3>1, ConcatProperties
  <2> HIDE DEF T
  <2>3. \A k \in Nat : k \in T
    BY <2>1, <2>2, Induct
  <2>4. QED
    BY <2>3 DEF T
<1>7. QED
  BY <1>2, <1>5, <1>6

(***************************************************************************)
(* The weights of the bytes of a number.                                   *)
(***************************************************************************)

\* One bit more makes twice as many.
LEMMA Doubles ==
  ASSUME NEW n \in Nat
  PROVE  2 ^ (n + 1) = 2 * 2 ^ n /\ 2 ^ n \in Nat \ {0}
<1> DEFINE A == SUBSET (1 .. n)
           x == n + 1
           B == {s \cup {x} : s \in A}
<1>1. \A m \in Nat : /\ IsFiniteSet(SUBSET (1 .. m)) /\ Cardinality(SUBSET (1 .. m)) = 2 ^ m
                     /\ Cardinality(SUBSET (1 .. m)) \in Nat
  <2>1. ASSUME NEW m \in Nat PROVE IsFiniteSet(1 .. m) /\ Cardinality(1 .. m) = m
    BY FS_Interval
  <2>2. QED
    BY <2>1, FS_SUBSET, FS_CardinalityType
<1>2. IsFiniteSet(A) /\ Cardinality(A) = 2 ^ n /\ Cardinality(A) \in Nat
  BY <1>1
<1>3. SUBSET (1 .. n + 1) = A \cup B
  <2>1. ASSUME NEW s \in SUBSET (1 .. n + 1) PROVE s \in A \cup B
    <3>1. CASE x \in s
      <4>1. \A y \in s \ {x} : y \in 1 .. n
        OBVIOUS
      <4>2. s \ {x} \in A
        BY <4>1
      <4>3. s = (s \ {x}) \cup {x}
        BY <3>1
      <4>4. QED
        BY <4>2, <4>3
    <3>2. CASE x \notin s
      <4>1. \A y \in s : y \in 1 .. n
        BY <3>2
      <4>2. QED
        BY <4>1
    <3>3. QED
      BY <3>1, <3>2
  <2>2. ASSUME NEW s \in A PROVE s \in SUBSET (1 .. n + 1) /\ s \cup {x} \in SUBSET (1 .. n + 1)
    <3>1. \A y \in s \cup {x} : y \in 1 .. n + 1
      OBVIOUS
    <3>2. QED
      BY <3>1
  <2> DEFINE C == SUBSET (1 .. n + 1)
  <2>3. \A t \in B : t \in C
    BY <2>2
  <2>4. \A t \in A : t \in C
    BY <2>2
  <2>5. \A t \in C : t \in A \cup B
    BY <2>1
  <2> HIDE DEF A, B, C
  <2>6. C = A \cup B
    BY <2>3, <2>4, <2>5
  <2>7. QED
    BY <2>6 DEF C
<1>4. A \cap B = {}
  <2>1. \A s \in A : x \notin s
    OBVIOUS
  <2>2. \A s \in B : x \in s
    OBVIOUS
  <2>3. QED
    BY <2>1, <2>2
<1>5. IsFiniteSet(B) /\ Cardinality(B) = Cardinality(A)
  <2> DEFINE f == [s \in A |-> s \cup {x}]
  <2>1. f \in Bijection(A, B)
    <3>1. \A s \in A : x \notin s
      OBVIOUS
    <3>2. ASSUME NEW s \in A, NEW t \in A, f[s] = f[t] PROVE s = t
      <4>1. s \cup {x} = t \cup {x} /\ x \notin s /\ x \notin t
        BY <3>1, <3>2
      <4>2. QED
        BY <4>1
    <3>3. f \in [A -> B] /\ \A t \in B : \E s \in A : f[s] = t
      OBVIOUS
    <3>4. QED
      BY <3>2, <3>3 DEF Bijection, Injection, Surjection, IsInjective
  <2> HIDE DEF A, B, f
  <2>2. ExistsBijection(A, B)
    BY <2>1 DEF ExistsBijection
  <2>3. QED
    BY <1>2, <2>2, FS_Bijection
<1> DEFINE c == Cardinality(SUBSET (1 .. n + 1))
<1> HIDE DEF A, B
<1>6. Cardinality(A \cup B) = Cardinality(A) + Cardinality(B)
  <2>1. Cardinality(A \cup B) = Cardinality(A) + Cardinality(B) - Cardinality(A \cap B)
    BY <1>2, <1>5, FS_Union
  <2>2. Cardinality({}) = 0
    BY FS_EmptySet
  <2>3. Cardinality(A \cap B) = 0
    BY <1>4, <2>2
  <2> DEFINE u == Cardinality(A \cup B)
             i == Cardinality(A \cap B)
             a == Cardinality(A)
             b == Cardinality(B)
  <2>4. u = a + b - i /\ i = 0 /\ a \in Nat /\ b = a
    BY <1>2, <1>5, <2>1, <2>3
  <2> HIDE DEF u, i, a, b
  <2>5. u = a + b
    BY <2>4
  <2>6. QED
    BY <2>5 DEF u, a, b
<1>7. 2 ^ (n + 1) = 2 * 2 ^ n
  <2>1. c = 2 ^ (n + 1)
    BY <1>1
  <2>2. c = Cardinality(A \cup B)
    BY <1>3
  <2>3. c = Cardinality(A) + Cardinality(A)
    BY <1>5, <1>6, <2>2
  <2> HIDE DEF c
  <2>4. QED
    BY <1>2, <2>1, <2>3
<1>8. 2 ^ n # 0
  <2>1. {} \in A
    BY DEF A
  <2>2. Cardinality(A) # 0
    BY <1>2, <2>1, FS_EmptySet
  <2>3. QED
    BY <1>2, <2>2
<1>9. QED
  BY <1>2, <1>7, <1>8

\* The bits of two numbers side by side.
LEMMA PowerAdds ==
  ASSUME NEW m \in Nat, NEW n \in Nat
  PROVE  2 ^ (m + n) = 2 ^ m * 2 ^ n
<1> DEFINE T == {k \in Nat : 2 ^ (m + k) = 2 ^ m * 2 ^ k}
<1>1. 0 \in T
  <2>1. 2 ^ 0 = 1 /\ m + 0 = m /\ 2 ^ m \in Nat
    BY Doubles
  <2>2. QED
    BY <2>1
<1>2. ASSUME NEW k \in Nat, k \in T PROVE k + 1 \in T
  <2>1. 2 ^ (m + k) = 2 ^ m * 2 ^ k
    BY <1>2
  <2>2. 2 ^ ((m + k) + 1) = 2 * 2 ^ (m + k) /\ 2 ^ (k + 1) = 2 * 2 ^ k
    BY Doubles
  <2>3. 2 ^ m \in Nat /\ 2 ^ k \in Nat
    BY Doubles
  <2>4. (m + k) + 1 = m + (k + 1)
    OBVIOUS
  <2>5. \A a \in Nat, b \in Nat : 2 * (a * b) = a * (2 * b)
    OBVIOUS
  <2>6. QED
    BY <2>1, <2>2, <2>3, <2>4, <2>5
<1> HIDE DEF T
<1>3. n \in T
  BY <1>1, <1>2, Induct
<1>4. QED
  BY <1>3 DEF T

\* The weights of the bytes are the powers of Base.
LEMMA PowerIs ==
  /\ Power(0) = 1 /\ Power(1) = Base
  /\ \A k \in Nat : Power(k) \in Nat \ {0} /\ Power(k + 1) = Power(k) * Base
<1>1. ByteBits \in Nat
  BY CodecAssumption
<1>2. ByteBits * 0 = 0 /\ ByteBits * 1 = ByteBits
  BY <1>1
<1>3. Power(0) = 1 /\ Power(1) = Base
  <2>1. 2 ^ 0 = 1
    OBVIOUS
  <2>2. QED
    BY <1>2, <2>1 DEF Power, Base
<1>4. ASSUME NEW k \in Nat PROVE Power(k) \in Nat \ {0} /\ Power(k + 1) = Power(k) * Base
  <2>1. ByteBits * k \in Nat /\ ByteBits * (k + 1) = ByteBits * k + ByteBits
    BY <1>1
  <2>2. 2 ^ (ByteBits * k + ByteBits) = 2 ^ (ByteBits * k) * 2 ^ ByteBits
    BY <1>1, <2>1, PowerAdds
  <2>3. 2 ^ (ByteBits * k) \in Nat \ {0}
    BY <2>1, Doubles
  <2>4. QED
    BY <2>1, <2>2, <2>3 DEF Power, Base
<1>5. QED
  BY <1>3, <1>4

(***************************************************************************)
(* Varints and capsules: what a decoder finds in more bytes than it needs. *)
(***************************************************************************)

VarintValue(first, tail) ==
  LET shift(acc, b) == acc * Base + b IN FoldLeft(shift, first, tail)

VarintLen(s) == 2 ^ (s[1] \div Quarter)

\* What GetVarint answers, field by field.
LEMMA GetVarintIs ==
  ASSUME NEW s
  PROVE  /\ GetVarint(s).ok <=> s # <<>> /\ ~(Len(s) < VarintLen(s))
         /\ GetVarint(s).ok =>
              /\ GetVarint(s).value = VarintValue(s[1] % Quarter, SubSeq(s, 2, VarintLen(s)))
              /\ GetVarint(s).rest = SubSeq(s, VarintLen(s) + 1, Len(s))
<1> DEFINE v == VarintValue(s[1] % Quarter, SubSeq(s, 2, VarintLen(s)))
           r == SubSeq(s, VarintLen(s) + 1, Len(s))
           short == s = <<>> \/ Len(s) < VarintLen(s)
<1>1. GetVarint(s) = IF short THEN None ELSE [ok |-> TRUE, value |-> v, rest |-> r]
  BY DEF GetVarint, VarintValue, VarintLen
<1>2. short <=> ~(s # <<>> /\ ~(Len(s) < VarintLen(s)))
  OBVIOUS
<1> HIDE DEF v, r, short
<1>3. CASE short
  BY <1>1, <1>2, <1>3 DEF None
<1>4. CASE ~short
  <2>1. GetVarint(s).ok /\ GetVarint(s).value = v /\ GetVarint(s).rest = r
    BY <1>1, <1>4
  <2>2. QED
    BY <1>2, <1>4, <2>1 DEF v, r
<1>5. QED
  BY <1>3, <1>4

\* A byte has at least three bits, two of them for the class.
LEMMA BaseIs ==
  /\ Base \in Nat /\ Base >= 8
  /\ Quarter \in Nat /\ Quarter >= 1 /\ 4 * Quarter <= Base
  /\ Byte = 0 .. Base - 1
<1>1. PICK k \in Nat : ByteBits = 3 + k
  <2>1. ByteBits - 3 \in Nat /\ ByteBits = 3 + (ByteBits - 3)
    BY CodecAssumption
  <2>2. QED
    BY <2>1
<1>2. Base = 2 ^ 3 * 2 ^ k /\ 2 ^ k \in Nat \ {0}
  BY <1>1, PowerAdds, Doubles DEF Base
<1>3. 2 ^ 3 = 8
  OBVIOUS
<1>4. Base \in Nat /\ Base >= 8
  BY <1>2, <1>3
<1>5. QED
  BY <1>4 DEF Quarter, Byte

\* The length of a varint is a number.
LEMMA VarintLenIs ==
  ASSUME NEW s \in Bytes, s # <<>>
  PROVE  VarintLen(s) \in Nat
<1>1. s[1] \in Byte
  BY DEF Bytes
<1>2. s[1] \div Quarter \in Nat
  <2>1. \A q \in Nat, b \in Nat : q >= 1 => b \div q \in Nat
    OBVIOUS
  <2>2. QED
    BY <1>1, <2>1, BaseIs
<1>3. QED
  BY <1>2, Doubles DEF VarintLen

\* A suffix of a concatenation that begins in its first part.
LEMMA SubSeqConcat ==
  ASSUME NEW S, NEW s \in Seq(S), NEW t \in Seq(S), NEW m \in 1 .. Len(s) + 1
  PROVE  /\ SubSeq(s \o t, m, Len(s \o t)) = SubSeq(s, m, Len(s)) \o t
         /\ SubSeq(s, m, Len(s)) \in Seq(S)
<1> DEFINE u == SubSeq(s \o t, m, Len(s \o t))
           v == SubSeq(s, m, Len(s))
<1>1. /\ s \o t \in Seq(S) /\ Len(s \o t) = Len(s) + Len(t)
      /\ Len(s) \in Nat /\ Len(t) \in Nat
      /\ \A i \in 1 .. Len(s) + Len(t) :
           (s \o t)[i] = IF i <= Len(s) THEN s[i] ELSE t[i - Len(s)]
  BY ConcatProperties
<1>2. /\ v \in Seq(S) /\ Len(v) = Len(s) - m + 1
      /\ \A i \in 1 .. Len(v) : v[i] = s[m + i - 1]
  <2>1. \A i \in m .. Len(s) : s[i] \in S
    BY <1>1, ElementOfSeq
  <2>2. /\ v \in Seq(S)
        /\ Len(v) = IF m <= Len(s) THEN Len(s) - m + 1 ELSE 0
        /\ \A i \in 1 .. Len(s) - m + 1 : v[i] = s[m + i - 1]
    BY <1>1, <2>1, SubSeqProperties
  <2>3. QED
    BY <1>1, <2>2
<1>3. /\ u \in Seq(S) /\ Len(u) = Len(s) + Len(t) - m + 1
      /\ \A i \in 1 .. Len(u) : u[i] = (s \o t)[m + i - 1]
  <2>1. \A i \in m .. Len(s \o t) : (s \o t)[i] \in S
    BY <1>1, ElementOfSeq
  <2>2. /\ u \in Seq(S)
        /\ Len(u) = IF m <= Len(s \o t) THEN Len(s \o t) - m + 1 ELSE 0
        /\ \A i \in 1 .. Len(s \o t) - m + 1 : u[i] = (s \o t)[m + i - 1]
    BY <1>1, <2>1, SubSeqProperties
  <2> HIDE DEF u, v
  <2>3. Len(u) = Len(s) + Len(t) - m + 1
    BY <1>1, <2>2
  <2>4. QED
    BY <1>1, <2>2, <2>3
<1> HIDE DEF u, v
<1>4. /\ v \o t \in Seq(S) /\ Len(v \o t) = Len(u)
      /\ \A i \in 1 .. Len(v) + Len(t) :
           (v \o t)[i] = IF i <= Len(v) THEN v[i] ELSE t[i - Len(v)]
  <2>1. /\ v \o t \in Seq(S) /\ Len(v \o t) = Len(v) + Len(t)
        /\ \A i \in 1 .. Len(v) + Len(t) :
             (v \o t)[i] = IF i <= Len(v) THEN v[i] ELSE t[i - Len(v)]
    BY <1>2, ConcatProperties
  <2>2. QED
    BY <1>1, <1>2, <1>3, <2>1
<1>5. ASSUME NEW i \in 1 .. Len(u)
      PROVE  u[i] = (v \o t)[i]
  <2>1. i \in Nat /\ Len(u) = Len(v) + Len(t) /\ i \in 1 .. Len(v) + Len(t)
    BY <1>1, <1>2, <1>3
  <2>2. m + i - 1 \in 1 .. Len(s) + Len(t)
    BY <1>1, <1>3
  <2>3. CASE i <= Len(v)
    BY <1>1, <1>2, <1>3, <1>4, <2>1, <2>2, <2>3
  <2>4. CASE i > Len(v)
    <3>1. u[i] = t[m + i - 1 - Len(s)]
      <4>1. u[i] = (s \o t)[m + i - 1]
        BY <1>3
      <4>2. m + i - 1 > Len(s)
        BY <1>1, <1>2, <2>1, <2>4
      <4>3. QED
        BY <1>1, <2>2, <4>1, <4>2
    <3>2. (v \o t)[i] = t[i - Len(v)]
      BY <1>1, <1>2, <1>4, <2>1, <2>4
    <3>3. m + i - 1 - Len(s) = i - Len(v)
      BY <1>1, <1>2, <2>1
    <3>4. QED
      BY <3>1, <3>2, <3>3
  <2>5. QED
    BY <1>1, <1>2, <2>1, <2>3, <2>4
<1>6. u = v \o t
  BY <1>3, <1>4, <1>5, SeqEqual
<1>7. QED
  BY <1>2, <1>6 DEF u, v

\* The varint at the start of some bytes is the same whatever follows them.
LEMMA GetVarintExtends ==
  ASSUME NEW s \in Bytes, NEW t \in Bytes, GetVarint(s).ok
  PROVE  /\ GetVarint(s \o t).ok
         /\ GetVarint(s \o t).value = GetVarint(s).value
         /\ GetVarint(s \o t).rest = GetVarint(s).rest \o t
         /\ GetVarint(s).rest \in Bytes
<1> DEFINE n == VarintLen(s)
<1>1. s # <<>> /\ ~(Len(s) < n)
  BY GetVarintIs
<1>2. n \in Nat /\ n <= Len(s) /\ Len(s) >= 1
  BY <1>1, VarintLenIs DEF Bytes
<1>3. s \o t # <<>> /\ Len(s \o t) = Len(s) + Len(t) /\ (s \o t)[1] = s[1] /\ s \o t \in Bytes
  BY <1>2 DEF Bytes
<1>4. VarintLen(s \o t) = n
  BY <1>3 DEF VarintLen
<1>5. SubSeq(s \o t, 2, n) = SubSeq(s, 2, n)
  BY <1>2 DEF Bytes
<1>6. /\ SubSeq(s \o t, n + 1, Len(s \o t)) = SubSeq(s, n + 1, Len(s)) \o t
      /\ SubSeq(s, n + 1, Len(s)) \in Bytes
  <2>1. n + 1 \in 1 .. Len(s) + 1
    BY <1>2
  <2>2. QED
    BY <2>1, SubSeqConcat DEF Bytes
<1>7. GetVarint(s \o t).ok
  <2>1. ~(Len(s \o t) < n)
    BY <1>2, <1>3 DEF Bytes
  <2>2. QED
    BY <1>3, <1>4, <2>1, GetVarintIs
<1>8. QED
  BY <1>3, <1>4, <1>5, <1>6, <1>7, GetVarintIs

\* f is the fold behind VarintValue, over sets of indices of tail.
Sums(f, first, tail, n) ==
  f = [s \in SUBSET (1 .. n) |->
         IF s = {} THEN first ELSE f[s \ {Max(s)}] * Base + tail[Max(s)]]

\* The fold behind VarintValue is the last of its sums.
LEMMA ValueIs ==
  ASSUME NEW first, NEW tail, NEW n, DOMAIN tail = 1 .. n
  PROVE  VarintValue(first, tail) = (CHOOSE f : Sums(f, first, tail, n))[1 .. n]
BY DEF VarintValue, FoldLeft, MapThenFoldSet, Sums

\* The largest member of a set of indices.
LEMMA MaxIs ==
  ASSUME NEW n \in Nat, NEW s \in SUBSET (0 .. n), s # {}
  PROVE  Max(s) \in s /\ \A x \in s : x <= Max(s)
<1> DEFINE T == {m \in Nat : \A x \in s : x <= m}
<1>1. T # {}
  <2>1. n \in T
    OBVIOUS
  <2>2. QED
    BY <2>1
<1>2. PICK m \in T : \A k \in T : ~(k < m)
  BY <1>1, Least
<1>3. m \in s
  <2> SUFFICES ASSUME m \notin s PROVE FALSE
    OBVIOUS
  <2>1. m \in Nat /\ \A x \in s : x \in Nat /\ x <= m - 1
    BY <1>2
  <2>2. m - 1 \in Nat
    <3>1. PICK x \in s : TRUE
      OBVIOUS
    <3>2. x \in Nat /\ x <= m - 1
      BY <2>1
    <3>3. QED
      BY <2>1, <3>2
  <2>3. m - 1 \in T
    BY <2>1, <2>2
  <2>4. QED
    BY <1>2, <2>1, <2>3
<1>4. \E x \in s : \A y \in s : x >= y
  BY <1>2, <1>3
<1>5. Max(s) = CHOOSE x \in s : \A y \in s : x >= y
  BY DEF Max
<1>6. Max(s) \in s /\ \A y \in s : Max(s) >= y
  BY <1>4, <1>5
<1>7. QED
  BY <1>6

\* A sum, by its set of indices.
LEMMA SumsAt ==
  ASSUME NEW f, NEW first, NEW tail, NEW n, Sums(f, first, tail, n), NEW s \in SUBSET (1 .. n)
  PROVE  f[s] = IF s = {} THEN first ELSE f[s \ {Max(s)}] * Base + tail[Max(s)]
<1> DEFINE B == [r \in SUBSET (1 .. n) |->
                   IF r = {} THEN first ELSE f[r \ {Max(r)}] * Base + tail[Max(r)]]
<1>1. f = B
  BY DEF Sums
<1>2. B[s] = IF s = {} THEN first ELSE f[s \ {Max(s)}] * Base + tail[Max(s)]
  OBVIOUS
<1> HIDE DEF B
<1>3. f[s] = B[s]
  BY <1>1
<1>4. QED
  BY <1>2, <1>3

\* The sums exist for every sequence of bytes.
LEMMA SumsExist ==
  ASSUME NEW first, NEW tail, NEW n \in Nat
  PROVE  \E f : Sums(f, first, tail, n)
<1> DEFINE T == {m \in Nat : \E f : Sums(f, first, tail, m)}
<1>1. 0 \in T
  <2> DEFINE g == [s \in SUBSET (1 .. 0) |-> first]
  <2>1. \A s \in SUBSET (1 .. 0) : s = {}
    OBVIOUS
  <2>2. g = [s \in SUBSET (1 .. 0) |->
              IF s = {} THEN first ELSE g[s \ {Max(s)}] * Base + tail[Max(s)]]
    BY <2>1
  <2>3. Sums(g, first, tail, 0)
    BY <2>2 DEF Sums
  <2>4. QED
    BY <2>3
<1>2. ASSUME NEW m \in Nat, m \in T PROVE m + 1 \in T
  <2>1. PICK f : Sums(f, first, tail, m)
    BY <1>2
  <2> DEFINE g == [s \in SUBSET (1 .. m + 1) |->
                     IF s \in SUBSET (1 .. m) THEN f[s]
                     ELSE f[s \ {Max(s)}] * Base + tail[Max(s)]]
             h == [s \in SUBSET (1 .. m + 1) |->
                     IF s = {} THEN first ELSE g[s \ {Max(s)}] * Base + tail[Max(s)]]
  <2>2. ASSUME NEW s \in SUBSET (1 .. m + 1), s # {}
        PROVE  s \ {Max(s)} \in SUBSET (1 .. m) /\ s \ {Max(s)} \in SUBSET (1 .. m + 1)
    <3>1. m + 1 \in Nat /\ s \in SUBSET (0 .. m + 1)
      OBVIOUS
    <3>2. Max(s) \in s /\ \A x \in s : x <= Max(s)
      BY <2>2, <3>1, MaxIs
    <3> DEFINE x == Max(s)
    <3> HIDE DEF x
    <3>3. x \in s /\ \A y \in s : y <= x
      BY <3>2 DEF x
    <3>4. \A y \in s \ {x} : y \in 1 .. m
      <4>1. \A y \in s : y \in Nat /\ 1 <= y /\ y <= m + 1
        OBVIOUS
      <4>2. QED
        BY <3>3, <4>1
    <3>5. QED
      BY <3>4 DEF x
  <2>3. \A s \in SUBSET (1 .. m) :
          f[s] = IF s = {} THEN first ELSE f[s \ {Max(s)}] * Base + tail[Max(s)]
    BY <2>1, SumsAt
  <2>4. ASSUME NEW s \in SUBSET (1 .. m + 1)
        PROVE  g[s] = IF s = {} THEN first ELSE g[s \ {Max(s)}] * Base + tail[Max(s)]
    <3>1. CASE s = {}
      <4>1. s \in SUBSET (1 .. m)
        BY <3>1
      <4>2. g[s] = f[s]
        BY <4>1
      <4>3. QED
        BY <2>3, <3>1, <4>1, <4>2
    <3>2. CASE s # {}
      <4>1. g[s \ {Max(s)}] = f[s \ {Max(s)}]
        BY <2>2, <3>2
      <4>2. g[s] = f[s \ {Max(s)}] * Base + tail[Max(s)]
        <5>1. CASE s \in SUBSET (1 .. m)
          <6>1. g[s] = f[s]
            BY <5>1
          <6>2. QED
            BY <2>3, <3>2, <5>1, <6>1
        <5>2. CASE s \notin SUBSET (1 .. m)
          BY <5>2
        <5>3. QED
          BY <5>1, <5>2
      <4> HIDE DEF g
      <4>3. QED
        BY <3>2, <4>1, <4>2
    <3>3. QED
      BY <3>1, <3>2
  <2>5. g = h
    BY <2>4
  <2>6. Sums(g, first, tail, m + 1)
    BY <2>5 DEF Sums
  <2>7. QED
    BY <2>6
<1> HIDE DEF T
<1>3. n \in T
  BY <1>1, <1>2, Induct
<1>4. QED
  BY <1>3 DEF T

\* The fold of the first m bytes, one after the other.
LEMMA SumsStep ==
  ASSUME NEW first, NEW tail, NEW n \in Nat, NEW f, Sums(f, first, tail, n)
  PROVE  /\ f[1 .. 0] = first
         /\ \A m \in 0 .. n - 1 : f[1 .. m + 1] = f[1 .. m] * Base + tail[m + 1]
<1>1. \A s \in SUBSET (1 .. n) :
        f[s] = IF s = {} THEN first ELSE f[s \ {Max(s)}] * Base + tail[Max(s)]
  BY SumsAt
<1>2. f[1 .. 0] = first
  <2>1. 1 .. 0 = {} /\ 1 .. 0 \in SUBSET (1 .. n)
    OBVIOUS
  <2>2. QED
    BY <2>1, SumsAt
<1>3. ASSUME NEW m \in 0 .. n - 1
      PROVE  f[1 .. m + 1] = f[1 .. m] * Base + tail[m + 1]
  <2> DEFINE s == 1 .. m + 1
  <2>1. s \in SUBSET (1 .. n) /\ s # {}
    <3>1. \A x \in s : x \in 1 .. n
      OBVIOUS
    <3>2. 1 \in s
      OBVIOUS
    <3>3. QED
      BY <3>1, <3>2
  <2>2. Max(s) \in s /\ \A x \in s : x <= Max(s)
    <3>1. s \in SUBSET (0 .. n)
      BY <2>1
    <3>2. QED
      BY <2>1, <3>1, MaxIs
  <2>3. Max(s) = m + 1
    BY <2>2
  <2>4. s \ {m + 1} = 1 .. m
    OBVIOUS
  <2> HIDE DEF s
  <2>5. f[s] = f[s \ {Max(s)}] * Base + tail[Max(s)]
    <3>1. f[s] = IF s = {} THEN first ELSE f[s \ {Max(s)}] * Base + tail[Max(s)]
      BY <1>1, <2>1, Zenon
    <3>2. QED
      BY <2>1, <3>1, Zenon
  <2>6. f[s] = f[1 .. m] * Base + tail[m + 1]
    BY <2>3, <2>4, <2>5, Zenon
  <2>7. QED
    BY <2>6 DEF s
<1>4. QED
  BY <1>2, <1>3

\* g is the value of a varint byte by byte.
Steps(g, first, tail, n) ==
  /\ g[0] = first /\ VarintValue(first, tail) = g[n]
  /\ \A m \in 0 .. n - 1 : g[m + 1] = g[m] * Base + tail[m + 1]

\* The sums over initial segments are the steps of the fold.
LEMMA StepsOf ==
  ASSUME NEW first, NEW tail, NEW n \in Nat, NEW f, Sums(f, first, tail, n),
         VarintValue(first, tail) = f[1 .. n]
  PROVE  \E g : Steps(g, first, tail, n)
<1> DEFINE g == [m \in 0 .. n |-> f[1 .. m]]
<1>3. /\ f[1 .. 0] = first
      /\ \A m \in 0 .. n - 1 : f[1 .. m + 1] = f[1 .. m] * Base + tail[m + 1]
  BY SumsStep
<1>4. g[0] = first /\ VarintValue(first, tail) = g[n]
  BY <1>3
<1>5. ASSUME NEW m \in 0 .. n - 1 PROVE g[m + 1] = g[m] * Base + tail[m + 1]
  <2>1. g[m + 1] = f[1 .. m + 1] /\ g[m] = f[1 .. m]
    OBVIOUS
  <2> HIDE DEF g
  <2>2. QED
    BY <1>3, <2>1
<1> HIDE DEF g
<1>6. Steps(g, first, tail, n)
  BY <1>4, <1>5 DEF Steps
<1>7. QED
  BY <1>6

\* VarintValue is reached in steps, one for each byte.
LEMMA ValueSteps ==
  ASSUME NEW first, NEW tail, NEW n \in Nat, DOMAIN tail = 1 .. n
  PROVE  \E g : Steps(g, first, tail, n)
<1> DEFINE f == CHOOSE f : Sums(f, first, tail, n)
<1>1. Sums(f, first, tail, n)
  BY SumsExist
<1>2. VarintValue(first, tail) = f[1 .. n]
  BY ValueIs
<1> HIDE DEF f
<1>3. QED
  BY <1>1, <1>2, StepsOf, Zenon

\* The value of a varint is a natural number, however many bytes it has.
LEMMA VarintValueType ==
  ASSUME NEW first \in Nat, NEW tail \in Bytes
  PROVE  VarintValue(first, tail) \in Nat
<1>1. PICK n \in Nat : /\ DOMAIN tail = 1 .. n /\ \A i \in 1 .. n : tail[i] \in Nat
  BY BaseIs DEF Bytes
<1>2. Base \in Nat
  BY BaseIs
<1>3. PICK g : Steps(g, first, tail, n)
  BY <1>1, ValueSteps
<1> DEFINE T == {m \in Nat : m <= n => g[m] \in Nat}
<1>4. 0 \in T
  BY <1>3 DEF Steps
<1>5. ASSUME NEW m \in Nat, m \in T PROVE m + 1 \in T
  <2> SUFFICES ASSUME m + 1 <= n PROVE g[m + 1] \in Nat
    OBVIOUS
  <2>1. g[m] \in Nat /\ tail[m + 1] \in Nat /\ g[m + 1] = g[m] * Base + tail[m + 1]
    BY <1>1, <1>3, <1>5 DEF Steps
  <2>2. \A a \in Nat, b \in Nat, c \in Nat : a * b + c \in Nat
    OBVIOUS
  <2>3. QED
    BY <1>2, <2>1, <2>2
<1> HIDE DEF T
<1>6. n \in T
  BY <1>4, <1>5, Induct
<1>7. QED
  BY <1>3, <1>6 DEF T, Steps

\* What GetVarint finds is a number, and what follows it are bytes.
LEMMA VarintType ==
  ASSUME NEW s \in Bytes, GetVarint(s).ok
  PROVE  GetVarint(s).value \in Nat /\ GetVarint(s).rest \in Bytes
<1> DEFINE n == VarintLen(s)
<1>1. s # <<>> /\ n \in Nat /\ n <= Len(s) /\ Len(s) \in Nat /\ Len(s) >= 1
  <2>1. s # <<>> /\ ~(Len(s) < n)
    BY GetVarintIs
  <2>2. QED
    BY <2>1, VarintLenIs DEF Bytes
<1>2. s[1] % Quarter \in Nat
  <2>1. s[1] \in Nat
    BY <1>1, BaseIs DEF Bytes
  <2>2. \A a \in Nat, b \in Nat : b >= 1 => a % b \in Nat
    OBVIOUS
  <2>3. QED
    BY <2>1, <2>2, BaseIs
<1>3. SubSeq(s, 2, n) \in Bytes
  BY <1>1 DEF Bytes
<1>4. GetVarint(s).rest \in Bytes
  <2>1. <<>> \in Bytes /\ s \o <<>> = s
    BY ConcatEmptySeq DEF Bytes
  <2>2. QED
    BY <2>1, GetVarintExtends
<1>5. QED
  BY <1>2, <1>3, <1>4, GetVarintIs, VarintValueType

\* The length of the first capsule of s, and what its two varints leave.
Length(s) == GetVarint(GetVarint(s).rest).value
AfterLength(s) == GetVarint(GetVarint(s).rest).rest

\* What SplitCapsule answers, field by field.
LEMMA SplitIs ==
  ASSUME NEW s \in Bytes
  PROVE  /\ SplitCapsule(s).ok <=>
              /\ GetVarint(s).ok /\ GetVarint(GetVarint(s).rest).ok
              /\ Len(AfterLength(s)) >= Length(s)
         /\ SplitCapsule(s).ok =>
              /\ SplitCapsule(s).typ = GetVarint(s).value
              /\ SplitCapsule(s).value = SubSeq(AfterLength(s), 1, Length(s))
              /\ SplitCapsule(s).rest =
                   SubSeq(AfterLength(s), Length(s) + 1, Len(AfterLength(s)))
<1> DEFINE t == GetVarint(s)
           l == IF t.ok THEN GetVarint(t.rest) ELSE None
           whole == l.ok /\ (l.ok => Len(l.rest) >= l.value)
           v == SubSeq(l.rest, 1, l.value)
           r == SubSeq(l.rest, l.value + 1, Len(l.rest))
<1>1. SplitCapsule(s) = IF whole THEN [ok |-> TRUE, typ |-> t.value, value |-> v, rest |-> r] ELSE None
  BY DEF SplitCapsule
<1>2. ~None.ok
  BY DEF None
<1>3. whole <=> /\ GetVarint(s).ok /\ GetVarint(GetVarint(s).rest).ok
                /\ Len(AfterLength(s)) >= Length(s)
  BY <1>2 DEF Length, AfterLength
<1>4. whole => /\ v = SubSeq(AfterLength(s), 1, Length(s))
               /\ r = SubSeq(AfterLength(s), Length(s) + 1, Len(AfterLength(s)))
  BY <1>2 DEF Length, AfterLength
<1> HIDE DEF t, l, whole, v, r
<1>5. CASE whole
  <2>1. /\ SplitCapsule(s).ok /\ SplitCapsule(s).typ = t.value
        /\ SplitCapsule(s).value = v /\ SplitCapsule(s).rest = r
    BY <1>1, <1>5
  <2>2. QED
    BY <1>3, <1>4, <1>5, <2>1 DEF t
<1>6. CASE ~whole
  BY <1>1, <1>2, <1>3, <1>6
<1>7. QED
  BY <1>5, <1>6

\* A whole capsule is taken off its stream in the same way whatever follows it: it does
\* not matter how much of the stream has arrived.
LEMMA SplitExtends ==
  ASSUME NEW s \in Bytes, NEW t \in Bytes, SplitCapsule(s).ok
  PROVE  /\ SplitCapsule(s \o t).ok
         /\ SplitCapsule(s \o t).typ = SplitCapsule(s).typ
         /\ SplitCapsule(s \o t).value = SplitCapsule(s).value
         /\ SplitCapsule(s \o t).rest = SplitCapsule(s).rest \o t
         /\ SplitCapsule(s).rest \in Bytes
<1> DEFINE a == AfterLength(s)
           n == Length(s)
           r == GetVarint(s).rest
<1>1. /\ GetVarint(s).ok /\ GetVarint(r).ok /\ Len(a) >= n
  BY SplitIs
<1>2. /\ r \in Bytes /\ a \in Bytes /\ n \in Nat
  <2>1. r \in Bytes
    BY <1>1, VarintType
  <2>2. QED
    BY <1>1, <2>1, VarintType DEF AfterLength, Length
<1>3. s \o t \in Bytes
  BY ConcatProperties DEF Bytes
<1>4. /\ GetVarint(s \o t).ok /\ GetVarint(s \o t).value = GetVarint(s).value
      /\ GetVarint(s \o t).rest = r \o t
  BY <1>1, GetVarintExtends
<1>5. /\ GetVarint(r \o t).ok /\ GetVarint(r \o t).value = n
      /\ GetVarint(r \o t).rest = a \o t
  BY <1>1, <1>2, GetVarintExtends DEF AfterLength, Length
<1>6. AfterLength(s \o t) = a \o t /\ Length(s \o t) = n
  BY <1>4, <1>5 DEF AfterLength, Length
<1> HIDE DEF a, n, r
<1>7. /\ Len(a \o t) = Len(a) + Len(t) /\ Len(a) \in Nat /\ Len(t) \in Nat
  BY <1>2 DEF Bytes
<1>8. SplitCapsule(s \o t).ok
  <2>1. Len(AfterLength(s \o t)) >= Length(s \o t)
    BY <1>1, <1>2, <1>6, <1>7
  <2>2. QED
    BY <1>3, <1>4, <1>5, <2>1, SplitIs
<1>9. SubSeq(a \o t, 1, n) = SubSeq(a, 1, n)
  <2>1. CASE n = 0
    BY <1>2, <2>1, SubSeqEmpty
  <2>2. CASE n # 0
    BY <1>1, <1>2, <1>7, <2>2, SubSeqOfConcat1 DEF Bytes
  <2>3. QED
    BY <2>1, <2>2
<1>10. /\ SubSeq(a \o t, n + 1, Len(a \o t)) = SubSeq(a, n + 1, Len(a)) \o t
       /\ SubSeq(a, n + 1, Len(a)) \in Bytes
  <2>1. n + 1 \in 1 .. Len(a) + 1
    BY <1>1, <1>2, <1>7
  <2>2. QED
    BY <1>2, <2>1, SubSeqConcat DEF Bytes
<1>11. /\ SplitCapsule(s).typ = GetVarint(s).value
       /\ SplitCapsule(s).value = SubSeq(a, 1, n)
       /\ SplitCapsule(s).rest = SubSeq(a, n + 1, Len(a))
  BY SplitIs DEF a, n
<1>12. /\ SplitCapsule(s \o t).typ = GetVarint(s \o t).value
       /\ SplitCapsule(s \o t).value = SubSeq(a \o t, 1, n)
       /\ SplitCapsule(s \o t).rest = SubSeq(a \o t, n + 1, Len(a \o t))
  BY <1>3, <1>6, <1>8, SplitIs
<1>13. QED
  BY <1>4, <1>8, <1>9, <1>10, <1>11, <1>12

(***************************************************************************)
(* Varints: what put_varint writes, get_varint reads.                      *)
(***************************************************************************)

\* Digits of a number from the top: division twice is division by the product.
LEMMA Nest ==
  ASSUME NEW v \in Nat, NEW a \in Nat \ {0}, NEW b \in Nat \ {0}
  PROVE  (v \div a) \div b = v \div (a * b)
<1> DEFINE q == v \div a
           r == v % a
           x == q \div b
           y == q % b
<1>1. q \in Nat /\ r \in 0 .. a - 1 /\ v = a * q + r
  OBVIOUS
<1>2. x \in Nat /\ y \in 0 .. b - 1 /\ q = b * x + y
  BY <1>1
<1> HIDE DEF q, r, x, y
<1>3. v = a * (b * x + y) + r
  BY <1>1, <1>2
<1>4. a * (b * x + y) = (a * b) * x + a * y
  BY <1>2
<1>5. a * y <= a * (b - 1) /\ a * y >= 0
  BY <1>2
<1>6. a * (b - 1) = a * b - a
  OBVIOUS
<1> DEFINE m == a * b
           z == a * y + r
<1>7. m \in Nat /\ m > 0 /\ z \in Nat /\ z < m /\ a * y \in Nat
  BY <1>1, <1>2, <1>5, <1>6
<1>8. v = m * x + z
  BY <1>1, <1>2, <1>3, <1>4
<1> HIDE DEF m, z
<1>9. v \div m = x
  BY <1>2, <1>7, <1>8
<1>10. QED
  BY <1>9 DEF x, q, m

\* The length put_varint chooses fits the value.
LEMMA ClassIs ==
  ASSUME NEW v \in 0 .. VarintLimit - 1
  PROVE  \E n \in Nat \ {0} : /\ n = 2 ^ Class(v) /\ v \div Power(n - 1) \in 0 .. Quarter - 1
                              /\ Class(v) \in 0 .. 3
<1>1. v \in Nat /\ v < Quarter * Power(7)
  <2>1. Quarter \in Nat /\ Power(7) \in Nat
    BY BaseIs, PowerIs
  <2>2. Quarter * Power(7) \in Nat
    BY <2>1
  <2>3. QED
    BY <2>2 DEF VarintLimit
<1>2. ASSUME NEW n \in Nat \ {0}, v < Quarter * Power(n - 1)
      PROVE  v \div Power(n - 1) \in 0 .. Quarter - 1
  <2>1. Power(n - 1) \in Nat \ {0} /\ Quarter \in Nat
    <3>1. n - 1 \in Nat
      OBVIOUS
    <3>2. QED
      BY <3>1, BaseIs, PowerIs
  <2>2. ASSUME NEW p \in Nat \ {0}, NEW q \in Nat, v < q * p PROVE v \div p \in 0 .. q - 1
    <3> DEFINE d == v \div p
               r == v % p
    <3>1. d \in Nat /\ r \in 0 .. p - 1 /\ v = p * d + r
      BY <1>1
    <3> HIDE DEF d, r
    <3>2. ASSUME d >= q PROVE FALSE
      <4>1. p * d >= p * q
        BY <3>1, <3>2
      <4>2. q * p = p * q /\ p * d \in Nat /\ p * q \in Nat
        BY <3>1
      <4>3. QED
        BY <2>2, <3>1, <4>1, <4>2
    <3>3. d < q
      BY <3>1, <3>2
    <3>4. QED
      BY <3>1, <3>3 DEF d
  <2>3. QED
    BY <1>2, <2>1, <2>2
<1>3. Power(0) = 1 /\ Power(1) = Base /\ Quarter \in Nat
  BY BaseIs, PowerIs
<1>4. CASE v < Quarter
  <2>1. Class(v) = 0 /\ 2 ^ 0 = 1 /\ v < Quarter * Power(0)
    BY <1>3, <1>4 DEF Class
  <2>2. v \div Power(1 - 1) \in 0 .. Quarter - 1
    BY <1>2, <2>1
  <2>3. QED
    BY <2>1, <2>2
<1>5. CASE v >= Quarter /\ v < Quarter * Base
  <2>1. Class(v) = 1 /\ 2 ^ 1 = 2 /\ v < Quarter * Power(1)
    BY <1>1, <1>3, <1>5 DEF Class
  <2>2. v \div Power(2 - 1) \in 0 .. Quarter - 1
    BY <1>2, <2>1
  <2>3. QED
    BY <2>1, <2>2
<1> DEFINE b == Quarter * Base
           c == Quarter * Power(3)
<1>6. b \in Nat /\ c \in Nat
  <2>1. Base \in Nat /\ Power(3) \in Nat
    BY BaseIs, PowerIs
  <2>2. QED
    BY <1>3, <2>1
<1>7. Class(v) = IF v < Quarter THEN 0 ELSE IF v < b THEN 1 ELSE IF v < c THEN 2 ELSE 3
  BY DEF Class
<1>8. CASE v >= Quarter /\ v >= b /\ v < c
  <2>1. v < Quarter * Power(3)
    BY <1>8
  <2> HIDE DEF b, c
  <2>2. Class(v) = 2
    BY <1>1, <1>3, <1>6, <1>7, <1>8
  <2>3. 2 ^ 2 = 4
    OBVIOUS
  <2>4. v \div Power(4 - 1) \in 0 .. Quarter - 1
    BY <1>2, <2>1
  <2>5. QED
    BY <2>2, <2>3, <2>4
<1>9. CASE v >= Quarter /\ v >= b /\ v >= c
  <2> HIDE DEF b, c
  <2>2. Class(v) = 3
    BY <1>1, <1>3, <1>6, <1>7, <1>9
  <2>3. 2 ^ 3 = 8
    OBVIOUS
  <2>4. v \div Power(8 - 1) \in 0 .. Quarter - 1
    BY <1>1, <1>2
  <2>5. QED
    BY <2>2, <2>3, <2>4
<1> HIDE DEF c
<1>10. QED
  BY <1>1, <1>3, <1>4, <1>5, <1>6, <1>8, <1>9

\* s is v in n bytes: the class and the top of v first, then the rest byte by byte.
Written(s, v, n) ==
  /\ s \in Bytes /\ n \in Nat \ {0} /\ Len(s) = n /\ VarintLen(s) = n
  /\ s[1] % Quarter = v \div Power(n - 1)
  /\ \A i \in 2 .. n : s[i] = (v \div Power(n - i)) % Base

\* put_varint writes the digits of the value, the class in the first.
LEMMA PutIs ==
  ASSUME NEW v \in 0 .. VarintLimit - 1
  PROVE  \E n : Written(PutVarint(v), v, n)
<1>1. PICK n \in Nat \ {0} : /\ n = 2 ^ Class(v) /\ v \div Power(n - 1) \in 0 .. Quarter - 1
                             /\ Class(v) \in 0 .. 3
  BY ClassIs
<1> DEFINE s == PutVarint(v)
           q == v \div Power(n - 1)
           k == Class(v)
           top == (((v \div Power(n - 1)) % Base) % Quarter) + Class(v) * Quarter
<1>2. s = [i \in 1 .. n |-> IF i = 1 THEN top ELSE (v \div Power(n - i)) % Base]
  BY <1>1 DEF PutVarint, Digits
<1>3. Base \in Nat /\ Quarter \in Nat /\ Quarter >= 1 /\ 4 * Quarter <= Base
  BY BaseIs
<1>4. top = q + k * Quarter /\ q \in 0 .. Quarter - 1 /\ k \in 0 .. 3
  <2>1. q \in 0 .. Quarter - 1 /\ k \in 0 .. 3
    BY <1>1
  <2>2. ASSUME NEW b \in Nat, NEW d \in Nat, d >= 1, 4 * d <= b, NEW c \in 0 .. d - 1
        PROVE  (c % b) % d = c
    BY <2>2
  <2> HIDE DEF q, k
  <2>3. (q % Base) % Quarter = q
    BY <1>3, <2>1, <2>2
  <2>4. QED
    BY <2>1, <2>3 DEF q, k
<1> HIDE DEF q, k, top, s
<1>5. top \in Nat /\ top < Base /\ top \div Quarter = k /\ top % Quarter = q
  <2>1. ASSUME NEW b \in Nat, NEW d \in Nat, d >= 1, 4 * d <= b, NEW c \in 0 .. d - 1,
               NEW m \in 0 .. 3
        PROVE  /\ c + m * d \in Nat /\ c + m * d < b
               /\ (c + m * d) \div d = m /\ (c + m * d) % d = c
    BY <2>1
  <2>2. QED
    BY <1>3, <1>4, <2>1
<1>6. ASSUME NEW i \in 2 .. n PROVE s[i] = (v \div Power(n - i)) % Base /\ s[i] \in Byte
  <2>1. n - i \in Nat /\ i \in 1 .. n /\ i # 1
    BY <1>1
  <2>2. Power(n - i) \in Nat \ {0}
    BY <2>1, PowerIs
  <2>3. v \in Nat
    <3>1. Quarter * Power(7) \in Nat
      BY <1>3, PowerIs
    <3>2. QED
      BY <3>1 DEF VarintLimit
  <2>4. \A a \in Nat, p \in Nat \ {0}, b \in Nat \ {0} : (a \div p) % b \in 0 .. b - 1
    OBVIOUS
  <2>5. (v \div Power(n - i)) % Base \in 0 .. Base - 1
    BY <1>3, <2>2, <2>3, <2>4
  <2>6. QED
    BY <1>2, <2>1, <2>5, BaseIs
<1>7. s[1] = top
  BY <1>1, <1>2
<1>8. s \in Bytes /\ Len(s) = n
  <2>1. \A i \in 1 .. n : s[i] \in Byte
    <3>1. top \in Byte
      BY <1>3, <1>5, BaseIs
    <3>2. QED
      BY <1>6, <1>7, <3>1
  <2>2. s \in [1 .. n -> Byte]
    BY <1>2, <2>1
  <2>3. s \in Seq(Byte)
    BY <1>1, <2>2, SeqDef
  <2>4. DOMAIN s = 1 .. n /\ DOMAIN s = 1 .. Len(s) /\ Len(s) \in Nat
    BY <2>2, <2>3, LenProperties
  <2>5. QED
    BY <1>1, <2>3, <2>4 DEF Bytes
<1>9. VarintLen(s) = n /\ s[1] % Quarter = v \div Power(n - 1)
  BY <1>1, <1>5, <1>7 DEF VarintLen, q, k
<1>10. Written(s, v, n)
  BY <1>1, <1>6, <1>8, <1>9 DEF Written
<1>11. QED
  BY <1>10 DEF s

\* Byte by byte the value comes back.
LEMMA ValueBack ==
  ASSUME NEW v \in Nat, NEW n \in Nat, NEW tail, NEW g,
         Steps(g, v \div Power(n), tail, n),
         \A i \in 1 .. n : tail[i] = (v \div Power(n - i)) % Base
  PROVE  VarintValue(v \div Power(n), tail) = v
<1> DEFINE T == {m \in Nat : m <= n => g[m] = v \div Power(n - m)}
<1>1. 0 \in T
  BY DEF Steps
<1>2. ASSUME NEW m \in Nat, m \in T PROVE m + 1 \in T
  <2> SUFFICES ASSUME m + 1 <= n PROVE g[m + 1] = v \div Power(n - (m + 1))
    OBVIOUS
  <2> DEFINE j == n - (m + 1)
             x == v \div Power(j)
  <2>1. j \in Nat /\ n - m = j + 1
    OBVIOUS
  <2>2. Power(j) \in Nat \ {0} /\ Base \in Nat \ {0} /\ Power(j + 1) = Power(j) * Base
    BY <2>1, PowerIs, BaseIs
  <2>3. v \div Power(n - m) = x \div Base
    BY <2>1, <2>2, Nest
  <2>4. g[m] = v \div Power(n - m)
    BY <1>2
  <2>5. g[m + 1] = g[m] * Base + tail[m + 1]
    BY DEF Steps
  <2>6. tail[m + 1] = x % Base
    OBVIOUS
  <2>7. x \in Nat
    <3>1. \A p \in Nat \ {0} : v \div p \in Nat
      OBVIOUS
    <3>2. QED
      BY <2>2, <3>1
  <2> HIDE DEF x
  <2>8. \A b \in Nat \ {0} : (x \div b) * b + (x % b) = x
    BY <2>7
  <2>9. QED
    BY <2>2, <2>3, <2>4, <2>5, <2>6, <2>8 DEF x
<1> HIDE DEF T
<1>3. n \in T
  BY <1>1, <1>2, Induct
<1>4. g[n] = v \div Power(0)
  BY <1>3 DEF T
<1>5. QED
  BY <1>4, PowerIs DEF Steps

\* For every value below 2^62, in each of the four lengths, and any bytes after it:
\* get_varint reads what put_varint wrote, and leaves what follows (capsule.rs:333-356).
THEOREM VarintRoundTrip ==
  ASSUME NEW v \in 0 .. VarintLimit - 1, NEW t \in Bytes
  PROVE  /\ PutVarint(v) \in Bytes /\ PutVarint(v) # <<>>
         /\ GetVarint(PutVarint(v) \o t).ok
         /\ GetVarint(PutVarint(v) \o t).value = v
         /\ GetVarint(PutVarint(v) \o t).rest = t
<1> DEFINE s == PutVarint(v)
<1>1. PICK n : Written(s, v, n)
  BY PutIs
<1> HIDE DEF s
<1>2. s \in Bytes /\ n \in Nat \ {0} /\ Len(s) = n /\ VarintLen(s) = n /\ s # <<>>
  BY <1>1 DEF Written, Bytes
<1>3. v \in Nat
  <2>1. Quarter \in Nat /\ Power(7) \in Nat
    BY BaseIs, PowerIs
  <2>2. Quarter * Power(7) \in Nat
    BY <2>1
  <2>3. QED
    BY <2>2 DEF VarintLimit
<1>4. GetVarint(s).ok
  BY <1>2, GetVarintIs
<1>5. GetVarint(s).rest = <<>>
  <2>1. GetVarint(s).rest = SubSeq(s, n + 1, n)
    BY <1>2, <1>4, GetVarintIs
  <2>2. QED
    BY <1>2, <2>1 DEF Bytes
<1> DEFINE tail == SubSeq(s, 2, n)
<1>6. GetVarint(s).value = VarintValue(v \div Power(n - 1), tail)
  BY <1>1, <1>2, <1>4, GetVarintIs DEF Written
<1>7. PICK m \in Nat : m = n - 1
  BY <1>2
<1>8. DOMAIN tail = 1 .. m /\ \A i \in 1 .. m : tail[i] = (v \div Power(m - i)) % Base
  <2>1. DOMAIN tail = 1 .. m /\ \A i \in 1 .. m : tail[i] = s[i + 1]
    BY <1>2, <1>7 DEF Bytes
  <2>2. ASSUME NEW i \in 1 .. m PROVE s[i + 1] = (v \div Power(m - i)) % Base
    <3>1. i + 1 \in 2 .. n /\ n - (i + 1) = m - i
      BY <1>2, <1>7
    <3>2. QED
      BY <1>1, <3>1 DEF Written
  <2>3. QED
    BY <2>1, <2>2
<1> HIDE DEF tail
<1>9. PICK g : Steps(g, v \div Power(m), tail, m)
  BY <1>8, ValueSteps
<1>10. VarintValue(v \div Power(m), tail) = v
  BY <1>3, <1>8, <1>9, ValueBack
<1>11. GetVarint(s).value = v
  BY <1>6, <1>7, <1>10
<1>12. <<>> \o t = t
  BY ConcatEmptySeq DEF Bytes
<1>13. /\ GetVarint(s \o t).ok /\ GetVarint(s \o t).value = v
       /\ GetVarint(s \o t).rest = t
  <2>1. /\ GetVarint(s \o t).ok
        /\ GetVarint(s \o t).value = GetVarint(s).value
        /\ GetVarint(s \o t).rest = GetVarint(s).rest \o t
    BY <1>2, <1>4, GetVarintExtends
  <2>2. QED
    BY <1>5, <1>11, <1>12, <2>1, Zenon
<1>14. QED
  BY <1>2, <1>13 DEF s

(***************************************************************************)
(* Values: a decoder takes one item after the other off the bytes.         *)
(***************************************************************************)
\* One step of a decoder f that takes items as first says.
Item(first, f, s) ==
  IF s = <<>> THEN [ok |-> TRUE, items |-> <<>>]
  ELSE LET more == IF first[s].ok THEN f[first[s].rest] ELSE None
       IN IF more.ok THEN [ok |-> TRUE, items |-> <<first[s].item>> \o more.items] ELSE None

Decoder(f, first, D) == f = [s \in D |-> Item(first, f, s)]

\* An item takes at least one byte.
Shrinks(first) ==
  \A s \in Bytes : s # <<>> /\ first[s].ok =>
    first[s].rest \in Bytes /\ Len(first[s].rest) < Len(s)

Shorter(n) == {s \in Bytes : Len(s) < n}

\* A decoder, at some bytes.
LEMMA DecoderAt ==
  ASSUME NEW f, NEW first, NEW D, Decoder(f, first, D), NEW s \in D
  PROVE  f[s] = Item(first, f, s)
<1> DEFINE B == [r \in D |-> Item(first, f, r)]
<1>1. f = B
  BY DEF Decoder
<1>2. B[s] = Item(first, f, s)
  OBVIOUS
<1> HIDE DEF B
<1>3. QED
  BY <1>1, <1>2

\* What a decoder makes of some bytes depends on shorter ones only.
LEMMA ItemSame ==
  ASSUME NEW first, NEW f, NEW g, NEW s,
         s # <<>> /\ first[s].ok => f[first[s].rest] = g[first[s].rest]
  PROVE  Item(first, f, s) = Item(first, g, s)
BY DEF Item

\* Two decoders of one kind agree where both are defined.
LEMMA DecodersAgree ==
  ASSUME NEW first, Shrinks(first), NEW n \in Nat, NEW m \in Nat, n <= m, NEW f, NEW g,
         Decoder(f, first, Shorter(n)), Decoder(g, first, Shorter(m))
  PROVE  \A s \in Shorter(n) : f[s] = g[s]
<1> DEFINE T == {k \in Nat : k <= n => \A s \in Shorter(k) : f[s] = g[s]}
<1>1. 0 \in T
  <2>1. \A s \in Shorter(0) : FALSE
    BY DEF Shorter, Bytes
  <2>2. QED
    BY <2>1
<1>2. ASSUME NEW k \in Nat, k \in T PROVE k + 1 \in T
  <2> SUFFICES ASSUME k + 1 <= n, NEW s \in Shorter(k + 1) PROVE f[s] = g[s]
    OBVIOUS
  <2>1. s \in Bytes /\ Len(s) \in Nat /\ Len(s) <= k
    BY DEF Shorter, Bytes
  <2>2. s \in Shorter(n) /\ s \in Shorter(m)
    BY <2>1 DEF Shorter
  <2>3. f[s] = Item(first, f, s) /\ g[s] = Item(first, g, s)
    BY <2>2, DecoderAt
  <2>4. ASSUME s # <<>>, first[s].ok PROVE f[first[s].rest] = g[first[s].rest]
    <3>1. first[s].rest \in Bytes /\ Len(first[s].rest) < Len(s)
      BY <2>1, <2>4 DEF Shrinks
    <3>2. first[s].rest \in Shorter(k)
      <4>1. Len(first[s].rest) \in Nat
        BY <3>1 DEF Bytes
      <4>2. QED
        BY <2>1, <3>1, <4>1 DEF Shorter
    <3>3. QED
      BY <1>2, <3>2
  <2>5. Item(first, f, s) = Item(first, g, s)
    BY <2>4, ItemSame
  <2>6. QED
    BY <2>3, <2>5
<1> HIDE DEF T
<1>3. n \in T
  BY <1>1, <1>2, Induct
<1>4. QED
  BY <1>3 DEF T

\* There is a decoder for the bytes up to every length.
LEMMA ShortDecoderExists ==
  ASSUME NEW first, Shrinks(first), NEW n \in Nat
  PROVE  \E f : Decoder(f, first, Shorter(n))
<1> DEFINE T == {k \in Nat : \E f : Decoder(f, first, Shorter(k))}
<1>1. 0 \in T
  <2> DEFINE g == [s \in Shorter(0) |-> None]
             h == [s \in Shorter(0) |-> Item(first, g, s)]
  <2>1. \A s \in Shorter(0) : FALSE
    BY DEF Shorter, Bytes
  <2>2. g = h
    BY <2>1
  <2> HIDE DEF g
  <2>3. Decoder(g, first, Shorter(0))
    BY <2>2 DEF Decoder
  <2>4. QED
    BY <2>3
<1>2. ASSUME NEW k \in Nat, k \in T PROVE k + 1 \in T
  <2>1. PICK f : Decoder(f, first, Shorter(k))
    BY <1>2
  <2> DEFINE D == Shorter(k + 1)
             g == [s \in D |-> Item(first, f, s)]
             h == [s \in D |-> Item(first, g, s)]
  <2>2. \A s \in D : g[s] = Item(first, f, s)
    OBVIOUS
  <2>3. \A s \in D : h[s] = Item(first, g, s)
    OBVIOUS
  <2>4. g = [s \in D |-> g[s]] /\ h = [s \in D |-> h[s]]
    OBVIOUS
  <2> HIDE DEF g, h
  <2>5. ASSUME NEW s \in D PROVE g[s] = h[s]
    <3>1. s \in Bytes /\ Len(s) \in Nat /\ Len(s) <= k
      BY DEF Shorter, Bytes
    <3>2. ASSUME s # <<>>, first[s].ok PROVE f[first[s].rest] = g[first[s].rest]
      <4>1. first[s].rest \in Bytes /\ Len(first[s].rest) < Len(s)
        BY <3>1, <3>2 DEF Shrinks
      <4>2. Len(first[s].rest) \in Nat
        BY <4>1 DEF Bytes
      <4>3. first[s].rest \in Shorter(k) /\ first[s].rest \in D
        BY <3>1, <4>1, <4>2 DEF Shorter
      <4>4. QED
        BY <2>1, <2>2, <4>3, DecoderAt
    <3>3. Item(first, f, s) = Item(first, g, s)
      BY <3>2, ItemSame
    <3>4. QED
      BY <2>2, <2>3, <3>3
  <2>6. g = h
    BY <2>4, <2>5
  <2>7. Decoder(g, first, Shorter(k + 1))
    BY <2>6 DEF Decoder, h
  <2>8. QED
    BY <2>7
<1> HIDE DEF T
<1>3. n \in T
  BY <1>1, <1>2, Induct
<1>4. QED
  BY <1>3 DEF T

\* There is a decoder for all bytes: the recursion of the code ends.
LEMMA DecoderExists ==
  ASSUME NEW first, Shrinks(first)
  PROVE  \E f : Decoder(f, first, Bytes)
<1> DEFINE G(n) == CHOOSE f : Decoder(f, first, Shorter(n))
           g == [s \in Bytes |-> G(Len(s) + 1)[s]]
           h == [s \in Bytes |-> Item(first, g, s)]
<1>1. \A n \in Nat : Decoder(G(n), first, Shorter(n))
  BY ShortDecoderExists
<1>2. \A s \in Bytes : g[s] = G(Len(s) + 1)[s] /\ h[s] = Item(first, g, s)
  OBVIOUS
<1>3. g = [s \in Bytes |-> g[s]] /\ h = [s \in Bytes |-> h[s]]
  OBVIOUS
<1> HIDE DEF G, g, h
<1>4. ASSUME NEW s \in Bytes PROVE g[s] = h[s]
  <2>1. Len(s) \in Nat
    BY DEF Bytes
  <2>2. PICK n \in Nat : n = Len(s) + 1
    BY <2>1
  <2>3. s \in Shorter(n)
    BY <2>1, <2>2 DEF Shorter
  <2>4. g[s] = Item(first, G(n), s)
    BY <1>1, <1>2, <2>2, <2>3, DecoderAt
  <2>5. ASSUME s # <<>>, first[s].ok PROVE G(n)[first[s].rest] = g[first[s].rest]
    <3> DEFINE r == first[s].rest
    <3>1. r \in Bytes /\ Len(r) < Len(s)
      BY <2>5 DEF Shrinks
    <3> HIDE DEF r
    <3>2. Len(r) \in Nat
      BY <3>1 DEF Bytes
    <3>3. PICK m \in Nat : m = Len(r) + 1
      BY <3>2
    <3>4. r \in Shorter(m) /\ m <= n
      BY <2>1, <2>2, <3>1, <3>2, <3>3 DEF Shorter
    <3>5. G(m)[r] = G(n)[r]
      BY <1>1, <3>4, DecodersAgree
    <3>6. g[r] = G(m)[r]
      BY <1>2, <3>1, <3>3
    <3>7. QED
      BY <3>5, <3>6 DEF r
  <2>6. Item(first, G(n), s) = Item(first, g, s)
    BY <2>5, ItemSame
  <2>7. QED
    BY <1>2, <2>4, <2>6
<1>5. g = h
  BY <1>3, <1>4
<1>6. Decoder(g, first, Bytes)
  BY <1>5 DEF Decoder, h
<1>7. QED
  BY <1>6

\* Reads(first, e, w): first takes item e off the bytes w, and leaves what follows.
Reads(first, e, w) ==
  \A t \in Bytes : /\ w \o t \in Bytes /\ w \o t # <<>>
                   /\ first[w \o t].ok /\ first[w \o t].item = e /\ first[w \o t].rest = t

Whole(items) == [ok |-> TRUE, items |-> items]

\* An item written before the others is decoded before them.
LEMMA ItemFirst ==
  ASSUME NEW first, NEW f, Decoder(f, first, Bytes), NEW e, NEW w, Reads(first, e, w),
         NEW t \in Bytes, NEW items, f[t] = Whole(items)
  PROVE  f[w \o t] = Whole(<<e>> \o items)
<1> DEFINE s == w \o t
<1>1. s \in Bytes /\ s # <<>> /\ first[s].ok /\ first[s].item = e /\ first[s].rest = t
  BY DEF Reads
<1> HIDE DEF s
<1>2. f[s] = Item(first, f, s)
  BY <1>1, DecoderAt
<1>3. f[first[s].rest] = Whole(items)
  BY <1>1
<1>4. f[first[s].rest].ok /\ f[first[s].rest].items = items
  BY <1>3 DEF Whole
<1>5. Item(first, f, s) = [ok |-> TRUE, items |-> <<first[s].item>> \o f[first[s].rest].items]
  BY <1>1, <1>4 DEF Item
<1>6. f[s] = Whole(<<e>> \o items)
  BY <1>1, <1>2, <1>4, <1>5 DEF Whole
<1>7. QED
  BY <1>6 DEF s

\* Concatenation of bytes is associative.
LEMMA BytesAssociative ==
  ASSUME NEW a \in Bytes, NEW b \in Bytes, NEW c \in Bytes
  PROVE  (a \o b) \o c = a \o (b \o c)
BY ConcatAssociative DEF Bytes

\* A restricted sequence grows by one element at a time.
LEMMA RestrictedIs ==
  ASSUME NEW S, NEW w, NEW n \in Nat, \A i \in 1 .. n : w[i] \in S
  PROVE  /\ Restricted(w, 0) = <<>>
         /\ \A k \in 0 .. n : Restricted(w, k) \in Seq(S)
         /\ \A k \in 0 .. n - 1 : Restricted(w, k + 1) = Restricted(w, k) \o <<w[k + 1]>>
<1>1. Restricted(w, 0) = <<>>
  BY DEF Restricted
<1>2. ASSUME NEW k \in 0 .. n PROVE Restricted(w, k) \in Seq(S) /\ Len(Restricted(w, k)) = k
  <2>1. \A i \in 1 .. k : w[i] \in S
    OBVIOUS
  <2>2. k \in Nat
    OBVIOUS
  <2>3. QED
    BY <2>1, <2>2 DEF Restricted
<1>3. ASSUME NEW k \in 0 .. n - 1
      PROVE  Restricted(w, k + 1) = Restricted(w, k) \o <<w[k + 1]>>
  <2> DEFINE a == Restricted(w, k)
             b == Restricted(w, k) \o <<w[k + 1]>>
             c == Restricted(w, k + 1)
  <2>1. k \in Nat /\ k \in 0 .. n /\ k + 1 \in 0 .. n /\ w[k + 1] \in S
    OBVIOUS
  <2>2. a \in Seq(S) /\ Len(a) = k /\ c \in Seq(S) /\ Len(c) = k + 1
    BY <1>2, <2>1
  <2>3. /\ \A i \in 1 .. k : a[i] = w[i]
        /\ \A i \in 1 .. k + 1 : c[i] = w[i]
    BY DEF Restricted
  <2> HIDE DEF a, c
  <2>4. b \in Seq(S) /\ Len(b) = k + 1 /\ \A i \in 1 .. k + 1 : b[i] = w[i]
    <3>1. b = a \o <<w[k + 1]>>
      BY DEF a
    <3>2. <<w[k + 1]>> \in Seq(S)
      BY <2>1
    <3> HIDE DEF b
    <3>3. QED
      BY <2>1, <2>2, <2>3, <3>1, <3>2
  <2> HIDE DEF b
  <2>5. c = b
    BY <2>2, <2>3, <2>4, SeqEqual
  <2>6. QED
    BY <2>5 DEF b, c
<1>4. QED
  BY <1>1, <1>2, <1>3

\* Items written one after the other are decoded in their order.
LEMMA ItemsRead ==
  ASSUME NEW first, NEW f, Decoder(f, first, Bytes), NEW n \in Nat, NEW items, NEW w,
         \A i \in 1 .. n : w[i] \in Bytes /\ Reads(first, items[i], w[i])
  PROVE  /\ FlattenSeq(Restricted(w, n)) \in Bytes
         /\ f[FlattenSeq(Restricted(w, n))] = Whole(Restricted(items, n))
<1> DEFINE W == [k \in 0 .. n |-> FlattenSeq(Restricted(w, k))]
           R == [k \in 0 .. n |-> Restricted(items, k)]
           S == {items[i] : i \in 1 .. n}
           T == {k \in Nat : k <= n => \A t \in Bytes, x \in Seq(S) :
                   f[t] = Whole(x) => f[W[k] \o t] = Whole(R[k] \o x)}
<1>1. /\ W[0] = <<>> /\ \A k \in 0 .. n : W[k] \in Seq(Byte)
      /\ \A k \in 0 .. n - 1 : W[k + 1] = W[k] \o w[k + 1]
  <2>1. \A i \in 1 .. n : w[i] \in Seq(Byte)
    BY DEF Bytes
  <2>2. /\ FlattenSeq(Restricted(w, 0)) = <<>>
        /\ \A k \in 0 .. n : FlattenSeq(Restricted(w, k)) \in Seq(Byte)
        /\ \A k \in 0 .. n - 1 :
             FlattenSeq(Restricted(w, k + 1)) = FlattenSeq(Restricted(w, k)) \o w[k + 1]
    BY <2>1, FlattenStep
  <2>3. \A k \in 0 .. n : W[k] = FlattenSeq(Restricted(w, k))
    OBVIOUS
  <2> HIDE DEF W
  <2>4. \A k \in 0 .. n - 1 : k \in 0 .. n /\ k + 1 \in 0 .. n
    OBVIOUS
  <2>5. 0 \in 0 .. n
    OBVIOUS
  <2>6. QED
    BY <2>2, <2>3, <2>4, <2>5
<1>2. /\ R[0] = <<>> /\ \A k \in 0 .. n : R[k] \in Seq(S)
      /\ \A k \in 0 .. n - 1 : R[k + 1] = R[k] \o <<items[k + 1]>>
  <2>1. \A i \in 1 .. n : items[i] \in S
    OBVIOUS
  <2> HIDE DEF S
  <2>2. /\ Restricted(items, 0) = <<>>
        /\ \A k \in 0 .. n : Restricted(items, k) \in Seq(S)
        /\ \A k \in 0 .. n - 1 :
             Restricted(items, k + 1) = Restricted(items, k) \o <<items[k + 1]>>
    BY <2>1, RestrictedIs, Zenon
  <2>3. \A k \in 0 .. n : R[k] = Restricted(items, k)
    OBVIOUS
  <2> HIDE DEF R
  <2>4. \A k \in 0 .. n - 1 : k \in 0 .. n /\ k + 1 \in 0 .. n
    OBVIOUS
  <2>5. 0 \in 0 .. n
    OBVIOUS
  <2>6. QED
    BY <2>2, <2>3, <2>4, <2>5
<1>3. W[n] = FlattenSeq(Restricted(w, n)) /\ R[n] = Restricted(items, n)
  <2>1. n \in 0 .. n
    OBVIOUS
  <2>2. QED
    BY <2>1
<1> HIDE DEF W, R
<1>4. 0 \in T
  <2> SUFFICES ASSUME NEW t \in Bytes, NEW x \in Seq(S), f[t] = Whole(x)
               PROVE  f[W[0] \o t] = Whole(R[0] \o x)
    OBVIOUS
  <2>1. <<>> \o t = t /\ <<>> \o x = x
    BY ConcatEmptySeq DEF Bytes
  <2>2. QED
    BY <1>1, <1>2, <2>1
<1>5. ASSUME NEW k \in Nat, k \in T PROVE k + 1 \in T
  <2> SUFFICES ASSUME k + 1 <= n, NEW t \in Bytes, NEW x \in Seq(S), f[t] = Whole(x)
               PROVE  f[W[k + 1] \o t] = Whole(R[k + 1] \o x)
    OBVIOUS
  <2> DEFINE u == w[k + 1]
             e == items[k + 1]
             a == W[k]
             b == R[k]
             y == u \o t
             z == <<e>> \o x
  <2>1. k \in 0 .. n - 1 /\ k \in 0 .. n /\ k + 1 \in 1 .. n /\ k <= n
    OBVIOUS
  <2>2. u \in Bytes /\ Reads(first, e, u) /\ e \in S
    BY <2>1
  <2>3. \A t_1 \in Bytes, x_1 \in Seq(S) : f[t_1] = Whole(x_1) => f[a \o t_1] = Whole(b \o x_1)
    BY <1>5, <2>1
  <2>4. /\ a \in Seq(Byte) /\ W[k + 1] = a \o u
        /\ b \in Seq(S) /\ R[k + 1] = b \o <<e>>
    BY <1>1, <1>2, <2>1
  <2> HIDE DEF u, e, a, b, S
  <2>5. y \in Bytes
    BY <2>2 DEF Reads
  <2>6. z \in Seq(S) /\ <<e>> \in Seq(S)
    BY <2>2
  <2>7. f[y] = Whole(z)
    BY <2>2, ItemFirst
  <2>8. W[k + 1] \o t = a \o y
    <3>1. u \in Seq(Byte) /\ t \in Seq(Byte)
      BY <2>2 DEF Bytes
    <3> HIDE DEF y
    <3>2. (a \o u) \o t = a \o (u \o t)
      BY <2>2, <2>4, BytesAssociative DEF Bytes
    <3>3. QED
      BY <2>4, <3>2, Zenon DEF y
  <2>9. R[k + 1] \o x = b \o z
    <3> HIDE DEF z
    <3>1. (b \o <<e>>) \o x = b \o (<<e>> \o x)
      BY <2>4, <2>6, ConcatAssociative
    <3>2. QED
      BY <2>4, <3>1, Zenon DEF z
  <2> HIDE DEF y, z
  <2>10. f[a \o y] = Whole(b \o z)
    BY <2>3, <2>5, <2>6, <2>7, Zenon
  <2>11. QED
    BY <2>8, <2>9, <2>10, Zenon
<1> HIDE DEF T
<1>6. n \in T
  BY <1>4, <1>5, Induct
<1>7. <<>> \in Bytes /\ f[<<>>] = Whole(<<>>)
  <2>1. <<>> \in Bytes
    BY DEF Bytes
  <2>2. f[<<>>] = Item(first, f, <<>>)
    BY <2>1, DecoderAt
  <2>3. QED
    BY <2>1, <2>2 DEF Item, Whole
<1>8. f[W[n] \o <<>>] = Whole(R[n] \o <<>>)
  <2>1. <<>> \in Seq(S)
    OBVIOUS
  <2>2. \A t \in Bytes, x \in Seq(S) : f[t] = Whole(x) => f[W[n] \o t] = Whole(R[n] \o x)
    BY <1>6 DEF T
  <2>3. QED
    BY <1>7, <2>1, <2>2, Zenon
<1>9. W[n] \o <<>> = W[n] /\ R[n] \o <<>> = R[n] /\ W[n] \in Seq(Byte)
  <2>1. W[n] \in Seq(Byte) /\ R[n] \in Seq(S)
    BY <1>1, <1>2
  <2>2. QED
    BY <2>1, ConcatEmptySeq
<1>10. QED
  BY <1>3, <1>8, <1>9 DEF Bytes

\* Entries and ranges are decoded by the same recursion.
EntryFirst == [s \in Bytes |-> FirstEntry(s)]
RangeFirst == [s \in Bytes |-> FirstRange(s)]

\* decode_address_value is such a decoder.
LEMMA EntriesDecoder ==
  ASSUME Shrinks(EntryFirst)
  PROVE  Decoder(DecodeEntries, EntryFirst, Bytes)
<1> DEFINE B(f) == [s \in Bytes |->
             IF s = <<>> THEN [ok |-> TRUE, items |-> <<>>]
             ELSE LET first == FirstEntry(s)
                      more == IF first.ok THEN f[first.rest] ELSE None
                  IN IF more.ok THEN [ok |-> TRUE, items |-> <<first.item>> \o more.items]
                                ELSE None]
<1>1. ASSUME NEW f PROVE B(f) = [s \in Bytes |-> Item(EntryFirst, f, s)]
  BY DEF Item, EntryFirst
<1>2. DecodeEntries = CHOOSE f : f = B(f)
  BY DEF DecodeEntries
<1> HIDE DEF B
<1>3. \E f : f = B(f)
  BY <1>1, DecoderExists DEF Decoder
<1>4. DecodeEntries = B(DecodeEntries)
  BY <1>2, <1>3
<1>5. QED
  BY <1>1, <1>4 DEF Decoder

\* decode_route_value is such a decoder.
LEMMA RangesDecoder ==
  ASSUME Shrinks(RangeFirst)
  PROVE  Decoder(DecodeRanges, RangeFirst, Bytes)
<1> DEFINE B(f) == [s \in Bytes |->
             IF s = <<>> THEN [ok |-> TRUE, items |-> <<>>]
             ELSE LET first == FirstRange(s)
                      more == IF first.ok THEN f[first.rest] ELSE None
                  IN IF more.ok THEN [ok |-> TRUE, items |-> <<first.item>> \o more.items]
                                ELSE None]
<1>1. ASSUME NEW f PROVE B(f) = [s \in Bytes |-> Item(RangeFirst, f, s)]
  BY DEF Item, RangeFirst
<1>2. DecodeRanges = CHOOSE f : f = B(f)
  BY DEF DecodeRanges
<1> HIDE DEF B
<1>3. \E f : f = B(f)
  BY <1>1, DecoderExists DEF Decoder
<1>4. DecodeRanges = B(DecodeRanges)
  BY <1>2, <1>3
<1>5. QED
  BY <1>1, <1>4 DEF Decoder

(***************************************************************************)
(* Entries and ranges: each is read back, whatever follows it.             *)
(***************************************************************************)

\* A suffix of some bytes.
LEMMA Suffix ==
  ASSUME NEW s \in Bytes, NEW m \in Nat \ {0}, m <= Len(s) + 1
  PROVE  SubSeq(s, m, Len(s)) \in Bytes /\ Len(SubSeq(s, m, Len(s))) = Len(s) - m + 1
<1>1. Len(s) \in Nat /\ m \in 1 .. Len(s) + 1
  BY DEF Bytes
<1>2. \A i \in m .. Len(s) : s[i] \in Byte
  BY <1>1 DEF Bytes
<1>3. QED
  BY <1>1, <1>2, SubSeqProperties DEF Bytes

\* The length of an address by its version, 0 for another version.
AddrSize(version) == IF version \in {4, 6} THEN AddrLen[version] ELSE 0

\* A version has an address length exactly if it is 4 or 6.
LEMMA AddrSizeIs ==
  ASSUME NEW version
  PROVE  AddrSize(version) \in Nat /\ (version \in {4, 6} <=> AddrSize(version) > 0)
BY CodecAssumption DEF AddrSize

EntryVersion(s) ==
  IF GetVarint(s).ok /\ GetVarint(s).rest # <<>> THEN GetVarint(s).rest[1] ELSE 0

EntryAt(id, r, n) ==
  [ok |-> TRUE,
   item |-> [id |-> id, version |-> r[1], addr |-> SubSeq(r, 2, n + 1), prefix |-> r[n + 2]],
   rest |-> SubSeq(r, n + 3, Len(r))]

\* FirstEntry by its parts.
LEMMA FirstEntryIs ==
  ASSUME NEW s, NEW r, r = GetVarint(s).rest, NEW n, n = AddrSize(EntryVersion(s))
  PROVE  FirstEntry(s) =
           IF n > 0 /\ Len(r) >= n + 2 /\ r[n + 2] <= n * ByteBits
           THEN EntryAt(GetVarint(s).value, r, n)
           ELSE None
<1>1. FirstEntry(s) =
        IF n > 0 /\ Len(r) >= n + 2 /\ r[n + 2] <= n * ByteBits
        THEN [EntryAt(GetVarint(s).value, r, n) EXCEPT !.item.version = EntryVersion(s)]
        ELSE None
  BY DEF FirstEntry, EntryVersion, AddrSize, EntryAt
<1>2. n > 0 => EntryVersion(s) = r[1]
  BY AddrSizeIs DEF AddrSize, EntryVersion
<1>3. QED
  BY <1>1, <1>2 DEF EntryAt

\* An entry takes at least one byte.
LEMMA EntryShrinks == Shrinks(EntryFirst)
<1> SUFFICES ASSUME NEW s \in Bytes, s # <<>>, FirstEntry(s).ok
             PROVE  FirstEntry(s).rest \in Bytes /\ Len(FirstEntry(s).rest) < Len(s)
  BY DEF Shrinks, EntryFirst
<1> DEFINE r == GetVarint(s).rest
           n == AddrSize(EntryVersion(s))
<1>1. n > 0 /\ Len(r) >= n + 2 /\ FirstEntry(s).rest = SubSeq(r, n + 3, Len(r))
  BY FirstEntryIs DEF None, EntryAt
<1>2. n \in Nat /\ EntryVersion(s) \in {4, 6}
  BY <1>1, AddrSizeIs
<1>3. GetVarint(s).ok
  BY <1>2 DEF EntryVersion
<1>4. r \in Bytes /\ Len(r) <= Len(s)
  <2> DEFINE k == VarintLen(s)
  <2>1. r = SubSeq(s, k + 1, Len(s)) /\ ~(Len(s) < k)
    BY <1>3, GetVarintIs
  <2>2. k \in Nat /\ Len(s) \in Nat
    BY VarintLenIs DEF Bytes
  <2> HIDE DEF k
  <2>3. k + 1 \in Nat \ {0} /\ k + 1 <= Len(s) + 1
    BY <2>1, <2>2
  <2>4. r \in Bytes /\ Len(r) = Len(s) - (k + 1) + 1
    BY <2>1, <2>3, Suffix
  <2>5. QED
    BY <2>2, <2>4
<1> HIDE DEF r, n
<1>5. Len(r) \in Nat /\ Len(s) \in Nat
  BY <1>4 DEF Bytes
<1>6. SubSeq(r, n + 3, Len(r)) \in Bytes /\ Len(SubSeq(r, n + 3, Len(r))) = Len(r) - (n + 3) + 1
  <2>1. n + 3 \in Nat \ {0} /\ n + 3 <= Len(r) + 1
    BY <1>1, <1>2, <1>5
  <2>2. QED
    BY <1>4, <2>1, Suffix
<1>7. QED
  BY <1>1, <1>2, <1>4, <1>5, <1>6

RangeAt(s, n) ==
  [ok |-> TRUE,
   item |-> [version |-> s[1], start |-> SubSeq(s, 2, n + 1),
             end |-> SubSeq(s, n + 2, 2 * n + 1), proto |-> s[2 * n + 2]],
   rest |-> SubSeq(s, 2 * n + 3, Len(s))]

\* FirstRange by its parts.
LEMMA FirstRangeIs ==
  ASSUME NEW s, NEW n, n = AddrSize(s[1])
  PROVE  FirstRange(s) =
           IF /\ n > 0 /\ Len(s) >= 2 * n + 2
              /\ Number(SubSeq(s, 2, n + 1)) <= Number(SubSeq(s, n + 2, 2 * n + 1))
           THEN RangeAt(s, n) ELSE None
BY DEF FirstRange, AddrSize, RangeAt

\* A range takes at least one byte.
LEMMA RangeShrinks == Shrinks(RangeFirst)
<1> SUFFICES ASSUME NEW s \in Bytes, s # <<>>, FirstRange(s).ok
             PROVE  FirstRange(s).rest \in Bytes /\ Len(FirstRange(s).rest) < Len(s)
  BY DEF Shrinks, RangeFirst
<1> DEFINE n == AddrSize(s[1])
<1>1. n > 0 /\ Len(s) >= 2 * n + 2 /\ FirstRange(s).rest = SubSeq(s, 2 * n + 3, Len(s))
  BY FirstRangeIs DEF None, RangeAt
<1>2. n \in Nat /\ Len(s) \in Nat
  BY AddrSizeIs DEF Bytes
<1> HIDE DEF n
<1>3. 2 * n + 3 \in Nat \ {0} /\ 2 * n + 3 <= Len(s) + 1
  BY <1>1, <1>2
<1>4. /\ SubSeq(s, 2 * n + 3, Len(s)) \in Bytes
      /\ Len(SubSeq(s, 2 * n + 3, Len(s))) = Len(s) - (2 * n + 3) + 1
  BY <1>3, Suffix
<1>5. QED
  BY <1>1, <1>2, <1>4

\* The middle of three sequences.
LEMMA Middle ==
  ASSUME NEW S, NEW a \in Seq(S), NEW b \in Seq(S), NEW t \in Seq(S), b # <<>>
  PROVE  SubSeq((a \o b) \o t, Len(a) + 1, Len(a) + Len(b)) = b
<1>1. /\ a \o b \in Seq(S) /\ Len(a \o b) = Len(a) + Len(b)
      /\ Len(a) \in Nat /\ Len(b) \in Nat /\ Len(b) > 0
  BY ConcatProperties, EmptySeq
<1>2. SubSeq((a \o b) \o t, Len(a) + 1, Len(a) + Len(b)) =
        SubSeq(a \o b, Len(a) + 1, Len(a) + Len(b))
  <2>1. Len(a) + 1 \in 1 .. Len(a \o b) /\ Len(a) + Len(b) \in 1 .. Len(a \o b)
    BY <1>1
  <2>2. QED
    BY <1>1, <2>1, SubSeqOfConcat1
<1>3. SubSeq(a \o b, Len(a) + 1, Len(a) + Len(b)) = SubSeq(b, 1, Len(b))
  <2>1. /\ Len(a) + 1 \in Len(a) + 1 .. Len(a) + Len(b)
        /\ Len(a) + Len(b) \in Len(a) + 1 .. Len(a) + Len(b)
        /\ Len(a) + 1 - Len(a) = 1 /\ Len(a) + Len(b) - Len(a) = Len(b)
    BY <1>1
  <2>2. SubSeq(a \o b, Len(a) + 1, Len(a) + Len(b)) =
          SubSeq(b, Len(a) + 1 - Len(a), Len(a) + Len(b) - Len(a))
    BY <2>1, SubSeqOfConcat2
  <2>3. QED
    BY <2>1, <2>2
<1>4. QED
  BY <1>2, <1>3, SubSeqFull


\* Bytes after bytes.
LEMMA BytesConcat ==
  ASSUME NEW a \in Bytes, NEW b \in Bytes
  PROVE  a \o b \in Bytes /\ Len(a \o b) = Len(a) + Len(b) /\ Len(a) \in Nat /\ Len(b) \in Nat
BY ConcatProperties DEF Bytes

\* A sequence of one byte.
LEMMA OneByte ==
  ASSUME NEW x \in Byte
  PROVE  <<x>> \in Bytes /\ Len(<<x>>) = 1 /\ <<x>>[1] = x /\ <<x>> # <<>>
BY DEF Bytes

\* Where the last two parts of a concatenation are found again.
LEMMA Found ==
  ASSUME NEW a \in Bytes, NEW b \in Bytes, NEW t \in Bytes, b # <<>>
  PROVE  /\ (a \o b) \o t \in Bytes
         /\ Len((a \o b) \o t) = Len(a) + Len(b) + Len(t)
         /\ SubSeq((a \o b) \o t, Len(a) + 1, Len(a) + Len(b)) = b
         /\ SubSeq((a \o b) \o t, Len(a) + Len(b) + 1, Len((a \o b) \o t)) = t
         /\ ((a \o b) \o t)[Len(a) + 1] = b[1]
<1> DEFINE d == a \o b
           u == d \o t
<1>1. a \in Seq(Byte) /\ b \in Seq(Byte) /\ t \in Seq(Byte)
  BY DEF Bytes
<1>2. /\ d \in Seq(Byte) /\ Len(d) = Len(a) + Len(b)
      /\ \A i \in 1 .. Len(a) + Len(b) : d[i] = IF i <= Len(a) THEN a[i] ELSE b[i - Len(a)]
  BY <1>1, ConcatProperties
<1>3. Len(a) \in Nat /\ Len(b) \in Nat \ {0} /\ Len(t) \in Nat
  BY <1>1, EmptySeq
<1>4. SubSeq(d \o t, Len(a) + 1, Len(a) + Len(b)) = b
  BY <1>1, Middle
<1> HIDE DEF d, u
<1>5. /\ u \in Seq(Byte) /\ Len(u) = Len(d) + Len(t)
      /\ \A i \in 1 .. Len(d) + Len(t) : u[i] = IF i <= Len(d) THEN d[i] ELSE t[i - Len(d)]
  <2>1. /\ d \o t \in Seq(Byte) /\ Len(d \o t) = Len(d) + Len(t)
        /\ \A i \in 1 .. Len(d) + Len(t) :
             (d \o t)[i] = IF i <= Len(d) THEN d[i] ELSE t[i - Len(d)]
    <3>1. d \in Seq(Byte) /\ t \in Seq(Byte)
      BY <1>1, <1>2
    <3>2. QED
      BY ONLY <3>1, ConcatProperties
  <2>2. QED
    BY <2>1, Zenon DEF u
<1>6. SubSeq(u, Len(d) + 1, Len(u)) = t
  <2>1. Len(d) + 1 \in 1 .. Len(d) + 1
    BY <1>2, <1>3
  <2>2. SubSeq(d \o t, Len(d) + 1, Len(d \o t)) = SubSeq(d, Len(d) + 1, Len(d)) \o t
    BY <1>1, <1>2, <2>1, SubSeqConcat
  <2>3. SubSeq(d, Len(d) + 1, Len(d)) = <<>>
    BY <1>2, <1>3
  <2>4. <<>> \o t = t
    BY <1>1, ConcatEmptySeq
  <2>5. QED
    BY <2>2, <2>3, <2>4, Zenon DEF u
<1>7. u[Len(a) + 1] = b[1]
  <2>1. /\ Len(a) + 1 \in 1 .. Len(d) + Len(t) /\ Len(a) + 1 <= Len(d)
        /\ Len(a) + 1 \in 1 .. Len(a) + Len(b) /\ ~(Len(a) + 1 <= Len(a))
        /\ Len(a) + 1 - Len(a) = 1
    BY <1>2, <1>3
  <2> DEFINE i == Len(a) + 1
  <2> HIDE DEF i
  <2>2. u[i] = d[i]
    BY <1>5, <2>1 DEF i
  <2>3. d[i] = b[i - Len(a)]
    BY <1>2, <2>1 DEF i
  <2>4. QED
    BY <2>1, <2>2, <2>3 DEF i
<1>8. u \in Seq(Byte) /\ Len(u) = Len(a) + Len(b) + Len(t)
  BY <1>2, <1>3, <1>5
<1>9. SubSeq(u, Len(a) + Len(b) + 1, Len(u)) = t
  BY <1>2, <1>6
<1>10. SubSeq(u, Len(a) + 1, Len(a) + Len(b)) = b /\ u \in Bytes
  BY <1>4, <1>8 DEF u, Bytes
<1>11. QED
  BY <1>7, <1>8, <1>9, <1>10, Zenon DEF d, u

\* An entry as bytes, and what follows its ID with t after it.
EntryBytes(p, a, b, c) == ((p \o a) \o b) \o c
AfterId(a, b, c, t) == ((a \o b) \o c) \o t

Follows(u, a, b, c, t) ==
  /\ u \in Bytes /\ Len(u) = Len(b) + 2 + Len(t)
  /\ u[1] = a[1] /\ u[Len(b) + 2] = c[1]
  /\ SubSeq(u, 2, Len(b) + 1) = b /\ SubSeq(u, Len(b) + 3, Len(u)) = t

\* The parts of what follows the ID.
LEMMA EntryParts ==
  ASSUME NEW a \in Bytes, NEW b \in Bytes, NEW c \in Bytes, NEW t \in Bytes,
         Len(a) = 1, Len(c) = 1, b # <<>>
  PROVE  Follows(AfterId(a, b, c, t), a, b, c, t)
<1> DEFINE d == a \o b
           e == c \o t
           f == b \o e
           u == (d \o c) \o t
<1>1. d \in Bytes /\ Len(d) = Len(b) + 1 /\ Len(b) \in Nat
  <2>1. a \o b \in Bytes /\ Len(a \o b) = Len(a) + Len(b) /\ Len(a) \in Nat /\ Len(b) \in Nat
    BY BytesConcat, Zenon
  <2>2. QED
    BY <2>1
<1>2. e \in Bytes /\ Len(t) \in Nat
  BY BytesConcat
<1>3. a # <<>> /\ c # <<>>
  OBVIOUS
<1>4. u = d \o e
  <2> HIDE DEF d
  <2>1. (d \o c) \o t = d \o (c \o t)
    BY <1>1, BytesAssociative, Zenon
  <2>2. QED
    BY <2>1
<1>5. <<>> \in Bytes /\ <<>> \o a = a /\ Len(<<>>) = 0
  BY ConcatEmptySeq DEF Bytes
<1>6. u = (<<>> \o a) \o f
  <2> HIDE DEF e, u
  <2>1. (a \o b) \o e = a \o (b \o e)
    BY <1>2, BytesAssociative, Zenon
  <2>2. QED
    BY <1>4, <1>5, <2>1, Zenon
<1>7. f \in Bytes
  <2> HIDE DEF e
  <2>1. QED
    BY <1>2, BytesConcat, Zenon
<1>8. /\ u \in Bytes /\ Len(u) = Len(d) + Len(c) + Len(t)
      /\ SubSeq(u, Len(d) + Len(c) + 1, Len(u)) = t
      /\ u[Len(d) + 1] = c[1]
  <2> HIDE DEF d
  <2>1. /\ (d \o c) \o t \in Bytes
        /\ Len((d \o c) \o t) = Len(d) + Len(c) + Len(t)
        /\ SubSeq((d \o c) \o t, Len(d) + Len(c) + 1, Len((d \o c) \o t)) = t
        /\ ((d \o c) \o t)[Len(d) + 1] = c[1]
    <3>1. d \in Bytes /\ c \in Bytes /\ t \in Bytes /\ c # <<>>
      BY <1>1, <1>3
    <3>2. (d \o c) \o t \in Bytes
      BY ONLY <3>1, Found
    <3>3. Len((d \o c) \o t) = Len(d) + Len(c) + Len(t)
      BY ONLY <3>1, Found
    <3>4. SubSeq((d \o c) \o t, Len(d) + Len(c) + 1, Len((d \o c) \o t)) = t
      BY ONLY <3>1, Found
    <3>5. ((d \o c) \o t)[Len(d) + 1] = c[1]
      BY ONLY <3>1, Found
    <3>6. QED
      BY <3>2, <3>3, <3>4, <3>5, Zenon
  <2>2. QED
    BY <2>1, Zenon
<1>9. SubSeq(u, Len(a) + 1, Len(a) + Len(b)) = b
  <2> HIDE DEF e, u
  <2>1. SubSeq((a \o b) \o e, Len(a) + 1, Len(a) + Len(b)) = b
    <3>1. a \in Bytes /\ b \in Bytes /\ e \in Bytes /\ b # <<>>
      BY <1>2
    <3>2. QED
      BY ONLY <3>1, Found
  <2>2. QED
    BY <1>4, <2>1, Zenon
<1>10. u[1] = a[1]
  <2> DEFINE z == <<>>
  <2>1. z \in Bytes /\ Len(z) + 1 = 1 /\ u = (z \o a) \o f
    BY <1>5, <1>6
  <2> HIDE DEF z, f, u
  <2>2. ((z \o a) \o f)[Len(z) + 1] = a[1]
    BY <1>3, <1>7, <2>1, Found, Zenon
  <2>3. QED
    BY <2>1, <2>2, Zenon
<1> HIDE DEF u, d
<1>11. /\ u \in Bytes /\ Len(u) = Len(b) + 2 + Len(t)
       /\ u[1] = a[1] /\ u[Len(b) + 2] = c[1]
       /\ SubSeq(u, 2, Len(b) + 1) = b /\ SubSeq(u, Len(b) + 3, Len(u)) = t
  <2>1. /\ Len(d) + Len(c) + 1 = Len(b) + 3 /\ Len(d) + 1 = Len(b) + 2
        /\ Len(d) + Len(c) + Len(t) = Len(b) + 2 + Len(t)
        /\ Len(a) + 1 = 2 /\ Len(a) + Len(b) = Len(b) + 1
    BY <1>1, <1>2
  <2>2. QED
    BY <1>8, <1>9, <1>10, <2>1, Zenon
<1>12. QED
  BY <1>11, Zenon DEF u, d, AfterId, Follows

\* An entry the server may encode: an ID that fits a varint, an address and a prefix of
\* its version.
EntryFits(e) ==
  /\ e = [id |-> e.id, version |-> e.version, addr |-> e.addr, prefix |-> e.prefix]
  /\ e.id \in 0 .. VarintLimit - 1
  /\ e.version \in {4, 6}
  /\ e.addr \in Bytes /\ Len(e.addr) = AddrLen[e.version]
  /\ e.prefix \in Byte /\ e.prefix <= Len(e.addr) * ByteBits

\* Four parts before some more bytes.
LEMMA FourParts ==
  ASSUME NEW p \in Bytes, NEW a \in Bytes, NEW b \in Bytes, NEW c \in Bytes, NEW t \in Bytes
  PROVE  /\ EntryBytes(p, a, b, c) \in Bytes
         /\ EntryBytes(p, a, b, c) \o t = p \o AfterId(a, b, c, t)
<1> DEFINE x == a \o b
           y == x \o c
           z == y \o t
<1>1. x \in Bytes /\ (p \o a) \o b = p \o x
  <2>1. a \o b \in Bytes
    BY BytesConcat
  <2>2. (p \o a) \o b = p \o (a \o b)
    BY BytesAssociative
  <2>3. QED
    BY <2>1, <2>2
<1> HIDE DEF x
<1>2. y \in Bytes /\ (p \o x) \o c = p \o y
  <2>1. x \in Bytes
    BY <1>1
  <2>2. x \o c \in Bytes
    BY ONLY <2>1, c \in Bytes, BytesConcat
  <2>3. (p \o x) \o c = p \o (x \o c)
    BY ONLY <2>1, p \in Bytes, c \in Bytes, BytesAssociative
  <2>4. QED
    BY <2>2, <2>3
<1> HIDE DEF y
<1>3. (p \o y) \o t = p \o z /\ p \o y \in Bytes
  <2>1. y \in Bytes
    BY <1>2
  <2>2. p \o y \in Bytes
    BY ONLY <2>1, p \in Bytes, BytesConcat
  <2>3. (p \o y) \o t = p \o (y \o t)
    BY ONLY <2>1, p \in Bytes, t \in Bytes, BytesAssociative
  <2>4. QED
    BY <2>2, <2>3
<1> HIDE DEF z
<1>4. ((p \o a) \o b) \o c = p \o y
  BY <1>1, <1>2, Zenon
<1>5. z = ((a \o b) \o c) \o t
  BY Zenon DEF x, y, z
<1>6. QED
  BY <1>3, <1>4, <1>5, Zenon DEF EntryBytes, AfterId

\* An entry that respects the limits is read back, whatever follows it.
LEMMA EntryReads ==
  ASSUME NEW e, EntryFits(e)
  PROVE  EncodeEntry(e) \in Bytes /\ Reads(EntryFirst, e, EncodeEntry(e))
<1> DEFINE p == PutVarint(e.id)
           a == <<e.version>>
           b == e.addr
           c == <<e.prefix>>
           n == Len(e.addr)
           w == EncodeEntry(e)
<1>1. e.version \in {4, 6} /\ e.version \in Byte /\ e.prefix \in Byte
  BY BaseIs DEF EntryFits
<1>2. a \in Bytes /\ c \in Bytes /\ Len(a) = 1 /\ Len(c) = 1 /\ a[1] = e.version /\ c[1] = e.prefix
  BY <1>1, OneByte
<1>3. b \in Bytes /\ n \in Nat /\ n > 0 /\ n = AddrSize(e.version) /\ b # <<>>
  <2>1. b \in Bytes /\ n = AddrLen[e.version]
    BY DEF EntryFits
  <2>2. n = AddrSize(e.version)
    BY <1>1, <2>1 DEF AddrSize
  <2>3. n > 0 /\ n \in Nat
    BY <1>1, <2>2, AddrSizeIs
  <2>4. QED
    BY <2>1, <2>2, <2>3
<1>4. e.id \in 0 .. VarintLimit - 1
  BY DEF EntryFits
<1>5. p \in Bytes
  <2>1. <<>> \in Bytes
    BY DEF Bytes
  <2>2. QED
    BY <1>4, <2>1, VarintRoundTrip
<1>6. w = EntryBytes(p, a, b, c)
  BY DEF EncodeEntry, EntryBytes
<1> HIDE DEF p, a, b, c, w
<1>7. w \in Bytes
  BY <1>2, <1>3, <1>5, <1>6, FourParts
<1>8. ASSUME NEW t \in Bytes
      PROVE  /\ w \o t \in Bytes /\ w \o t # <<>>
             /\ EntryFirst[w \o t].ok /\ EntryFirst[w \o t].item = e
             /\ EntryFirst[w \o t].rest = t
  <2> DEFINE r == AfterId(a, b, c, t)
             s == w \o t
  <2>1. /\ r \in Bytes /\ Len(r) = Len(b) + 2 + Len(t)
        /\ r[1] = a[1] /\ r[Len(b) + 2] = c[1]
        /\ SubSeq(r, 2, Len(b) + 1) = b /\ SubSeq(r, Len(b) + 3, Len(r)) = t
    <3>1. /\ a \in Bytes /\ b \in Bytes /\ c \in Bytes /\ t \in Bytes
          /\ Len(a) = 1 /\ Len(c) = 1 /\ b # <<>>
      BY <1>2, <1>3
    <3>2. Follows(AfterId(a, b, c, t), a, b, c, t)
      BY ONLY <3>1, EntryParts
    <3>3. QED
      BY <3>2, Zenon DEF Follows, r
  <2>2. s = p \o r
    <3>1. p \in Bytes /\ a \in Bytes /\ b \in Bytes /\ c \in Bytes /\ t \in Bytes
      BY <1>2, <1>3, <1>5
    <3>2. EntryBytes(p, a, b, c) \o t = p \o AfterId(a, b, c, t)
      BY ONLY <3>1, FourParts
    <3>3. QED
      BY <1>6, <3>2, Zenon
  <2>3. Len(b) = n /\ Len(t) \in Nat
    BY DEF b, Bytes
  <2> HIDE DEF r, s, n
  <2>4. s \in Bytes /\ s # <<>>
    <3>1. s \in Bytes /\ Len(s) = Len(p) + Len(r) /\ Len(p) \in Nat
      BY <1>5, <2>1, <2>2, BytesConcat, Zenon
    <3>2. Len(s) > 0
      BY <1>3, <2>1, <2>3, <3>1
    <3>3. QED
      BY <3>1, <3>2
  <2>5. GetVarint(s).ok /\ GetVarint(s).value = e.id /\ GetVarint(s).rest = r
    BY <1>4, <2>1, <2>2, VarintRoundTrip, Zenon DEF p
  <2>6. r # <<>> /\ Len(r) >= n + 2
    BY <1>3, <2>1, <2>3
  <2>7. EntryVersion(s) = e.version
    BY <1>2, <2>1, <2>5, <2>6 DEF EntryVersion
  <2>8. r[n + 2] = e.prefix /\ r[1] = e.version /\ e.prefix <= n * ByteBits
    BY <1>2, <2>1, <2>3 DEF EntryFits, n
  <2>9. FirstEntry(s) = EntryAt(e.id, r, n)
    <3>1. FirstEntry(s) =
           IF n > 0 /\ Len(r) >= n + 2 /\ r[n + 2] <= n * ByteBits
           THEN EntryAt(GetVarint(s).value, r, n)
           ELSE None
      BY <1>3, <2>5, <2>7, FirstEntryIs
    <3>2. QED
      BY <1>3, <2>5, <2>6, <2>8, <3>1
  <2>10. SubSeq(r, 2, n + 1) = e.addr /\ SubSeq(r, n + 3, Len(r)) = t
    BY <2>1, <2>3 DEF b
  <2>11. /\ EntryAt(e.id, r, n).ok /\ EntryAt(e.id, r, n).item = e
         /\ EntryAt(e.id, r, n).rest = t
    BY <2>8, <2>10 DEF EntryAt, EntryFits
  <2>12. EntryFirst[s] = FirstEntry(s)
    BY <2>4 DEF EntryFirst
  <2>13. QED
    BY <2>4, <2>9, <2>11, <2>12, Zenon DEF s
<1>9. QED
  BY <1>7, <1>8 DEF Reads, w

\* All entries are decoded again.
LEMMA EntriesBack ==
  ASSUME NEW n \in Nat, NEW entries, entries = [i \in 1 .. n |-> entries[i]],
         \A i \in 1 .. n : EntryFits(entries[i])
  PROVE  /\ EncodeEntries(entries) \in Bytes
         /\ DecodeEntries[EncodeEntries(entries)] = Whole(entries)
<1> DEFINE w == [i \in 1 .. n |-> EncodeEntry(entries[i])]
<1>1. Decoder(DecodeEntries, EntryFirst, Bytes)
  BY EntryShrinks, EntriesDecoder
<1>2. \A i \in 1 .. n : w[i] \in Bytes /\ Reads(EntryFirst, entries[i], w[i])
  BY EntryReads
<1>3. Restricted(w, n) = w /\ Restricted(entries, n) = entries
  BY DEF Restricted
<1>4. EncodeEntries(entries) = FlattenSeq(w)
  <2>1. DOMAIN entries = 1 .. n
    OBVIOUS
  <2>2. QED
    BY <2>1 DEF EncodeEntries
<1> HIDE DEF w
<1>5. /\ FlattenSeq(Restricted(w, n)) \in Bytes
      /\ DecodeEntries[FlattenSeq(Restricted(w, n))] = Whole(Restricted(entries, n))
  BY <1>1, <1>2, ItemsRead
<1>6. QED
  BY <1>3, <1>4, <1>5, Zenon

\* A range as bytes, and its parts.
RangeBytes(a, b, d, c) == ((a \o b) \o d) \o c
RangeParts(u, a, b, d, c, t) ==
  /\ u \in Bytes /\ Len(u) = Len(b) + Len(d) + 2 + Len(t)
  /\ u[1] = a[1] /\ u[Len(b) + Len(d) + 2] = c[1]
  /\ SubSeq(u, 2, Len(b) + 1) = b
  /\ SubSeq(u, Len(b) + 2, Len(b) + Len(d) + 1) = d
  /\ SubSeq(u, Len(b) + Len(d) + 3, Len(u)) = t

\* Where the parts of a range are found again.
LEMMA RangePartsIs ==
  ASSUME NEW a \in Bytes, NEW b \in Bytes, NEW d \in Bytes, NEW c \in Bytes, NEW t \in Bytes,
         Len(a) = 1, Len(c) = 1, b # <<>>, d # <<>>
  PROVE  /\ RangeBytes(a, b, d, c) \in Bytes
         /\ RangeParts(RangeBytes(a, b, d, c) \o t, a, b, d, c, t)
<1> DEFINE x == b \o d
           y == a \o b
           z == y \o d
           f == c \o t
           g == d \o f
           u == RangeBytes(a, b, d, c) \o t
<1>1. x \in Bytes /\ Len(x) = Len(b) + Len(d) /\ Len(b) \in Nat /\ Len(d) \in Nat
  BY BytesConcat
<1>2. y \in Bytes /\ Len(y) = Len(b) + 1
  <2>1. a \o b \in Bytes /\ Len(a \o b) = Len(a) + Len(b) /\ Len(b) \in Nat
    BY BytesConcat
  <2>2. QED
    BY <2>1
<1>3. f \in Bytes
  BY BytesConcat
<1>4. z = a \o x /\ z \in Bytes
  <2>1. (a \o b) \o d = a \o (b \o d)
    BY BytesAssociative
  <2> HIDE DEF y
  <2>2. y \o d \in Bytes
    BY <1>2, BytesConcat
  <2>3. QED
    BY <2>1, <2>2 DEF y
<1>5. Len(b) # 0 /\ Len(d) # 0 /\ x # <<>>
  <2>1. Len(b) # 0 /\ Len(d) # 0
    BY EmptySeq DEF Bytes
  <2> HIDE DEF x
  <2>2. Len(x) # 0
    BY <1>1, <2>1
  <2>3. QED
    BY <2>1, <2>2
<1>6. RangeBytes(a, b, d, c) = z \o c
  BY DEF RangeBytes
<1>7. u = AfterId(a, x, c, t)
  <2> HIDE DEF x, z
  <2>1. u = (z \o c) \o t
    BY <1>6
  <2>2. QED
    BY <1>4, <2>1, Zenon DEF AfterId
<1>8. u = z \o f
  <2> HIDE DEF z
  <2>1. (z \o c) \o t = z \o (c \o t)
    BY <1>4, BytesAssociative, Zenon
  <2>2. QED
    BY <1>6, <2>1
<1>9. RangeBytes(a, b, d, c) \in Bytes
  <2> HIDE DEF z
  <2>1. z \o c \in Bytes
    BY <1>4, BytesConcat
  <2>2. QED
    BY <1>6, <2>1
<1>10. g \in Bytes
  <2> HIDE DEF f
  <2>1. QED
    BY <1>3, BytesConcat
<1>11. u = y \o g
  <2> HIDE DEF y, f
  <2>1. (y \o d) \o f = y \o (d \o f)
    BY <1>2, <1>3, BytesAssociative, Zenon
  <2>2. QED
    BY <1>8, <2>1
<1>12. Follows(u, a, x, c, t)
  <2> HIDE DEF x, u
  <2>1. Follows(AfterId(a, x, c, t), a, x, c, t)
    BY <1>1, <1>5, EntryParts
  <2>2. QED
    BY <1>7, <2>1
<1>13. SubSeq(u, Len(a) + 1, Len(a) + Len(b)) = b
  <2> HIDE DEF g, u
  <2>1. SubSeq((a \o b) \o g, Len(a) + 1, Len(a) + Len(b)) = b
    <3>1. a \in Bytes /\ b \in Bytes /\ g \in Bytes /\ b # <<>>
      BY <1>10
    <3>2. QED
      BY ONLY <3>1, Found
  <2>2. QED
    BY <1>11, <2>1, Zenon DEF y
<1>14. SubSeq(u, Len(y) + 1, Len(y) + Len(d)) = d
  <2> HIDE DEF f, u, y
  <2>1. SubSeq((y \o d) \o f, Len(y) + 1, Len(y) + Len(d)) = d
    <3>1. y \in Bytes /\ d \in Bytes /\ f \in Bytes /\ d # <<>>
      BY <1>2, <1>3
    <3>2. QED
      BY ONLY <3>1, Found
  <2>2. QED
    BY <1>8, <2>1, Zenon DEF z
<1> HIDE DEF u, x, y
<1>15. /\ Len(a) + 1 = 2 /\ Len(a) + Len(b) = Len(b) + 1
       /\ Len(y) + 1 = Len(b) + 2 /\ Len(y) + Len(d) = Len(b) + Len(d) + 1
       /\ Len(x) + 2 = Len(b) + Len(d) + 2
       /\ Len(x) + 3 = Len(b) + Len(d) + 3
       /\ Len(x) + 2 + Len(t) = Len(b) + Len(d) + 2 + Len(t)
  BY <1>1, <1>2 DEF Bytes
<1>16. RangeParts(u, a, b, d, c, t)
  BY <1>12, <1>13, <1>14, <1>15, Zenon DEF Follows, RangeParts
<1>17. QED
  BY <1>9, <1>16, Zenon DEF u

\* An address as a number is read like a varint.
LEMMA NumberIs ==
  ASSUME NEW a
  PROVE  Number(a) = VarintValue(0, a)
BY DEF Number, VarintValue

\* The address of zeros is 0.
LEMMA ZeroIs ==
  ASSUME NEW n \in Nat
  PROVE  Number([i \in 1 .. n |-> 0]) = 0
<1> DEFINE a == [i \in 1 .. n |-> 0]
<1>1. DOMAIN a = 1 .. n
  OBVIOUS
<1>2. \A i \in 1 .. n : a[i] = 0
  OBVIOUS
<1> HIDE DEF a
<1>3. PICK g : Steps(g, 0, a, n)
  BY <1>1, ValueSteps
<1> DEFINE T == {m \in Nat : m <= n => g[m] = 0}
<1>4. 0 \in T
  BY <1>3 DEF Steps
<1>5. ASSUME NEW m \in Nat, m \in T PROVE m + 1 \in T
  <2> SUFFICES ASSUME m + 1 <= n PROVE g[m + 1] = 0
    OBVIOUS
  <2>1. g[m] = 0 /\ m \in 0 .. n - 1 /\ m + 1 \in 1 .. n
    BY <1>5
  <2>2. g[m + 1] = g[m] * Base + a[m + 1]
    BY <1>3, <2>1 DEF Steps
  <2>3. Base \in Nat
    BY BaseIs
  <2>4. QED
    BY <1>2, <2>1, <2>2, <2>3
<1> HIDE DEF T
<1>6. n \in T
  BY <1>4, <1>5, Induct
<1>7. g[n] = 0
  BY <1>6 DEF T
<1>8. QED
  BY <1>3, <1>7, NumberIs DEF Steps, a

\* A range the server may encode: two addresses of its version, the first no larger.
RangeFits(r) ==
  /\ r = [version |-> r.version, start |-> r.start, end |-> r.end, proto |-> r.proto]
  /\ r.version \in {4, 6}
  /\ r.start \in Bytes /\ Len(r.start) = AddrLen[r.version]
  /\ r.end \in Bytes /\ Len(r.end) = AddrLen[r.version]
  /\ Number(r.start) <= Number(r.end)
  /\ r.proto \in Byte

\* A range that respects the limits is read back, whatever follows it.
LEMMA RangeReads ==
  ASSUME NEW r, RangeFits(r)
  PROVE  EncodeRange(r) \in Bytes /\ Reads(RangeFirst, r, EncodeRange(r))
<1> DEFINE a == <<r.version>>
           b == r.start
           d == r.end
           c == <<r.proto>>
           n == AddrLen[r.version]
           w == EncodeRange(r)
<1>1. r.version \in {4, 6} /\ r.version \in Byte /\ r.proto \in Byte /\ 0 \in Byte
  BY BaseIs DEF RangeFits
<1>2. a \in Bytes /\ c \in Bytes /\ Len(a) = 1 /\ Len(c) = 1 /\ a[1] = r.version /\ c[1] = r.proto
  BY <1>1, OneByte
<1>3. n \in Nat /\ n > 0 /\ n = AddrSize(r.version)
  BY <1>1, AddrSizeIs DEF AddrSize
<1>4. d \in Bytes /\ Len(d) = n
  BY DEF RangeFits
<1>5. b \in Bytes /\ Len(b) = n
  BY DEF RangeFits
<1> HIDE DEF n
<1>6. b # <<>> /\ d # <<>>
  BY <1>3, <1>4, <1>5
<1>7. w = RangeBytes(a, b, d, c)
  BY DEF EncodeRange, RangeBytes
<1>8. Number(b) <= Number(d)
  BY DEF RangeFits
<1> HIDE DEF a, b, c, d, w
<1>9. w \in Bytes
  <2>1. <<>> \in Bytes
    BY DEF Bytes
  <2>2. RangeBytes(a, b, d, c) \in Bytes
    BY <1>2, <1>4, <1>5, <1>6, <2>1, RangePartsIs
  <2>3. QED
    BY <1>7, <2>2
<1>10. ASSUME NEW t \in Bytes
       PROVE  /\ w \o t \in Bytes /\ w \o t # <<>>
              /\ RangeFirst[w \o t].ok /\ RangeFirst[w \o t].item = r
              /\ RangeFirst[w \o t].rest = t
  <2> DEFINE s == w \o t
  <2>1. RangeParts(s, a, b, d, c, t)
    <3>1. RangeParts(RangeBytes(a, b, d, c) \o t, a, b, d, c, t)
      BY <1>2, <1>4, <1>5, <1>6, RangePartsIs
    <3>2. QED
      BY <1>7, <3>1
  <2>2. Len(t) \in Nat
    BY DEF Bytes
  <2> HIDE DEF s
  <2>3. /\ s \in Bytes /\ Len(s) = Len(b) + Len(d) + 2 + Len(t)
        /\ s[1] = a[1] /\ s[Len(b) + Len(d) + 2] = c[1]
        /\ SubSeq(s, 2, Len(b) + 1) = b
        /\ SubSeq(s, Len(b) + 2, Len(b) + Len(d) + 1) = d
        /\ SubSeq(s, Len(b) + Len(d) + 3, Len(s)) = t
    BY <2>1, Zenon DEF RangeParts
  <2>4. /\ Len(b) + Len(d) + 2 = 2 * n + 2 /\ Len(b) + 1 = n + 1 /\ Len(b) + 2 = n + 2
        /\ Len(b) + Len(d) + 1 = 2 * n + 1 /\ Len(b) + Len(d) + 3 = 2 * n + 3
    BY <1>3, <1>4, <1>5
  <2>5. /\ s[1] = r.version /\ s[2 * n + 2] = r.proto
        /\ SubSeq(s, 2, n + 1) = b /\ SubSeq(s, n + 2, 2 * n + 1) = d
        /\ SubSeq(s, 2 * n + 3, Len(s)) = t
    BY <1>2, <2>3, <2>4, Zenon
  <2>6. Len(s) >= 2 * n + 2 /\ s # <<>>
    <3>1. Len(s) = n + n + 2 + Len(t)
      BY <1>4, <1>5, <2>3
    <3>2. QED
      BY <1>3, <2>2, <3>1
  <2>7. FirstRange(s) = RangeAt(s, n)
    <3>1. n = AddrSize(s[1])
      BY <1>3, <2>5
    <3>2. Number(SubSeq(s, 2, n + 1)) <= Number(SubSeq(s, n + 2, 2 * n + 1))
      BY <1>8, <2>5, Zenon
    <3>3. FirstRange(s) =
           IF /\ n > 0 /\ Len(s) >= 2 * n + 2
              /\ Number(SubSeq(s, 2, n + 1)) <= Number(SubSeq(s, n + 2, 2 * n + 1))
           THEN RangeAt(s, n) ELSE None
      BY <3>1, FirstRangeIs
    <3>4. QED
      BY <1>3, <2>6, <3>2, <3>3
  <2>8. RangeAt(s, n).ok /\ RangeAt(s, n).item = r /\ RangeAt(s, n).rest = t
    BY <2>5 DEF RangeAt, RangeFits, b, d
  <2>9. RangeFirst[s] = FirstRange(s)
    BY <2>3 DEF RangeFirst
  <2>10. QED
    BY <2>3, <2>6, <2>7, <2>8, <2>9, Zenon DEF s
<1>11. QED
  BY <1>9, <1>10 DEF Reads, w

\* All ranges are decoded again.
LEMMA RangesBack ==
  ASSUME NEW n \in Nat, NEW ranges, ranges = [i \in 1 .. n |-> ranges[i]],
         \A i \in 1 .. n : RangeFits(ranges[i])
  PROVE  /\ EncodeRanges(ranges) \in Bytes
         /\ DecodeRanges[EncodeRanges(ranges)] = Whole(ranges)
<1> DEFINE w == [i \in 1 .. n |-> EncodeRange(ranges[i])]
<1>1. Decoder(DecodeRanges, RangeFirst, Bytes)
  BY RangeShrinks, RangesDecoder
<1>2. \A i \in 1 .. n : w[i] \in Bytes /\ Reads(RangeFirst, ranges[i], w[i])
  BY RangeReads
<1>3. Restricted(w, n) = w /\ Restricted(ranges, n) = ranges
  BY DEF Restricted
<1>4. EncodeRanges(ranges) = FlattenSeq(w)
  <2>1. DOMAIN ranges = 1 .. n
    OBVIOUS
  <2>2. QED
    BY <2>1 DEF EncodeRanges
<1> HIDE DEF w
<1>5. /\ FlattenSeq(Restricted(w, n)) \in Bytes
      /\ DecodeRanges[FlattenSeq(Restricted(w, n))] = Whole(Restricted(ranges, n))
  BY <1>1, <1>2, ItemsRead
<1>6. QED
  BY <1>3, <1>4, <1>5, Zenon

(***************************************************************************)
(* Capsules: each is split off and decoded again.                          *)
(***************************************************************************)

\* A varint can carry at least 8 values.
LEMMA LimitIs == VarintLimit \in Nat /\ VarintLimit >= 8
<1>1. Power(7) \in Nat /\ Power(7) = Power(6) * Base /\ Power(6) \in Nat /\ Power(6) >= 1
  BY PowerIs
<1>2. Base \in Nat /\ Base >= 8 /\ Quarter \in Nat /\ Quarter >= 1
  BY BaseIs
<1>3. Power(6) * Base >= 8
  <2>1. \A x \in Nat, y \in Nat : x >= 1 /\ y >= 8 => x * y >= 8
    OBVIOUS
  <2>2. QED
    BY <1>1, <1>2, <2>1
<1>4. \A x \in Nat, y \in Nat : x >= 1 /\ y >= 8 => x * y >= 8 /\ x * y \in Nat
  OBVIOUS
<1>5. QED
  BY <1>1, <1>2, <1>3, <1>4 DEF VarintLimit

\* The types of the capsules the server sends fit a varint.
LEMMA TypesFit == {AddressAssign, RouteAdvertisement} \subseteq 0 .. VarintLimit - 1
BY LimitIs DEF AddressAssign, RouteAdvertisement

\* A capsule is split off whole.
LEMMA CapsuleBack ==
  ASSUME NEW typ \in 0 .. VarintLimit - 1, NEW v \in Bytes, Len(v) < VarintLimit
  PROVE  SplitCapsule(EncodeCapsule(typ, v)) =
           [ok |-> TRUE, typ |-> typ, value |-> v, rest |-> <<>>]
<1> DEFINE p == PutVarint(typ)
           q == PutVarint(Len(v))
           r == q \o v
           s == EncodeCapsule(typ, v)
<1>1. Len(v) \in 0 .. VarintLimit - 1 /\ Len(v) \in Nat
  BY LimitIs DEF Bytes
<1>2. /\ q \in Bytes /\ GetVarint(q \o v).ok
      /\ GetVarint(q \o v).value = Len(v) /\ GetVarint(q \o v).rest = v
  BY <1>1, VarintRoundTrip
<1> HIDE DEF q
<1>3. r \in Bytes
  BY <1>2, BytesConcat
<1>4. /\ p \in Bytes /\ GetVarint(p \o r).ok
      /\ GetVarint(p \o r).value = typ /\ GetVarint(p \o r).rest = r
  <2> HIDE DEF r
  <2>1. QED
    BY <1>3, VarintRoundTrip
<1>5. s = p \o r
  <2> HIDE DEF p
  <2>1. (p \o q) \o v = p \o (q \o v)
    BY <1>2, <1>4, BytesAssociative, Zenon
  <2>2. QED
    BY <2>1 DEF EncodeCapsule, p, q
<1> HIDE DEF p, s
<1>6. /\ GetVarint(s).ok /\ GetVarint(s).value = typ /\ GetVarint(s).rest = r
      /\ GetVarint(r).ok /\ GetVarint(r).value = Len(v) /\ GetVarint(r).rest = v
  BY <1>2, <1>4, <1>5
<1>7. SubSeq(v, 1, Len(v)) = v /\ SubSeq(v, Len(v) + 1, Len(v)) = <<>>
  BY <1>1, SubSeqFull DEF Bytes
<1> HIDE DEF r
<1>8. SplitCapsule(s) = [ok |-> TRUE, typ |-> typ, value |-> v, rest |-> <<>>]
  <2> DEFINE t == GetVarint(s)
             l == IF t.ok THEN GetVarint(t.rest) ELSE None
  <2>1. t.ok /\ t.value = typ /\ l = GetVarint(r)
    BY <1>6
  <2>2. l.ok /\ l.value = Len(v) /\ l.rest = v /\ Len(v) >= Len(v)
    BY <1>1, <1>6, <2>1
  <2> HIDE DEF t, l
  <2>3. (IF l.ok /\ (l.ok => Len(l.rest) >= l.value)
         THEN [ok |-> TRUE, typ |-> t.value,
               value |-> SubSeq(l.rest, 1, l.value),
               rest |-> SubSeq(l.rest, l.value + 1, Len(l.rest))]
         ELSE None) = [ok |-> TRUE, typ |-> typ, value |-> v, rest |-> <<>>]
    BY <1>7, <2>1, <2>2
  <2>4. QED
    BY <2>3 DEF SplitCapsule, t, l
<1>9. QED
  BY <1>8 DEF s

\* For every list of entries that respects the limits, the capsule encode_address_assign
\* writes is split off whole and decode_address_value reads back the same entries
\* (capsule.rs:87-216).
THEOREM AssignRoundTrip ==
  ASSUME NEW n \in Nat, NEW entries, entries = [i \in 1 .. n |-> entries[i]],
         \A i \in 1 .. n : EntryFits(entries[i]),
         Len(EncodeEntries(entries)) < VarintLimit
  PROVE  DecodeEntries[SplitCapsule(EncodeAssign(entries)).value] = Whole(entries)
<1> DEFINE v == EncodeEntries(entries)
<1>1. v \in Bytes /\ DecodeEntries[v] = Whole(entries)
  BY EntriesBack
<1>2. EncodeAssign(entries) = EncodeCapsule(AddressAssign, v) /\ Len(v) < VarintLimit
  BY DEF EncodeAssign
<1> HIDE DEF v
<1>3. SplitCapsule(EncodeCapsule(AddressAssign, v)) =
        [ok |-> TRUE, typ |-> AddressAssign, value |-> v, rest |-> <<>>]
  BY <1>1, <1>2, TypesFit, CapsuleBack
<1>4. QED
  BY <1>1, <1>2, <1>3

\* The same for every list of ranges: decode_route_value reads back what
\* encode_route_advertisement wrote (capsule.rs:239-317).
THEOREM RoutesRoundTrip ==
  ASSUME NEW n \in Nat, NEW ranges, ranges = [i \in 1 .. n |-> ranges[i]],
         \A i \in 1 .. n : RangeFits(ranges[i]),
         Len(EncodeRanges(ranges)) < VarintLimit
  PROVE  DecodeRanges[SplitCapsule(EncodeRoutes(ranges)).value] = Whole(ranges)
<1> DEFINE v == EncodeRanges(ranges)
<1>1. v \in Bytes /\ DecodeRanges[v] = Whole(ranges)
  BY RangesBack
<1>2. EncodeRoutes(ranges) = EncodeCapsule(RouteAdvertisement, v) /\ Len(v) < VarintLimit
  BY DEF EncodeRoutes
<1> HIDE DEF v
<1>3. SplitCapsule(EncodeCapsule(RouteAdvertisement, v)) =
        [ok |-> TRUE, typ |-> RouteAdvertisement, value |-> v, rest |-> <<>>]
  BY <1>1, <1>2, TypesFit, CapsuleBack
<1>4. QED
  BY <1>1, <1>2, <1>3

(***************************************************************************)
(* Packets of the client.                                                  *)
(***************************************************************************)

\* What the data plane takes out of a datagram is the packet the client put into it.
LEMMA StripIs ==
  ASSUME NEW m \in Messages, StripContextId(m.wire).ok
  PROVE  m.context = 0 /\ StripContextId(m.wire).packet = m.packet
<1> DEFINE c == GetVarint(m.wire)
<1>1. c.ok /\ c.value = 0 /\ StripContextId(m.wire).packet = c.rest
  <2>1. StripContextId(m.wire) =
          IF c.ok /\ (c.ok => c.value = 0) THEN [ok |-> TRUE, packet |-> c.rest] ELSE None
    BY DEF StripContextId
  <2> HIDE DEF c
  <2>2. c.ok /\ c.value = 0
    <3>1. ~None.ok
      BY DEF None
    <3>2. QED
      BY <2>1, <3>1
  <2>3. QED
    BY <2>1, <2>2
<1>2. PICK n \in 0 .. Len(m.wire) :
        /\ SubSeq(m.wire, 1, n) \in Bytes /\ m.packet \in Bytes
        /\ m.wire = SubSeq(m.wire, 1, n) \o m.packet
        /\ GetVarint(SubSeq(m.wire, 1, n)) =
             [ok |-> TRUE, value |-> m.context, rest |-> <<>>]
  BY <1>1, MessageAssumption
<1>3. PICK p \in Bytes : /\ m.wire = p \o m.packet
                         /\ GetVarint(p) = [ok |-> TRUE, value |-> m.context, rest |-> <<>>]
  BY <1>2
<1>4. GetVarint(p).ok /\ GetVarint(p).value = m.context /\ GetVarint(p).rest = <<>>
  BY <1>3
<1>5. /\ GetVarint(p \o m.packet).value = m.context
      /\ GetVarint(p \o m.packet).rest = <<>> \o m.packet
  <2>1. p \in Bytes /\ m.packet \in Bytes /\ GetVarint(p).ok
    BY <1>2, <1>4
  <2>2. /\ GetVarint(p \o m.packet).value = GetVarint(p).value
        /\ GetVarint(p \o m.packet).rest = GetVarint(p).rest \o m.packet
    BY ONLY <2>1, GetVarintExtends
  <2>3. QED
    BY <1>4, <2>2, Zenon
<1>6. <<>> \o m.packet = m.packet
  BY <1>2, ConcatEmptySeq DEF Bytes
<1>7. QED
  BY <1>1, <1>3, <1>5, <1>6

\* For every datagram a client may send: a packet reaches the device only out of one of
\* Context 0, whole, and without its Context ID in however many bytes (capsule.rs:126).
THEOREM PacketsKept == Spec => []PacketsIntact
<1>1. Init => PacketsIntact
  BY DEF Init, PacketsIntact
<1>2. PacketsIntact /\ [Next]_vars => PacketsIntact'
  <2> SUFFICES ASSUME PacketsIntact, [Next]_vars PROVE PacketsIntact'
    OBVIOUS
  <2>1. CASE WritePacket
    <3>1. PICK m \in Messages :
            device' \in IF StripContextId(m.wire).ok
                        THEN {device, StripContextId(m.wire).packet} ELSE {device}
      BY <2>1 DEF WritePacket
    <3>2. CASE device' = device
      BY <3>2 DEF PacketsIntact
    <3>3. CASE device' # device
      <4>1. StripContextId(m.wire).ok /\ device' = StripContextId(m.wire).packet
        BY <3>1, <3>3
      <4>2. m.context = 0 /\ device' = m.packet
        BY <4>1, StripIs
      <4>3. QED
        BY <4>2 DEF PacketsIntact
    <3>4. QED
      BY <3>2, <3>3
  <2>2. CASE Setup
    <3>1. device' = device
      BY <2>2 DEF Setup, Reject, Admit, Allocate, PoolExhausted, Create, CreateFails, Respond,
         Assign, Advertise, packets
    <3>2. QED
      BY <3>1 DEF PacketsIntact
  <2>3. CASE Reader \/ Client \/ UNCHANGED vars
    <3>1. device' = device
      BY <2>3 DEF Reader, Recv, RecvEnds, SplitNothing, IgnoreCapsule, AnswerRequest,
         AnswerSent, AnswerFails, AbortRequest, CloseStream, Client, ClientEnds, ClientStops, LoseConnection, PathChanges,
         vars, packets
    <3>2. QED
      BY <3>1 DEF PacketsIntact
  <2>4. CASE ReadPacket \/ SendPacket \/ ReadDeviceFails \/ ChannelCloses \/ TearDown
    <3>1. device' = device
      BY <2>4 DEF ReadPacket, SendPacket, ReadDeviceFails, ChannelCloses, TearDown
    <3>2. QED
      BY <3>1 DEF PacketsIntact
  <2>5. QED
    BY <2>1, <2>2, <2>3, <2>4 DEF Next, Plane
<1>3. QED
  BY <1>1, <1>2, PTL DEF Spec

(***************************************************************************)
(* Prefixes of sequences.                                                  *)
(***************************************************************************)

\* a begins b.
Begins(a, b, S) == \E t \in Seq(S) : b = a \o t

\* What is flattened first is a prefix of what is flattened later.
LEMMA FlattenPrefix ==
  ASSUME NEW S, NEW w, NEW n \in Nat, \A i \in 1 .. n : w[i] \in Seq(S),
         NEW j \in 0 .. n, NEW k \in j .. n
  PROVE  Begins(FlattenSeq(Restricted(w, j)), FlattenSeq(Restricted(w, k)), S)
<1> DEFINE F(i) == FlattenSeq(Restricted(w, i))
<1>1. /\ \A i \in 0 .. n : F(i) \in Seq(S)
      /\ \A i \in 0 .. n - 1 : F(i + 1) = F(i) \o w[i + 1]
  BY FlattenStep
<1> HIDE DEF F
<1> DEFINE T == {d \in Nat : j + d <= n => \E t \in Seq(S) : F(j + d) = F(j) \o t}
<1>2. 0 \in T
  <2>1. F(j) \o <<>> = F(j) /\ <<>> \in Seq(S)
    BY <1>1, ConcatEmptySeq
  <2>2. j + 0 = j
    OBVIOUS
  <2>3. QED
    BY <2>1, <2>2
<1>3. ASSUME NEW d \in Nat, d \in T PROVE d + 1 \in T
  <2> SUFFICES ASSUME j + (d + 1) <= n PROVE \E t \in Seq(S) : F(j + (d + 1)) = F(j) \o t
    OBVIOUS
  <2>1. PICK t \in Seq(S) : F(j + d) = F(j) \o t
    BY <1>3
  <2>2. PICK i \in 0 .. n - 1 : i = j + d /\ i + 1 = j + (d + 1) /\ i + 1 \in 1 .. n
    OBVIOUS
  <2>3. w[i + 1] \in Seq(S) /\ F(j) \in Seq(S)
    BY <1>1, <2>2
  <2>4. F(i + 1) = (F(j) \o t) \o w[i + 1]
    BY <1>1, <2>1, <2>2
  <2>5. F(i + 1) = F(j) \o (t \o w[i + 1]) /\ t \o w[i + 1] \in Seq(S)
    <3>1. (F(j) \o t) \o w[i + 1] = F(j) \o (t \o w[i + 1])
      <4>1. PICK a \in Seq(S), b \in Seq(S) : a = F(j) /\ b = w[i + 1]
        BY <2>3
      <4>2. (a \o t) \o b = a \o (t \o b)
        BY ConcatAssociative
      <4>3. QED
        BY <4>1, <4>2
    <3>2. t \o w[i + 1] \in Seq(S)
      BY <2>3, ConcatProperties
    <3>3. QED
      BY <2>4, <3>1, <3>2
  <2>6. QED
    BY <2>2, <2>5
<1> HIDE DEF T
<1>4. PICK d \in Nat : k = j + d
  <2>1. k - j \in Nat /\ k = j + (k - j)
    OBVIOUS
  <2>2. QED
    BY <2>1
<1>5. d \in T
  BY <1>2, <1>3, Induct
<1>6. QED
  BY <1>4, <1>5 DEF T, F, Begins

(***************************************************************************)
(* The client's stream.                                                    *)
(***************************************************************************)
Wires == [i \in DOMAIN script |-> script[i].wire]
Answers == [i \in DOMAIN script |-> Answer(i)]
AskedIds == {script[i].ids : i \in DOMAIN script}

\* The first k capsules as bytes, where the next one begins, and the answers to them.
Sent(k) == FlattenSeq(Restricted(Wires, k))
Off(k) == Len(Sent(k))
Owed(k) == FlattenSeq(Restricted(Answers, k))

\* An empty stream holds no capsule.
LEMMA NoCapsule == ~SplitCapsule(<<>>).ok
<1>1. <<>> \in Bytes
  BY EmptySeq DEF Bytes
<1>2. ~GetVarint(<<>>).ok
  BY GetVarintIs
<1>3. QED
  BY <1>1, <1>2, SplitIs

\* A script has a length and capsules that fit.
LEMMA ScriptIs ==
  ASSUME ScriptFits(script)
  PROVE  /\ Len(script) \in Nat /\ DOMAIN script = 1 .. Len(script)
         /\ \A i \in 1 .. Len(script) : /\ CapsuleFits(script[i])
                                         /\ script[i].wire \in Bytes /\ script[i].wire # <<>>
                                         /\ Wires[i] = script[i].wire
                                         /\ Answers[i] = Answer(i) /\ Answer(i) \in Seq(AskedIds)
<1>1. Len(script) \in Nat /\ DOMAIN script = 1 .. Len(script)
  BY LenProperties DEF ScriptFits
<1>2. ASSUME NEW i \in 1 .. Len(script)
      PROVE  /\ CapsuleFits(script[i])
             /\ script[i].wire \in Bytes /\ script[i].wire # <<>>
             /\ Wires[i] = script[i].wire
             /\ Answers[i] = Answer(i) /\ Answer(i) \in Seq(AskedIds)
  <2>1. CapsuleFits(script[i])
    BY <1>1 DEF ScriptFits
  <2>2. script[i].wire \in Bytes /\ SplitCapsule(script[i].wire).ok
    BY <2>1 DEF CapsuleFits
  <2>3. script[i].ids \in AskedIds
    BY <1>1 DEF AskedIds
  <2>4. <<>> \in Seq(AskedIds) /\ <<script[i].ids>> \in Seq(AskedIds)
    BY <2>3
  <2>5. QED
    BY <1>1, <2>1, <2>2, <2>4, NoCapsule DEF Wires, Answers, Answer
<1>3. QED
  BY <1>1, <1>2

\* What is sent and what is owed are sequences.
LEMMA StreamIs ==
  ASSUME ScriptFits(script)
  PROVE  /\ Off(0) = 0 /\ Sent(0) = <<>> /\ Wire = Sent(Len(script))
         /\ \A k \in 0 .. Len(script) : Sent(k) \in Bytes /\ Off(k) \in Nat
         /\ \A k \in 0 .. Len(script) - 1 :
              /\ Sent(k + 1) = Sent(k) \o script[k + 1].wire
              /\ Off(k + 1) = Off(k) + Len(script[k + 1].wire)
              /\ Off(k) < Off(k + 1)
         /\ Owed(0) = <<>>
         /\ \A k \in 0 .. Len(script) : Owed(k) \in Seq(AskedIds)
         /\ \A k \in 0 .. Len(script) - 1 : Owed(k + 1) = Owed(k) \o Answer(k + 1)
<1> DEFINE n == Len(script)
<1>1. n \in Nat /\ DOMAIN script = 1 .. n
  BY ScriptIs
<1>2. \A i \in 1 .. n : Wires[i] \in Seq(Byte) /\ Answers[i] \in Seq(AskedIds)
  BY ScriptIs DEF Bytes
<1>3. /\ Sent(0) = <<>> /\ \A k \in 0 .. n : Sent(k) \in Seq(Byte)
      /\ \A k \in 0 .. n - 1 : Sent(k + 1) = Sent(k) \o Wires[k + 1]
  BY <1>1, <1>2, FlattenStep DEF Sent
<1>4. /\ Owed(0) = <<>> /\ \A k \in 0 .. n : Owed(k) \in Seq(AskedIds)
      /\ \A k \in 0 .. n - 1 : Owed(k + 1) = Owed(k) \o Answers[k + 1]
  BY <1>1, <1>2, FlattenStep DEF Owed
<1>5. ASSUME NEW k \in 0 .. n - 1
      PROVE  /\ Sent(k + 1) = Sent(k) \o script[k + 1].wire
             /\ Off(k + 1) = Off(k) + Len(script[k + 1].wire)
             /\ Off(k) < Off(k + 1)
             /\ Owed(k + 1) = Owed(k) \o Answer(k + 1)
  <2>1. k + 1 \in 1 .. n /\ k \in 0 .. n
    BY <1>1
  <2>2. /\ Wires[k + 1] = script[k + 1].wire /\ Answers[k + 1] = Answer(k + 1)
        /\ script[k + 1].wire \in Seq(Byte) /\ script[k + 1].wire # <<>>
    BY <2>1, ScriptIs DEF Bytes
  <2>3. Sent(k + 1) = Sent(k) \o script[k + 1].wire /\ Owed(k + 1) = Owed(k) \o Answer(k + 1)
    BY <1>3, <1>4, <2>2
  <2>4. Len(script[k + 1].wire) \in Nat \ {0}
    BY <2>2, EmptySeq
  <2>5. Sent(k) \in Seq(Byte) /\ Off(k) \in Nat
    BY <1>3, <2>1 DEF Off
  <2>6. Off(k + 1) = Off(k) + Len(script[k + 1].wire)
    BY <2>2, <2>3, <2>5, ConcatProperties DEF Off
  <2>7. Off(k) < Off(k + 1)
    BY <2>4, <2>5, <2>6
  <2>8. QED
    BY <2>3, <2>6, <2>7
<1>6. Wire = Sent(n)
  <2>1. [i \in DOMAIN script |-> script[i].wire] = [i \in 1 .. n |-> Wires[i]]
    BY <1>1 DEF Wires
  <2>2. QED
    BY <2>1 DEF Wire, Sent, Restricted
<1>7. Off(0) = 0
  BY <1>3, EmptySeq DEF Off
<1>8. \A k \in 0 .. n : Off(k) \in Nat /\ Sent(k) \in Bytes
  BY <1>3 DEF Off, Bytes
<1>9. QED
  BY <1>3, <1>4, <1>5, <1>6, <1>7, <1>8

\* What has been sent, or is owed, begins what is so later.
LEMMA SentPrefix ==
  ASSUME ScriptFits(script), NEW j \in 0 .. Len(script), NEW k \in j .. Len(script)
  PROVE  Begins(Sent(j), Sent(k), Byte) /\ Begins(Owed(j), Owed(k), AskedIds)
<1>1. PICK n \in Nat : n = Len(script) /\ j \in 0 .. n /\ k \in j .. n
  BY ScriptIs
<1>2. \A i \in 1 .. n : Wires[i] \in Seq(Byte)
  BY <1>1, ScriptIs DEF Bytes
<1>3. \A i \in 1 .. n : Answers[i] \in Seq(AskedIds)
  BY <1>1, ScriptIs
<1>4. Begins(FlattenSeq(Restricted(Wires, j)), FlattenSeq(Restricted(Wires, k)), Byte)
  BY <1>1, <1>2, FlattenPrefix
<1>5. Begins(FlattenSeq(Restricted(Answers, j)), FlattenSeq(Restricted(Answers, k)), AskedIds)
  BY <1>1, <1>3, FlattenPrefix
<1>6. QED
  BY <1>4, <1>5 DEF Sent, Owed

\* The stream from a capsule on: the offsets never go back and the capsules lie one
\* after the other.
LEMMA Offsets ==
  ASSUME ScriptFits(script), NEW j \in 0 .. Len(script), NEW k \in j .. Len(script)
  PROVE  /\ Off(j) <= Off(k) /\ Off(k) <= Len(Wire)
         /\ Begins(Owed(j), Owed(k), AskedIds)
<1> DEFINE n == Len(script)
<1>1. n \in Nat /\ k \in 0 .. n /\ n \in k .. n
  BY ScriptIs
<1>2. PICK t \in Seq(Byte) : Sent(k) = Sent(j) \o t
  BY SentPrefix DEF Begins
<1>3. Begins(Owed(j), Owed(k), AskedIds)
  BY SentPrefix
<1>4. PICK v \in Seq(Byte) : Sent(n) = Sent(k) \o v
  BY <1>1, SentPrefix DEF Begins
<1>5. Sent(j) \in Seq(Byte) /\ Sent(k) \in Seq(Byte) /\ Wire = Sent(n)
  BY <1>1, StreamIs DEF Bytes
<1>6. Off(k) = Off(j) + Len(t) /\ Off(j) \in Nat /\ Len(t) \in Nat
  BY <1>2, <1>5, ConcatProperties, LenProperties DEF Off
<1>7. Len(Wire) = Off(k) + Len(v) /\ Off(k) \in Nat /\ Len(v) \in Nat
  BY <1>4, <1>5, ConcatProperties, LenProperties DEF Off
<1>8. Off(j) <= Off(k) /\ Off(k) <= Len(Wire)
  BY <1>6, <1>7
<1>9. QED
  BY <1>3, <1>8

\* The bytes of one capsule.
LEMMA CapsuleBytes ==
  ASSUME ScriptFits(script), NEW k \in 0 .. Len(script) - 1
  PROVE  SubSeq(Wire, Off(k) + 1, Off(k + 1)) = script[k + 1].wire
<1> DEFINE n == Len(script)
           c == script[k + 1].wire
<1>1. n \in Nat /\ k \in 0 .. n /\ k + 1 \in 1 .. n
  BY ScriptIs
<1>2. c \in Seq(Byte) /\ c # <<>>
  BY <1>1, ScriptIs DEF Bytes
<1>3. /\ Sent(k) \in Seq(Byte) /\ Wire = Sent(n)
      /\ Sent(k + 1) = Sent(k) \o c
      /\ Off(k + 1) = Off(k) + Len(c)
  BY <1>1, StreamIs DEF Bytes
<1>4. PICK t \in Seq(Byte) : Sent(n) = Sent(k + 1) \o t
  <2>1. k + 1 \in 0 .. n /\ n \in k + 1 .. n
    BY <1>1
  <2>2. QED
    BY <2>1, SentPrefix DEF Begins
<1> HIDE DEF c
<1>5. SubSeq((Sent(k) \o c) \o t, Len(Sent(k)) + 1, Len(Sent(k)) + Len(c)) = c
  BY <1>2, <1>3, Middle
<1>6. QED
  BY <1>3, <1>4, <1>5 DEF Off, c

\* What has arrived of the stream from capsule k + 1 on.
Waiting(k) == SubSeq(Wire, Off(k) + 1, received)

\* The bytes that wait are those between the last capsule taken and the last received.
LEMMA WaitingIs ==
  ASSUME ScriptFits(script), NEW k \in 0 .. Len(script), received \in Off(k) .. Len(Wire)
  PROVE  /\ Waiting(k) \in Bytes /\ Wire \in Bytes
         /\ received \in Nat /\ Off(k) \in Nat /\ Len(Wire) \in Nat
         /\ Len(Waiting(k)) = received - Off(k)
<1>1. Wire \in Bytes /\ Off(k) \in Nat
  <2>1. Len(script) \in 0 .. Len(script)
    BY ScriptIs
  <2>2. QED
    BY <2>1, StreamIs
<1>2. Len(Wire) \in Nat /\ received \in Nat
  BY <1>1, LenProperties DEF Bytes
<1>3. \A i \in Off(k) + 1 .. received : Wire[i] \in Byte
  BY <1>1, <1>2, ElementOfSeq DEF Bytes
<1>4. /\ Waiting(k) \in Bytes
      /\ Len(Waiting(k)) = IF Off(k) + 1 <= received THEN received - (Off(k) + 1) + 1 ELSE 0
  BY <1>1, <1>2, <1>3, SubSeqProperties DEF Waiting, Bytes
<1>5. QED
  BY <1>1, <1>2, <1>4

\* Once a capsule has arrived whole it is first, and what follows it is what has arrived
\* from the next one on.
LEMMA Arrived ==
  ASSUME ScriptFits(script), NEW k \in 0 .. Len(script) - 1, received \in Off(k + 1) .. Len(Wire)
  PROVE  /\ Waiting(k) = script[k + 1].wire \o Waiting(k + 1)
         /\ Waiting(k + 1) \in Bytes
<1>1. /\ k \in 0 .. Len(script) /\ k + 1 \in 0 .. Len(script)
  BY ScriptIs
<1>2. /\ Wire \in Seq(Byte) /\ Len(Wire) \in Nat /\ received \in Nat /\ Off(k + 1) \in Nat
      /\ Waiting(k + 1) \in Bytes
  BY <1>1, WaitingIs DEF Bytes
<1>3. Off(k) \in Nat /\ Off(k) < Off(k + 1)
  BY <1>1, StreamIs
<1>4. SubSeq(Wire, Off(k) + 1, Off(k + 1)) \o SubSeq(Wire, Off(k + 1) + 1, received) =
        SubSeq(Wire, Off(k) + 1, received)
  <2>1. /\ Off(k) + 1 \in 1 .. Len(Wire) + 1
        /\ Off(k + 1) \in (Off(k) + 1) - 1 .. Len(Wire)
        /\ received \in Off(k + 1) .. Len(Wire)
    BY <1>2, <1>3
  <2>2. QED
    BY <1>2, <2>1, ConcatAdjacentSubSeq
<1>5. QED
  BY <1>2, <1>4, CapsuleBytes DEF Waiting

\* Until then what has arrived is a proper prefix of it.
LEMMA NotArrived ==
  ASSUME ScriptFits(script), NEW k \in 0 .. Len(script) - 1,
         received \in Off(k) .. Off(k + 1) - 1
  PROVE  \E t \in Bytes : t # <<>> /\ script[k + 1].wire = Waiting(k) \o t
<1>1. k \in 0 .. Len(script) /\ k + 1 \in 0 .. Len(script) /\ k + 1 \in k + 1 .. Len(script)
  BY ScriptIs
<1>2. Off(k + 1) <= Len(Wire)
  BY <1>1, Offsets
<1>3. Off(k) \in Nat /\ Off(k + 1) \in Nat
  BY <1>1, StreamIs
<1>4. Wire \in Seq(Byte) /\ Len(Wire) \in Nat
  <2>1. Len(script) \in 0 .. Len(script)
    BY ScriptIs
  <2>2. QED
    BY <2>1, StreamIs, LenProperties DEF Bytes
<1> DEFINE t == SubSeq(Wire, received + 1, Off(k + 1))
<1>5. Waiting(k) \o t = script[k + 1].wire
  <2>1. /\ Off(k) + 1 \in 1 .. Len(Wire) + 1
        /\ received \in (Off(k) + 1) - 1 .. Len(Wire)
        /\ Off(k + 1) \in received .. Len(Wire)
    BY <1>2, <1>3, <1>4
  <2>2. SubSeq(Wire, Off(k) + 1, received) \o SubSeq(Wire, received + 1, Off(k + 1)) =
          SubSeq(Wire, Off(k) + 1, Off(k + 1))
    BY <1>4, <2>1, ConcatAdjacentSubSeq
  <2>3. QED
    BY <2>2, CapsuleBytes DEF Waiting
<1>6. t \in Bytes /\ Len(t) = Off(k + 1) - received
  <2>1. received + 1 \in Int /\ Off(k + 1) \in Int /\ received + 1 <= Off(k + 1)
    BY <1>3
  <2>2. \A i \in received + 1 .. Off(k + 1) : Wire[i] \in Byte
    BY <1>2, <1>3, <1>4, ElementOfSeq
  <2>3. /\ t \in Seq(Byte)
        /\ Len(t) = IF received + 1 <= Off(k + 1) THEN Off(k + 1) - (received + 1) + 1 ELSE 0
    BY <2>1, <2>2, SubSeqProperties
  <2>4. QED
    BY <1>3, <2>1, <2>3 DEF Bytes
<1> HIDE DEF t
<1>7. t # <<>>
  <2>1. Len(t) > 0
    BY <1>3, <1>6
  <2>2. QED
    BY <2>1, EmptySeq
<1>8. QED
  BY <1>5, <1>6, <1>7

\* The reader finds a whole capsule in its buffer exactly when the next capsule of the
\* client has arrived whole, and then it is that capsule.
LEMMA FirstWaiting ==
  ASSUME ScriptFits(script), NEW k \in 0 .. Len(script), received \in Off(k) .. Len(Wire)
  PROVE  /\ SplitCapsule(Waiting(k)).ok <=> k < Len(script) /\ Off(k + 1) <= received
         /\ SplitCapsule(Waiting(k)).ok =>
              /\ SplitCapsule(Waiting(k)).typ = SplitCapsule(script[k + 1].wire).typ
              /\ SplitCapsule(Waiting(k)).value = SplitCapsule(script[k + 1].wire).value
              /\ SplitCapsule(Waiting(k)).rest = Waiting(k + 1)
<1>1. /\ Waiting(k) \in Bytes /\ received \in Nat /\ Off(k) \in Nat /\ Len(Wire) \in Nat
      /\ Len(Waiting(k)) = received - Off(k) /\ Len(script) \in Nat
  BY WaitingIs, ScriptIs
<1>2. CASE k = Len(script)
  <2>1. Off(k) = Len(Wire)
    BY <1>2, StreamIs DEF Off
  <2>2. Len(Waiting(k)) = 0
    BY <1>1, <2>1
  <2>3. Waiting(k) = <<>>
    BY <1>1, <2>2, EmptySeq DEF Bytes
  <2>4. QED
    BY <1>1, <1>2, <2>3, NoCapsule
<1>3. CASE k < Len(script) /\ Off(k + 1) <= received
  <2>1. k \in 0 .. Len(script) - 1 /\ k + 1 \in 1 .. Len(script) /\ k + 1 \in 0 .. Len(script)
    BY <1>1, <1>3
  <2>2. Off(k + 1) \in Nat
    BY <2>1, StreamIs
  <2>3. received \in Off(k + 1) .. Len(Wire)
    BY <1>1, <1>3, <2>2
  <2>4. /\ Waiting(k) = script[k + 1].wire \o Waiting(k + 1) /\ Waiting(k + 1) \in Bytes
    BY <2>1, <2>3, Arrived
  <2>5. /\ script[k + 1].wire \in Bytes
        /\ SplitCapsule(script[k + 1].wire).ok /\ SplitCapsule(script[k + 1].wire).rest = <<>>
    <3>1. CapsuleFits(script[k + 1])
      BY <2>1, ScriptIs
    <3>2. QED
      BY <3>1 DEF CapsuleFits
  <2>6. <<>> \o Waiting(k + 1) = Waiting(k + 1)
    BY <2>4, ConcatEmptySeq DEF Bytes
  <2>7. /\ SplitCapsule(Waiting(k)).ok
        /\ SplitCapsule(Waiting(k)).typ = SplitCapsule(script[k + 1].wire).typ
        /\ SplitCapsule(Waiting(k)).value = SplitCapsule(script[k + 1].wire).value
        /\ SplitCapsule(Waiting(k)).rest = <<>> \o Waiting(k + 1)
    <3>1. PICK c \in Bytes, t \in Bytes : c = script[k + 1].wire /\ t = Waiting(k + 1)
      BY <2>4, <2>5
    <3>2. SplitCapsule(c).ok /\ SplitCapsule(c).rest = <<>> /\ Waiting(k) = c \o t
      BY <2>4, <2>5, <3>1
    <3>3. /\ SplitCapsule(c \o t).ok
          /\ SplitCapsule(c \o t).typ = SplitCapsule(c).typ
          /\ SplitCapsule(c \o t).value = SplitCapsule(c).value
          /\ SplitCapsule(c \o t).rest = SplitCapsule(c).rest \o t
      BY <3>2, SplitExtends
    <3>4. QED
      BY <3>1, <3>2, <3>3
  <2>8. QED
    BY <1>3, <2>6, <2>7
<1>4. CASE k < Len(script) /\ ~(Off(k + 1) <= received)
  <2>1. k \in 0 .. Len(script) - 1 /\ k + 1 \in 1 .. Len(script) /\ k + 1 \in 0 .. Len(script)
    BY <1>1, <1>4
  <2>2. Off(k + 1) \in Nat
    BY <2>1, StreamIs
  <2>3. received \in Off(k) .. Off(k + 1) - 1
    BY <1>1, <1>4, <2>2
  <2>4. PICK t \in Bytes : t # <<>> /\ script[k + 1].wire = Waiting(k) \o t
    BY <2>1, <2>3, NotArrived
  <2>5. SplitCapsule(script[k + 1].wire).rest = <<>>
    <3>1. CapsuleFits(script[k + 1])
      BY <2>1, ScriptIs
    <3>2. QED
      BY <3>1 DEF CapsuleFits
  <2>6. ~SplitCapsule(Waiting(k)).ok
    <3> SUFFICES ASSUME SplitCapsule(Waiting(k)).ok PROVE FALSE
      OBVIOUS
    <3>1. /\ SplitCapsule(Waiting(k)).rest \in Bytes
          /\ SplitCapsule(Waiting(k)).rest \o t = <<>>
      BY <1>1, <2>4, <2>5, SplitExtends
    <3>2. QED
      BY <2>4, <3>1, ConcatEqualIffEmpty DEF Bytes
  <2>7. QED
    BY <1>4, <2>6
<1>5. QED
  BY <1>1, <1>2, <1>3, <1>4

\* What the capsule the reader takes next is, and what is owed once it is taken.
LEMMA NextCapsule ==
  ASSUME ScriptFits(script), NEW k \in 0 .. Len(script), received \in Off(k) .. Len(Wire),
         SplitCapsule(Waiting(k)).ok
  PROVE  LET split == SplitCapsule(Waiting(k))
             request == DecodeEntries[split.value]
         IN /\ k \in 0 .. Len(script) - 1 /\ received \in Off(k + 1) .. Len(Wire)
            /\ split.rest = Waiting(k + 1)
            /\ split.typ # AddressRequest \/ WellFormed(request) => ~script[k + 1].broken
            /\ split.typ # AddressRequest => Owed(k + 1) = Owed(k)
            /\ split.typ = AddressRequest /\ WellFormed(request) =>
                 Owed(k + 1) = Append(Owed(k), [i \in DOMAIN request.items |-> request.items[i].id])
<1> DEFINE split == SplitCapsule(Waiting(k))
           request == DecodeEntries[split.value]
           c == script[k + 1]
<1>1. Len(script) \in Nat /\ Off(k) \in Nat /\ received \in Nat /\ Len(Wire) \in Nat
  BY ScriptIs, WaitingIs
<1>2. /\ k < Len(script) /\ Off(k + 1) <= received
      /\ split.typ = SplitCapsule(c.wire).typ /\ split.value = SplitCapsule(c.wire).value
      /\ split.rest = Waiting(k + 1)
  BY FirstWaiting
<1>3. k \in 0 .. Len(script) - 1 /\ k + 1 \in 1 .. Len(script) /\ k + 1 \in 0 .. Len(script)
  BY <1>1, <1>2
<1>4. received \in Off(k + 1) .. Len(Wire)
  <2>1. Off(k + 1) \in Nat
    BY <1>3, StreamIs
  <2>2. QED
    BY <1>1, <1>2, <2>1
<1>5. CapsuleFits(c)
  BY <1>3, ScriptIs
<1>6. Owed(k + 1) = Owed(k) \o Answer(k + 1) /\ Owed(k) \in Seq(AskedIds)
  BY <1>3, StreamIs
<1> HIDE DEF split, request, c
<1>7. /\ c.broken <=> split.typ = AddressRequest /\ ~WellFormed(request)
      /\ c.ids # <<>> <=> split.typ = AddressRequest /\ ~c.broken
      /\ c.ids # <<>> => c.ids = [i \in DOMAIN request.items |-> request.items[i].id]
  BY <1>2, <1>5 DEF CapsuleFits, request
<1>8. ASSUME split.typ # AddressRequest PROVE Owed(k + 1) = Owed(k)
  <2>1. Answer(k + 1) = <<>>
    BY <1>7, <1>8 DEF Answer, c
  <2>2. QED
    BY <1>6, <2>1, ConcatEmptySeq
<1>9. ASSUME split.typ = AddressRequest, WellFormed(request)
      PROVE  Owed(k + 1) = Append(Owed(k), [i \in DOMAIN request.items |-> request.items[i].id])
  <2>1. Answer(k + 1) = <<c.ids>> /\ c.ids = [i \in DOMAIN request.items |-> request.items[i].id]
    BY <1>7, <1>9 DEF Answer, c
  <2>2. c.ids \in AskedIds
    BY <1>3, ScriptIs DEF AskedIds, c
  <2>3. Append(Owed(k), c.ids) = Owed(k) \o <<c.ids>>
    BY <1>6, <2>2, AppendIsConcat
  <2>4. QED
    BY <1>6, <2>1, <2>3
<1>10. QED
  BY <1>2, <1>3, <1>4, <1>7, <1>8, <1>9 DEF split, request, c

(***************************************************************************)
(* The capsule reader.                                                     *)
(***************************************************************************)

\* The first k capsules have been taken, none of them broken, and what was owed for them
\* has been said after the first two capsules of the server.
Taken(k) ==
  /\ received \in Off(k) .. Len(Wire)
  /\ \A b \in FirstBroken : k < b
  /\ Len(out) = 2 + Len(Owed(k))
  /\ \A i \in 1 .. Len(Owed(k)) :
       out[i + 2] = EncodeAssign([j \in DOMAIN Owed(k)[i] |-> Entry(Owed(k)[i][j])])

\* The buffer begins where a capsule of the client begins, every request before it has
\* been answered, and when the reader waits for more bytes it holds no whole capsule.
AtCapsule ==
  \E k \in 0 .. Len(script) :
    /\ Taken(k) /\ pending = Waiting(k)
    /\ reader = "recv" => k = Len(script) \/ received < Off(k + 1)

StreamInv ==
  /\ script \in Scripts \cup {<<>>}
  /\ stage \in {"allocated", "created", "assign", "advertise", "running"} \/ Len(out) >= 1 =>
       address \in Assigned
  /\ reader \in {"off", "recv", "split", "sending", "closing", "ended"}
  /\ reader = "off" => received = 0 /\ pending = <<>> /\ Len(out) <= 1
  /\ reader \in {"recv", "split", "sending"} => AtCapsule
  /\ reader \in {"closing", "ended"} => \E k \in 0 .. Len(script) : Taken(k)

\* The client's stream is fixed once the request is admitted.
LEMMA StreamStands ==
  ASSUME script' = script
  PROVE  /\ Wire' = Wire /\ FirstBroken' = FirstBroken
         /\ \A k : Off(k)' = Off(k) /\ Owed(k)' = Owed(k)
         /\ received' = received => \A k : Waiting(k)' = Waiting(k)
<1>1. Wire' = Wire /\ FirstBroken' = FirstBroken
  BY DEF Wire, FirstBroken
<1>2. \A k : Off(k)' = Off(k) /\ Owed(k)' = Owed(k)
  BY DEF Off, Sent, Owed, Wires, Answers, Answer
<1>3. QED
  BY <1>1, <1>2 DEF Waiting

\* What was taken stands while no answer is added.
LEMMA TakenStands ==
  ASSUME script' = script, received' = received, out' = out, address' = address, NEW k, Taken(k)
  PROVE  Taken(k)'
<1>1. \A id : Entry(id)' = Entry(id)
  BY DEF Entry
<1>2. QED
  BY <1>1, StreamStands DEF Taken

\* The same for the place of the reader.
LEMMA AtCapsuleStands ==
  ASSUME script' = script, received' = received, out' = out, address' = address,
         pending' = pending, reader' = reader, AtCapsule
  PROVE  AtCapsule'
<1>1. PICK k \in 0 .. Len(script) :
        /\ Taken(k) /\ pending = Waiting(k)
        /\ reader = "recv" => k = Len(script) \/ received < Off(k + 1)
  BY DEF AtCapsule
<1>2. Taken(k)'
  BY <1>1, TakenStands
<1>3. QED
  BY <1>1, <1>2, StreamStands DEF AtCapsule

\* Every script fits, that of an untouched stream too.
LEMMA AnyScriptFits ==
  ASSUME StreamInv
  PROVE  ScriptFits(script)
<1>1. ScriptFits(<<>>)
  BY DEF ScriptFits
<1>2. QED
  BY <1>1, ScriptAssumption DEF StreamInv

\* More bytes arrive.
LEMMA RecvKeeps ==
  ASSUME StreamInv, Recv
  PROVE  StreamInv'
<1>1. /\ reader = "recv" /\ reader' \in {"closing", "split"}
      /\ UNCHANGED <<stage, address, script, out>>
  BY DEF Recv, handler, client
<1>2. PICK n \in received + 1 .. Len(Wire) :
        received' = n /\ pending' = pending \o SubSeq(Wire, received + 1, n)
  BY DEF Recv
<1>3. ScriptFits(script)
  BY AnyScriptFits
<1>4. PICK k \in 0 .. Len(script) : Taken(k) /\ pending = Waiting(k)
  BY <1>1 DEF StreamInv, AtCapsule
<1>5. received \in Off(k) .. Len(Wire)
  BY <1>4 DEF Taken
<1>6. /\ Wire \in Seq(Byte) /\ received \in Nat /\ Off(k) \in Nat /\ Len(Wire) \in Nat
  BY <1>3, <1>5, WaitingIs DEF Bytes
<1>7. pending' = SubSeq(Wire, Off(k) + 1, n)
  <2>1. /\ Off(k) + 1 \in 1 .. Len(Wire) + 1
        /\ received \in (Off(k) + 1) - 1 .. Len(Wire)
        /\ n \in received .. Len(Wire)
    BY <1>5, <1>6
  <2>2. SubSeq(Wire, Off(k) + 1, received) \o SubSeq(Wire, received + 1, n) =
          SubSeq(Wire, Off(k) + 1, n)
    BY <1>6, <2>1, ConcatAdjacentSubSeq
  <2>3. QED
    BY <1>2, <1>4, <2>2 DEF Waiting
<1>8. Wire' = Wire /\ FirstBroken' = FirstBroken /\ Off(k)' = Off(k) /\ Owed(k)' = Owed(k)
  BY <1>1, StreamStands
<1>9. pending' = Waiting(k)'
  BY <1>2, <1>7, <1>8 DEF Waiting
<1>10. Taken(k)'
  <2>1. \A id : Entry(id)' = Entry(id)
    BY <1>1 DEF Entry
  <2>2. received' \in Off(k) .. Len(Wire)
    BY <1>2, <1>5, <1>6
  <2>3. QED
    BY <1>1, <1>4, <1>8, <2>1, <2>2 DEF Taken
<1>11. reader' = "split" => AtCapsule'
  BY <1>1, <1>9, <1>10 DEF AtCapsule
<1>12. QED
  BY <1>1, <1>10, <1>11 DEF StreamInv

\* No whole capsule is left.
LEMMA WaitKeeps ==
  ASSUME StreamInv, SplitNothing
  PROVE  StreamInv'
<1>1. /\ reader = "split" /\ reader' = "recv" /\ ~SplitCapsule(pending).ok
      /\ UNCHANGED <<stage, address, script, out, received, pending>>
  BY DEF SplitNothing, handler, client
<1>2. ScriptFits(script)
  BY AnyScriptFits
<1>3. PICK k \in 0 .. Len(script) : Taken(k) /\ pending = Waiting(k)
  BY <1>1 DEF StreamInv, AtCapsule
<1>4. received \in Off(k) .. Len(Wire)
  BY <1>3 DEF Taken
<1>5. ~(k < Len(script) /\ Off(k + 1) <= received)
  BY <1>1, <1>2, <1>3, <1>4, FirstWaiting
<1>6. k = Len(script) \/ received < Off(k + 1)
  <2>1. Len(script) \in Nat /\ received \in Nat
    BY <1>2, <1>4, ScriptIs, WaitingIs
  <2>2. CASE k < Len(script)
    <3>1. k + 1 \in 0 .. Len(script)
      BY <2>1, <2>2
    <3>2. Off(k + 1) \in Nat
      BY <1>2, <3>1, StreamIs
    <3>3. QED
      BY <1>5, <2>1, <2>2, <3>2
  <2>3. QED
    BY <2>1, <2>2
<1>7. Taken(k)'
  BY <1>1, <1>3, TakenStands
<1>8. AtCapsule'
  BY <1>1, <1>3, <1>6, <1>7, StreamStands DEF AtCapsule
<1>9. QED
  BY <1>1, <1>8 DEF StreamInv

\* A capsule that is not for the server is taken: nothing was owed for it.
LEMMA IgnoreKeeps ==
  ASSUME StreamInv, IgnoreCapsule
  PROVE  StreamInv'
<1>1. /\ reader = "split" /\ reader' = "split"
      /\ SplitCapsule(pending).ok /\ pending' = SplitCapsule(pending).rest
      /\ SplitCapsule(pending).typ # AddressRequest
      /\ UNCHANGED <<stage, address, script, out, received>>
  BY DEF IgnoreCapsule, TakeCapsule, handler, client
<1>2. ScriptFits(script)
  BY AnyScriptFits
<1>3. PICK k \in 0 .. Len(script) : Taken(k) /\ pending = Waiting(k)
  BY <1>1 DEF StreamInv, AtCapsule
<1>4. received \in Off(k) .. Len(Wire)
  BY <1>3 DEF Taken
<1>5. /\ k \in 0 .. Len(script) - 1 /\ received \in Off(k + 1) .. Len(Wire)
      /\ pending' = Waiting(k + 1) /\ ~script[k + 1].broken
      /\ Owed(k + 1) = Owed(k)
  BY <1>1, <1>2, <1>3, <1>4, NextCapsule
<1>6. Len(script) \in Nat /\ k + 1 \in 0 .. Len(script)
  BY <1>2, <1>5, ScriptIs
<1>7. \A b \in FirstBroken : k + 1 < b
  <2>1. \A b \in FirstBroken : b \in Nat /\ k < b /\ b # k + 1
    BY <1>2, <1>3, <1>5, ScriptIs DEF Taken, FirstBroken
  <2>2. QED
    BY <1>6, <2>1
<1>8. Taken(k + 1)
  BY <1>3, <1>5, <1>7 DEF Taken
<1>9. Taken(k + 1)'
  BY <1>1, <1>8, TakenStands
<1>10. Waiting(k + 1)' = Waiting(k + 1)
  BY <1>1, StreamStands
<1>11. AtCapsule'
  BY <1>1, <1>5, <1>6, <1>9, <1>10 DEF AtCapsule
<1>12. QED
  BY <1>1, <1>11 DEF StreamInv

\* An ADDRESS_REQUEST is taken and answered with its own Request IDs.
LEMMA AnswerKeeps ==
  ASSUME SaysInv, StreamInv, AnswerRequest
  PROVE  StreamInv'
<1>1. /\ reader = "split" /\ reader' = IF CanSend THEN "sending" ELSE "closing"
      /\ SplitCapsule(pending).ok /\ pending' = SplitCapsule(pending).rest
      /\ SplitCapsule(pending).typ = AddressRequest
      /\ WellFormed(Decoded)
      /\ out' = IF CanSend THEN Append(out, Replies(Decoded.items)) ELSE out
      /\ UNCHANGED <<stage, address, script, received>>
  BY DEF AnswerRequest, TakeCapsule, Prompted, handler, client
<1>2. ScriptFits(script)
  BY AnyScriptFits
<1>3. PICK k \in 0 .. Len(script) : Taken(k) /\ pending = Waiting(k)
  BY <1>1 DEF StreamInv, AtCapsule
<1>4. received \in Off(k) .. Len(Wire)
  BY <1>3 DEF Taken
<1> DEFINE entries == Decoded.items
           ids == [i \in DOMAIN entries |-> entries[i].id]
<1>5. /\ k \in 0 .. Len(script) - 1 /\ received \in Off(k + 1) .. Len(Wire)
      /\ pending' = Waiting(k + 1) /\ ~script[k + 1].broken
      /\ Owed(k + 1) = Append(Owed(k), ids)
  BY <1>1, <1>2, <1>3, <1>4, NextCapsule DEF Decoded
<1>6. Len(script) \in Nat /\ k + 1 \in 0 .. Len(script)
  BY <1>2, <1>5, ScriptIs
<1>7. CASE ~CanSend
  <2>1. out' = out /\ reader' = "closing"
    BY <1>1, <1>7
  <2>2. Taken(k)'
    BY <1>1, <1>3, <2>1, TakenStands
  <2>3. QED
    BY <1>1, <2>1, <2>2 DEF StreamInv
<1>8. CASE CanSend
  <2>1. out' = Append(out, Replies(entries)) /\ reader' = "sending"
    BY <1>1, <1>8
  <2>2. PICK S : out \in Seq(S)
    BY DEF SaysInv
  <2> HIDE DEF entries
  <2>3. /\ Len(out) \in Nat /\ Len(out') = Len(out) + 1
        /\ \A i \in 1 .. Len(out) : out'[i] = out[i]
        /\ out'[Len(out) + 1] = Replies(entries)
    <3>1. /\ Len(out) \in Nat /\ Len(Append(out, Replies(entries))) = Len(out) + 1
          /\ \A i \in 1 .. Len(out) : Append(out, Replies(entries))[i] = out[i]
          /\ Append(out, Replies(entries))[Len(out) + 1] = Replies(entries)
      BY ONLY <2>2, OneMore
    <3>2. QED
      BY <2>1, <3>1, Zenon
  <2>4. Owed(k) \in Seq(AskedIds)
    BY <1>2, StreamIs
  <2>5. Replies(entries) = EncodeAssign([j \in DOMAIN ids |-> Entry(ids[j])])
    <3>1. [i \in DOMAIN entries |-> Entry(entries[i].id)] = [j \in DOMAIN ids |-> Entry(ids[j])]
      OBVIOUS
    <3>2. QED
      BY <3>1 DEF Replies
  <2> HIDE DEF ids
  <2>6. /\ Len(Owed(k)) \in Nat /\ Len(Owed(k + 1)) = Len(Owed(k)) + 1
        /\ \A i \in 1 .. Len(Owed(k)) : Owed(k + 1)[i] = Owed(k)[i]
        /\ Owed(k + 1)[Len(Owed(k)) + 1] = ids
    <3>1. PICK s \in Seq(AskedIds) : s = Owed(k)
      BY <2>4
    <3>2. /\ Len(s) \in Nat /\ Len(Append(s, ids)) = Len(s) + 1
          /\ \A i \in 1 .. Len(s) : Append(s, ids)[i] = s[i]
          /\ Append(s, ids)[Len(s) + 1] = ids
      BY OneMore
    <3>3. QED
      BY <1>5, <3>1, <3>2
  <2>7. Len(out) = 2 + Len(Owed(k))
    BY <1>3 DEF Taken
  <2>8. ASSUME NEW i \in 1 .. Len(Owed(k + 1))
        PROVE  out'[i + 2] = EncodeAssign([j \in DOMAIN Owed(k + 1)[i] |-> Entry(Owed(k + 1)[i][j])])
    <3>1. CASE i \in 1 .. Len(Owed(k))
      <4>1. out'[i + 2] = out[i + 2]
        BY <2>3, <2>6, <2>7, <3>1
      <4>2. out[i + 2] = EncodeAssign([j \in DOMAIN Owed(k)[i] |-> Entry(Owed(k)[i][j])])
        BY <1>3, <3>1 DEF Taken
      <4>3. Owed(k + 1)[i] = Owed(k)[i]
        BY <2>6, <3>1
      <4>4. QED
        BY <4>1, <4>2, <4>3
    <3>2. CASE i = Len(Owed(k)) + 1
      <4>1. i + 2 = Len(out) + 1
        BY <2>6, <2>7, <3>2
      <4>2. out'[i + 2] = Replies(entries)
        BY <2>3, <4>1
      <4>3. Owed(k + 1)[i] = ids
        BY <2>6, <3>2
      <4>4. QED
        BY <2>5, <4>2, <4>3
    <3>3. QED
      BY <2>6, <3>1, <3>2
  <2>9. \A b \in FirstBroken : k + 1 < b
    <3>1. \A b \in FirstBroken : b \in Nat /\ k < b /\ b # k + 1
      BY <1>2, <1>3, <1>5, ScriptIs DEF Taken, FirstBroken
    <3>2. QED
      BY <1>6, <3>1
  <2>10. \A id : Entry(id)' = Entry(id)
    BY <1>1 DEF Entry
  <2>11. Len(out') = 2 + Len(Owed(k + 1))
    BY <2>3, <2>6, <2>7
  <2>12. Taken(k + 1)'
    <3>1. /\ Wire' = Wire /\ FirstBroken' = FirstBroken
          /\ Off(k + 1)' = Off(k + 1) /\ Owed(k + 1)' = Owed(k + 1)
      BY <1>1, StreamStands
    <3>2. QED
      BY <1>1, <1>5, <2>8, <2>9, <2>10, <2>11, <3>1 DEF Taken
  <2>13. Waiting(k + 1)' = Waiting(k + 1)
    BY <1>1, StreamStands
  <2>14. AtCapsule'
    BY <1>1, <1>5, <1>6, <2>1, <2>12, <2>13 DEF AtCapsule
  <2>15. Len(out') >= 1
    BY <2>3
  <2>16. address \in Assigned
    <3>1. Len(out) >= 1
      BY <2>6, <2>7
    <3>2. QED
      BY <3>1 DEF StreamInv
  <2>17. QED
    BY <1>1, <2>1, <2>14, <2>16 DEF StreamInv
<1>9. QED
  BY <1>7, <1>8

\* The answer has been sent: the reader is where it was.
LEMMA SentKeeps ==
  ASSUME StreamInv, AnswerSent
  PROVE  StreamInv'
<1>1. /\ reader = "sending" /\ reader' = "split"
      /\ UNCHANGED <<stage, address, script, out, received, pending>>
  BY DEF AnswerSent, handler, client
<1>2. PICK k \in 0 .. Len(script) : Taken(k) /\ pending = Waiting(k)
  BY <1>1 DEF StreamInv, AtCapsule
<1>3. Taken(k)'
  BY <1>1, <1>2, TakenStands
<1>4. AtCapsule'
  BY <1>1, <1>2, <1>3, StreamStands DEF AtCapsule
<1>5. QED
  BY <1>1, <1>4 DEF StreamInv

\* The reader ends: what it has said stands.
LEMMA EndKeeps ==
  ASSUME StreamInv, RecvEnds \/ AnswerFails \/ AbortRequest \/ CloseStream
  PROVE  StreamInv'
<1>1. /\ reader \in {"recv", "split", "sending", "closing"} /\ reader' \in {"closing", "ended"}
      /\ UNCHANGED <<stage, address, script, out, received>>
  BY DEF RecvEnds, AnswerFails, AbortRequest, CloseStream, handler, client
<1>2. PICK k \in 0 .. Len(script) : Taken(k)
  BY <1>1 DEF StreamInv, AtCapsule
<1>3. Taken(k)'
  BY <1>1, <1>2, TakenStands
<1>4. QED
  BY <1>1, <1>3 DEF StreamInv

\* The handler: the stream begins with the second capsule of the server.
LEMMA SetupKeeps ==
  ASSUME SaysInv, StreamInv, Setup
  PROVE  StreamInv'
<1>1. reader = "off" /\ received = 0 /\ pending = <<>> /\ received' = 0 /\ pending' = <<>>
  BY DEF Setup, Reject, Admit, Allocate, PoolExhausted, Create, CreateFails, Respond, Assign,
     Advertise, Signal, capsules, SaysInv, StreamInv
<1>2. CASE Advertise /\ CanSend
  <2>1. /\ reader' = "recv" /\ out' = Append(out, EncodeRoutes(<<DefaultRoute>>))
        /\ UNCHANGED <<address, script>> /\ stage = "advertise" /\ Len(out) = 1
    BY <1>2 DEF Advertise, Signal, client, SaysInv
  <2>2. Len(out') = 2
    <3> DEFINE c == EncodeRoutes(<<DefaultRoute>>)
    <3>1. PICK S : out \in Seq(S)
      BY DEF SaysInv
    <3>2. Len(Append(out, c)) = Len(out) + 1
      <4> HIDE DEF c
      <4>1. QED
        BY <3>1, OneMore
    <3>3. QED
      BY <2>1, <3>2
  <2>3. ScriptFits(script)
    BY AnyScriptFits
  <2>4. /\ Off(0) = 0 /\ Owed(0) = <<>> /\ Len(script) \in Nat /\ Wire \in Seq(Byte)
    BY <2>3, StreamIs, ScriptIs DEF Bytes
  <2>5. Wire' = Wire /\ FirstBroken' = FirstBroken /\ Off(0)' = Off(0) /\ Owed(0)' = Owed(0)
    BY <2>1, StreamStands
  <2>6. \A b \in FirstBroken : 0 < b
    BY <2>3, ScriptIs DEF FirstBroken
  <2>7. Taken(0)'
    <3>1. 0 \in 0 .. Len(Wire)
      BY <2>4
    <3>2. Len(Owed(0)) = 0
      BY <2>4
    <3>3. QED
      BY <1>1, <2>2, <2>4, <2>5, <2>6, <3>1, <3>2 DEF Taken
  <2>8. Waiting(0)' = <<>>
    <3>1. SubSeq(Wire, 1, 0) = <<>>
      BY <2>4, SubSeqProperties
    <3>2. QED
      BY <1>1, <2>4, <2>5, <3>1 DEF Waiting
  <2>9. 0 = Len(script) \/ 0 < Off(1)
    <3>1. CASE Len(script) = 0
      BY <3>1
    <3>2. CASE Len(script) # 0
      <4>1. 0 \in 0 .. Len(script) - 1
        BY <2>4, <3>2
      <4>2. Off(0) < Off(0 + 1)
        BY <2>3, <4>1, StreamIs
      <4>3. QED
        BY <2>4, <4>2
    <3>3. QED
      BY <3>1, <3>2
  <2>10. Off(1)' = Off(1)
    BY <2>1, StreamStands
  <2>11. AtCapsule'
    <3>1. 0 \in 0 .. Len(script')
      BY <2>1, <2>4
    <3>2. 0 = Len(script') \/ received' < Off(0 + 1)'
      BY <1>1, <2>1, <2>9, <2>10
    <3>3. QED
      BY <1>1, <2>7, <2>8, <3>1, <3>2 DEF AtCapsule
  <2>12. QED
    BY <1>1, <2>1, <2>11 DEF StreamInv
<1>3. CASE Reject \/ Admit \/ Allocate \/ PoolExhausted \/ Create \/ CreateFails \/ Respond
  <2>1. /\ reader' = "off" /\ out' = out /\ script' \in Scripts \cup {<<>>}
        /\ Len(out) = 0
    BY <1>1, <1>3 DEF Reject, Admit, Allocate, PoolExhausted, Create, CreateFails, Respond,
       Reply, capsules, client, SaysInv, StreamInv
  <2>2. stage' \in {"allocated", "created", "assign", "advertise", "running"} =>
          address' \in Assigned
    BY <1>3 DEF Reject, Admit, Allocate, PoolExhausted, Create, CreateFails, Respond, Reply,
       StreamInv
  <2>3. QED
    BY <1>1, <2>1, <2>2 DEF StreamInv
<1>4. CASE Assign \/ (Advertise /\ ~CanSend)
  <2>1. /\ reader' = "off" /\ UNCHANGED <<script, address>> /\ address \in Assigned
    BY <1>1, <1>4 DEF Assign, Advertise, client, Signal, StreamInv
  <2>2. Len(out') <= 1
    <3>1. CASE Assign /\ CanSend
      <4> DEFINE c == EncodeAssign(<<Entry(0)>>)
      <4>1. out' = Append(out, c) /\ Len(out) = 0
        BY <3>1 DEF Assign, Signal, SaysInv
      <4>2. PICK S : out \in Seq(S)
        BY DEF SaysInv
      <4>3. Len(Append(out, c)) = Len(out) + 1
        <5> HIDE DEF c
        <5>1. QED
          BY <4>2, OneMore
      <4>4. QED
        BY <4>1, <4>3
    <3>2. CASE ~CanSend
      <4>1. out' = out
        BY <1>4, <3>2 DEF Assign, Advertise, Signal
      <4>2. QED
        BY <1>1, <4>1 DEF StreamInv
    <3>3. QED
      BY <1>4, <3>1, <3>2
  <2>3. QED
    BY <1>1, <2>1, <2>2 DEF StreamInv
<1>5. QED
  BY <1>2, <1>3, <1>4 DEF Setup

\* Every step keeps the stream's invariant.
LEMMA StreamStep ==
  ASSUME SaysInv, StreamInv, [Next]_vars
  PROVE  StreamInv'
<1>1. CASE Setup
  BY <1>1, SetupKeeps
<1>2. CASE Reader
  BY <1>2, RecvKeeps, WaitKeeps, IgnoreKeeps, AnswerKeeps, SentKeeps, EndKeeps DEF Reader
<1>3. CASE Plane \/ Client \/ UNCHANGED vars
  <2>1. UNCHANGED <<handler, capsules, script>>
    BY <1>3 DEF Plane, ReadPacket, SendPacket, ReadDeviceFails, WritePacket, ChannelCloses,
       TearDown, Client, ClientEnds, ClientStops, LoseConnection, PathChanges, vars, client
  <2>2. UNCHANGED <<stage, address, script, out, received, pending, reader>>
    BY <2>1 DEF handler, capsules
  <2>3. AtCapsule => AtCapsule'
    BY <2>2, AtCapsuleStands
  <2>4. \A k : Taken(k) => Taken(k)'
    BY <2>2, TakenStands
  <2>5. QED
    BY <2>2, <2>3, <2>4 DEF StreamInv
<1>4. QED
  BY <1>1, <1>2, <1>3 DEF Next

\* The whole capsules among the bytes received are those whose end has been received.
LEMMA WholeIs ==
  ASSUME ScriptFits(script), NEW k \in 0 .. Len(script), received \in Off(k) .. Len(Wire)
  PROVE  /\ WholeIn(received) = {j \in 0 .. Len(script) : Off(j) <= received}
         /\ Max(WholeIn(received)) \in k .. Len(script)
         /\ k < Len(script) /\ received < Off(k + 1) => Max(WholeIn(received)) = k
<1> DEFINE W == WholeIn(received)
<1>1. Len(script) \in Nat /\ received \in Nat /\ Off(k) \in Nat
  BY ScriptIs, WaitingIs
<1>2. ASSUME NEW j \in 0 .. Len(script)
      PROVE  Len(FlattenSeq([i \in 1 .. j |-> script[i].wire])) = Off(j)
  <2>1. \A i \in 1 .. j : i \in 1 .. Len(script)
    BY <1>1
  <2>2. \A i \in 1 .. j : Wires[i] = script[i].wire
    BY <2>1, ScriptIs
  <2>3. [i \in 1 .. j |-> script[i].wire] = [i \in 1 .. j |-> Wires[i]]
    BY <2>2
  <2>4. QED
    BY <2>3 DEF Off, Sent, Restricted
<1>3. W = {j \in 0 .. Len(script) : Off(j) <= received}
  BY <1>2 DEF WholeIn
<1>4. k \in W /\ W \in SUBSET (0 .. Len(script))
  BY <1>1, <1>3
<1> HIDE DEF W
<1>5. Max(W) \in W /\ \A x \in W : x <= Max(W)
  BY <1>1, <1>4, MaxIs
<1> DEFINE m == Max(W)
<1>6. m \in 0 .. Len(script) /\ Off(m) <= received /\ k <= m
  BY <1>3, <1>4, <1>5
<1> HIDE DEF m
<1>7. m \in k .. Len(script)
  BY <1>1, <1>6
<1>8. ASSUME k < Len(script), received < Off(k + 1) PROVE m = k
  <2> SUFFICES ASSUME m # k PROVE FALSE
    OBVIOUS
  <2>1. k + 1 \in 0 .. Len(script) /\ m \in k + 1 .. Len(script)
    BY <1>1, <1>7, <1>8
  <2>2. Off(k + 1) <= Off(m)
    BY <2>1, Offsets
  <2>3. Off(k + 1) \in Nat /\ Off(m) \in Nat
    BY <1>6, <2>1, StreamIs
  <2>4. QED
    BY <1>1, <1>6, <1>8, <2>2, <2>3
<1>9. QED
  BY <1>3, <1>7, <1>8 DEF W, m

\* What should have been said after the bytes received is what is owed for some number
\* of capsules: at least those taken, and no more while the reader waits for bytes.
LEMMA DueIs ==
  ASSUME ScriptFits(script), NEW k \in 0 .. Len(script), Taken(k)
  PROVE  \E c \in k .. Len(script) :
           /\ Due(received) = Owed(c)
           /\ k = Len(script) \/ received < Off(k + 1) => c = k
<1> DEFINE R == Reached(received)
           m == Max(WholeIn(received))
           c == Cardinality(R)
<1>1. received \in Off(k) .. Len(Wire) /\ Len(script) \in Nat /\ \A b \in FirstBroken : k < b
  BY ScriptIs DEF Taken
<1>2. /\ m \in k .. Len(script)
      /\ k < Len(script) /\ received < Off(k + 1) => m = k
  BY <1>1, WholeIs
<1>3. R = {j \in 1 .. m : \A b \in FirstBroken : j < b}
  BY DEF Reached
<1>4. \A b \in FirstBroken : b \in Nat
  BY ScriptIs DEF FirstBroken
<1> HIDE DEF m, R
<1>5. 1 .. k \subseteq R /\ R \subseteq 1 .. Len(script)
  <2>1. \A j \in 1 .. k : j \in 1 .. m
    BY <1>2
  <2>2. \A j \in 1 .. k : \A b \in FirstBroken : j < b
    BY <1>1, <1>4
  <2>3. \A j \in 1 .. m : j \in 1 .. Len(script)
    BY <1>1, <1>2
  <2>4. QED
    BY <1>3, <2>1, <2>2, <2>3
<1>6. /\ IsFiniteSet(1 .. Len(script)) /\ Cardinality(1 .. Len(script)) = Len(script)
      /\ Cardinality(1 .. k) = k
  <2>1. \A n \in Nat : IsFiniteSet(1 .. n) /\ Cardinality(1 .. n) = n
    <3>1. ASSUME NEW n \in Nat PROVE IsFiniteSet(1 .. n) /\ Cardinality(1 .. n) = n
      <4>1. /\ IsFiniteSet(1 .. n)
            /\ Cardinality(1 .. n) = IF 1 > n THEN 0 ELSE n - 1 + 1
        BY FS_Interval
      <4>2. QED
        BY <4>1
    <3>2. QED
      BY <3>1
  <2>2. QED
    BY <1>1, <2>1
<1>7. IsFiniteSet(R) /\ c \in Nat /\ c <= Len(script)
  <2>1. IsFiniteSet(R) /\ c <= Cardinality(1 .. Len(script))
    BY <1>5, <1>6, FS_Subset
  <2>2. c \in Nat
    BY <2>1, FS_CardinalityType
  <2>3. QED
    BY <1>6, <2>1, <2>2
<1>8. k <= c
  <2>1. Cardinality(1 .. k) <= Cardinality(R)
    BY <1>5, <1>7, FS_Subset
  <2>2. QED
    BY <1>6, <2>1
<1> HIDE DEF c
<1>9. c \in k .. Len(script)
  BY <1>1, <1>7, <1>8
<1>10. Due(received) = Owed(c)
  <2>1. Due(received) = FlattenSeq([i \in 1 .. c |-> Answer(i)])
    BY DEF Due, c, R
  <2>2. \A i \in 1 .. c : i \in 1 .. Len(script)
    BY <1>1, <1>7
  <2>3. \A i \in 1 .. c : Answers[i] = Answer(i)
    BY <2>2, ScriptIs
  <2>4. [i \in 1 .. c |-> Answer(i)] = [i \in 1 .. c |-> Answers[i]]
    BY <2>3
  <2>5. QED
    BY <2>1, <2>4 DEF Owed, Restricted
<1>11. ASSUME k = Len(script) \/ received < Off(k + 1) PROVE c = k
  <2>1. CASE k = Len(script)
    BY <1>7, <1>8, <2>1
  <2>2. CASE k # Len(script)
    <3>1. m = k
      BY <1>1, <1>2, <1>11, <2>2
    <3>2. R = 1 .. k
      BY <1>3, <1>5, <3>1
    <3>3. QED
      BY <1>6, <3>2 DEF c
  <2>3. QED
    BY <2>1, <2>2
<1>12. QED
  BY <1>9, <1>10, <1>11

\* A sequence is a prefix of what it begins.
LEMMA BeginsIsPrefix ==
  ASSUME NEW S, NEW a \in Seq(S), NEW b, Begins(a, b, S)
  PROVE  IsPrefix(a, b)
<1>1. PICK t \in Seq(S) : b = a \o t
  BY DEF Begins
<1>2. Len(b) = Len(a) + Len(t) /\ Len(a) \in Nat /\ Len(t) \in Nat
  BY <1>1, ConcatProperties
<1>3. SubSeq(a, 1, Len(a)) = SubSeq(b, 1, Len(a))
  <2>1. CASE Len(a) = 0
    BY <1>1, <1>2, <2>1, SubSeqProperties
  <2>2. CASE Len(a) # 0
    <3>1. 1 \in 1 .. Len(a) /\ Len(a) \in 1 .. Len(a)
      BY <1>2, <2>2
    <3>2. QED
      BY <1>1, <3>1, SubSeqOfConcat1
  <2>3. QED
    BY <2>1, <2>2
<1>4. QED
  BY <1>2, <1>3 DEF IsPrefix

\* The client reads back the entries of an answer and the range of the default route.
LEMMA EntriesFit ==
  ASSUME NEW a \in Assigned, NEW ids \in Seq(Nat), ids \in IdLists
  PROVE  DecodeEntries[SplitCapsule(EncodeAssign(EntriesOf(a, ids))).value].items = EntriesOf(a, ids)
<1> DEFINE entries == EntriesOf(a, ids)
           n == Len(ids)
<1>1. n \in Nat /\ DOMAIN ids = 1 .. n /\ \A i \in 1 .. n : ids[i] \in Nat
  OBVIOUS
<1>2. /\ a.version \in {4, 6} /\ a.addr \in Bytes /\ Len(a.addr) = AddrLen[a.version]
      /\ a.prefix \in Byte /\ a.prefix <= Len(a.addr) * ByteBits
      /\ \A i \in DOMAIN ids : ids[i] < VarintLimit
      /\ Len(EncodeEntries(entries)) < VarintLimit
  BY AnswerAssumption
<1>3. entries = [i \in 1 .. n |-> EntryOf(a, ids[i])]
  BY <1>1 DEF EntriesOf
<1> HIDE DEF entries, n
<1>4. ASSUME NEW i \in 1 .. n PROVE EntryFits(entries[i])
  <2>1. entries[i] = EntryOf(a, ids[i]) /\ ids[i] \in 0 .. VarintLimit - 1
    <3>1. ids[i] \in Nat /\ ids[i] < VarintLimit /\ VarintLimit \in Nat
      BY <1>1, <1>2, LimitIs
    <3>2. QED
      BY <1>3, <3>1
  <2>2. EntryFits(EntryOf(a, ids[i]))
    BY <1>2, <2>1 DEF EntryFits, EntryOf
  <2>3. QED
    BY <2>1, <2>2
<1>5. entries = [i \in 1 .. n |-> entries[i]]
  BY <1>3
<1>6. DecodeEntries[SplitCapsule(EncodeAssign(entries)).value] = Whole(entries)
  BY <1>1, <1>2, <1>4, <1>5, AssignRoundTrip
<1>7. QED
  BY <1>6 DEF Whole, entries

\* The same for the range of the default route.
LEMMA RouteFits ==
  ASSUME NEW a \in Assigned
  PROVE  DecodeRanges[SplitCapsule(EncodeRoutes(<<RouteOf(a)>>)).value].items = <<RouteOf(a)>>
<1> DEFINE r == RouteOf(a)
           ranges == <<r>>
           n == AddrLen[a.version]
<1>1. a.version \in {4, 6} /\ Len(EncodeRanges(ranges)) < VarintLimit
  BY AnswerAssumption
<1>2. n \in Nat /\ 0 \in Byte /\ Base - 1 \in Byte
  BY <1>1, CodecAssumption, BaseIs
<1>3. /\ r.start = [i \in 1 .. n |-> 0] /\ r.end = [i \in 1 .. n |-> Base - 1]
      /\ r.version = a.version /\ r.proto = 0
      /\ r = [version |-> r.version, start |-> r.start, end |-> r.end, proto |-> r.proto]
  BY DEF RouteOf
<1> HIDE DEF r
<1>4. /\ r.start \in Bytes /\ Len(r.start) = n
      /\ r.end \in Bytes /\ Len(r.end) = n
  <2>1. r.start \in [1 .. n -> Byte] /\ r.end \in [1 .. n -> Byte]
    BY <1>2, <1>3
  <2> HIDE DEF n
  <2>2. QED
    BY <1>2, <2>1 DEF Bytes
<1>5. Number(r.start) <= Number(r.end)
  <2> HIDE DEF n
  <2>1. Number(r.start) = 0
    BY <1>2, <1>3, ZeroIs
  <2>2. Number(r.end) \in Nat
    BY <1>4, NumberIs, VarintValueType
  <2>3. QED
    BY <2>1, <2>2
<1>6. RangeFits(r)
  BY <1>1, <1>2, <1>3, <1>4, <1>5 DEF RangeFits
<1>7. /\ 1 \in Nat /\ ranges = [i \in 1 .. 1 |-> ranges[i]]
      /\ \A i \in 1 .. 1 : RangeFits(ranges[i])
  BY <1>6
<1> HIDE DEF ranges
<1>8. DecodeRanges[SplitCapsule(EncodeRoutes(ranges)).value] = Whole(ranges)
  BY <1>1, <1>7, RoutesRoundTrip
<1>9. QED
  BY <1>8 DEF Whole, ranges, r

\* The client makes of an answer the IDs it was made for.
LEMMA IdsAre ==
  ASSUME address \in Assigned, NEW ids \in Seq(Nat), ids \in IdLists
  PROVE  Ids(EncodeAssign([j \in DOMAIN ids |-> Entry(ids[j])])) = ids
<1> DEFINE entries == EntriesOf(address, ids)
<1>1. DecodeEntries[SplitCapsule(EncodeAssign(entries)).value].items = entries
  BY EntriesFit
<1>2. [j \in DOMAIN ids |-> Entry(ids[j])] = entries
  BY DEF Entry, EntriesOf
<1>3. IdsOf(entries) = ids
  <2>1. DOMAIN entries = DOMAIN ids
    BY DEF EntriesOf
  <2>2. ASSUME NEW i \in DOMAIN ids
        PROVE  entries[i] = Entry(entries[i].id) /\ entries[i].id = ids[i]
    <3>1. entries[i] = EntryOf(address, ids[i])
      BY DEF EntriesOf
    <3>2. EntryOf(address, ids[i]).id = ids[i]
      BY DEF EntryOf
    <3> HIDE DEF entries
    <3>3. QED
      BY <3>1, <3>2 DEF Entry
  <2> HIDE DEF entries
  <2>3. IdsOf(entries) = [i \in DOMAIN ids |-> ids[i]]
    BY <2>1, <2>2 DEF IdsOf
  <2>4. QED
    BY <2>3
<1> HIDE DEF entries
<1>4. QED
  BY <1>1, <1>2, <1>3 DEF Ids

\* The two invariants give the answers in order.
LEMMA AnswersHold ==
  ASSUME SaysInv, StreamInv
  PROVE  AnswersInOrder
<1>1. PICK S : out \in Seq(S)
  BY DEF SaysInv
<1>2. Len(out) \in Nat
  BY <1>1
<1>3. ASSUME Len(out) >= 1 PROVE Ids(out[1]) = <<0>>
  <2> DEFINE ids == <<0>>
  <2>1. ids \in Seq(Nat) /\ DOMAIN ids = {1} /\ ids[1] = 0
    OBVIOUS
  <2>2. <<Entry(0)>> = [j \in DOMAIN ids |-> Entry(ids[j])]
    OBVIOUS
  <2>3. address \in Assigned /\ out[1] = EncodeAssign(<<Entry(0)>>)
    BY <1>2, <1>3 DEF StreamInv, SaysInv, ServerSays
  <2>4. ids \in IdLists
    BY DEF IdLists
  <2> HIDE DEF ids
  <2>5. Ids(EncodeAssign([j \in DOMAIN ids |-> Entry(ids[j])])) = ids
    BY <2>1, <2>3, <2>4, IdsAre
  <2>6. QED
    BY <2>2, <2>3, <2>5 DEF ids
<1>4. ASSUME Len(out) >= 2
      PROVE  DecodeRanges[SplitCapsule(out[2]).value].items = <<DefaultRoute>>
  <2>1. address \in Assigned /\ out[2] = EncodeRoutes(<<DefaultRoute>>)
    BY <1>2, <1>4 DEF StreamInv, SaysInv, ServerSays
  <2>2. DecodeRanges[SplitCapsule(EncodeRoutes(<<RouteOf(address)>>)).value].items =
          <<RouteOf(address)>>
    BY <2>1, RouteFits
  <2>3. QED
    BY <2>1, <2>2 DEF DefaultRoute
<1>5. ASSUME Len(out) >= 2
      PROVE  /\ IsPrefix(Told, Due(received))
             /\ reader = "recv" => Len(Told) = Len(Due(received))
  <2>1. ScriptFits(script) /\ Len(script) \in Nat
    BY AnyScriptFits, ScriptIs
  <2>2. PICK k \in 0 .. Len(script) :
          /\ Taken(k)
          /\ reader = "recv" => k = Len(script) \/ received < Off(k + 1)
    BY <1>2, <1>5 DEF StreamInv, AtCapsule
  <2>3. address \in Assigned
    BY <1>2, <1>5 DEF StreamInv
  <2>4. Owed(k) \in Seq(AskedIds) /\ Len(Owed(k)) \in Nat
    BY <2>1, StreamIs
  <2>5. ASSUME NEW i \in 1 .. Len(Owed(k)) PROVE Ids(out[i + 2]) = Owed(k)[i]
    <3>1. Owed(k)[i] \in AskedIds
      BY <2>4
    <3>2. PICK j \in DOMAIN script : Owed(k)[i] = script[j].ids
      BY <3>1 DEF AskedIds
    <3>3. script \in Scripts
      <4>1. script # <<>>
        BY <3>2
      <4>2. QED
        BY <4>1 DEF StreamInv
    <3>4. Owed(k)[i] \in IdLists
      BY <3>2, <3>3 DEF IdLists
    <3>5. Owed(k)[i] \in Seq(Nat)
      BY <2>1, <3>2, ScriptIs DEF CapsuleFits
    <3>6. out[i + 2] = EncodeAssign([j_1 \in DOMAIN Owed(k)[i] |-> Entry(Owed(k)[i][j_1])])
      BY <2>2 DEF Taken
    <3>7. QED
      BY <2>3, <3>4, <3>5, <3>6, IdsAre
  <2>6. Told = Owed(k)
    <3>1. Len(out) - 2 = Len(Owed(k))
      BY <2>2, <2>4 DEF Taken
    <3>2. Told = [i \in 1 .. Len(Owed(k)) |-> Owed(k)[i]]
      BY <2>5, <3>1 DEF Told
    <3>3. QED
      BY <2>4, <3>2
  <2>7. PICK c \in k .. Len(script) :
          /\ Due(received) = Owed(c)
          /\ k = Len(script) \/ received < Off(k + 1) => c = k
    BY <2>1, <2>2, DueIs
  <2>8. Begins(Owed(k), Owed(c), AskedIds)
    BY <2>1, Offsets
  <2>9. IsPrefix(Owed(k), Owed(c))
    BY <2>4, <2>8, BeginsIsPrefix
  <2>10. QED
    BY <2>2, <2>6, <2>7, <2>9
<1>6. reader = "recv" => Len(out) >= 2
  BY DEF SaysInv
<1>7. QED
  BY <1>3, <1>4, <1>5, <1>6 DEF AnswersInOrder

\* Nothing has been received at the start.
LEMMA StreamStarts == Init => StreamInv
<1> SUFFICES ASSUME Init PROVE StreamInv
  OBVIOUS
<1>1. out = <<>> /\ Len(out) = 0
  BY DEF Init
<1>2. QED
  BY <1>1 DEF Init, StreamInv

\* For every script of the client and all pieces its stream may arrive in: the address
\* and the route come first, then one answer for each request in the order of the
\* requests, and none is left over while the reader waits for more (masque.rs:724-790).
THEOREM AllAnswered == Spec => []AnswersInOrder
<1>1. SaysInv /\ StreamInv /\ [Next]_vars => (SaysInv /\ StreamInv)'
  BY StreamStep, SaysStep
<1>2. SaysInv /\ StreamInv => AnswersInOrder
  BY AnswersHold
<1>3. QED
  BY <1>1, <1>2, SaysStarts, StreamStarts, PTL DEF Spec
=============================================================================
