------------------------------ MODULE IpTunnel -----------------------------
(***************************************************************************)
(* One request to the MASQUE server, from its dispatch to the end of the   *)
(* CONNECT-IP tunnel it may become: handle_ip_stream of src/src/masque.rs  *)
(* with the codec of capsule.rs.  Requests of the other arms end here once *)
(* they are validated; MasqueConn and TcpTunnel take them further.         *)
(*                                                                         *)
(* After the 200 two tasks run: the capsule reader, which buffers whatever *)
(* pieces of the client's stream arrive and answers each ADDRESS_REQUEST,  *)
(* and the data plane between the tun device and HTTP datagrams.  A        *)
(* `teardown' tells the second that the first has ended.                   *)
(***************************************************************************)
EXTENDS Dispatch, Capsule, FiniteSets

CONSTANTS
  Requests,    \* requests a client may make
  Scripts,     \* what a client may write on its stream: sequences of capsules
  Messages,    \* datagrams a client may send
  Assigned,    \* (address, prefix) pairs the pool may hand out
  MaxPending,  \* the limit of the capsule buffer: 1 MiB
  Overhead,    \* DATAGRAM_OVERHEAD, 8
  Margin,      \* further bytes the device's MTU leaves free, 40
  QuarterId,   \* bytes of the Quarter Stream ID, which h3-datagram adds
  DefaultMtu,  \* the kernel's MTU of a device that was given none
  Rooms        \* values of max_datagram_size; 0 if there is none

ASSUME SizeAssumption ==
  /\ {MaxPending, Overhead, Margin, QuarterId, DefaultMtu} \subseteq Nat \ {0}
  /\ QuarterId <= Overhead
  /\ Rooms \subseteq Nat

\* The forms of a request that Dispatch tells apart.
ASSUME RequestAssumption ==
  \A r \in Requests : /\ r # None
                      /\ r.capsule \in BOOLEAN /\ r.cred.decodes \in BOOLEAN
                      /\ r.cred.scheme \in {"Bearer", "Basic", "other"}

\* What a capsule of a client is: as bytes, as the IDs it asks for, and whether it must
\* end the tunnel, which a malformed or empty ADDRESS_REQUEST does.
WellFormed(request) == request.ok /\ (request.ok => request.items # <<>>)

CapsuleFits(c) ==
  LET split == SplitCapsule(c.wire)
      request == DecodeEntries[split.value]
  IN /\ c.wire \in Bytes /\ c.ids \in Seq(Nat) /\ c.broken \in BOOLEAN
     /\ split.ok /\ split.rest = <<>>
     /\ c.broken <=> split.typ = AddressRequest /\ ~WellFormed(request)
     /\ c.ids # <<>> <=> split.typ = AddressRequest /\ ~c.broken
     /\ c.ids # <<>> => c.ids = [i \in DOMAIN request.items |-> request.items[i].id]

ScriptFits(s) ==
  s \in Seq({s[k] : k \in DOMAIN s}) /\ \A k \in DOMAIN s : CapsuleFits(s[k])

ASSUME ScriptAssumption == \A s \in Scripts : ScriptFits(s)

\* A datagram of a client is a Context ID, in whatever many bytes, and a packet, or is
\* too short for its Context ID.
ASSUME MessageAssumption ==
  \A m \in Messages :
    \/ ~GetVarint(m.wire).ok
    \/ \E n \in 0 .. Len(m.wire) :
         /\ SubSeq(m.wire, 1, n) \in Bytes /\ m.packet \in Bytes
         /\ m.wire = SubSeq(m.wire, 1, n) \o m.packet
         /\ GetVarint(SubSeq(m.wire, 1, n)) =
              [ok |-> TRUE, value |-> m.context, rest |-> <<>>]

VARIABLES
  req,        \* the request, until it is admitted
  stage,      \* where the handler stands before its loops: see Stages
  answer,     \* the status sent, 0 if none
  conn,       \* the QUIC connection: "open" or "lost"
  clientEnd,  \* the client's side of the stream: "open", "fin" or "reset"
  stopped,    \* the client refuses the response (STOP_SENDING)
  address,    \* what the pool handed out
  script,     \* the capsules the client writes
  received,   \* how many bytes of them the reader has taken
  pending,    \* the bytes it has not decoded yet
  reader,     \* the reader task: "off", "recv", "split", "sending", "closing" or "ended"
  out,        \* capsules sent to the client
  teardown,   \* the oneshot has been resolved
  plane,      \* the data plane: "off", "select", "sending" or "ended"
  device,     \* history: the last packet written to the device
  room,       \* max_datagram_size now
  mtu,        \* the MTU of the device, and the room it was made for
  held,       \* size of the packet between the check and the send
  shrunk,     \* history: room has been less than the device was made for
  tooBig      \* history: a packet of the device did not fit a datagram

handler == <<req, stage, answer, address>>
client == <<conn, clientEnd, stopped, script>>
capsules == <<received, pending, reader, out, teardown>>
packets == <<plane, device, held, tooBig>>
sizes == <<room, mtu, shrunk>>
vars == <<handler, client, capsules, packets, sizes>>

Stages == {"start", "valid", "allocated", "created", "assign", "advertise", "running", "done"}

Init ==
  /\ req \in Requests /\ stage = "start" /\ answer = 0
  /\ conn = "open" /\ clientEnd = "open" /\ stopped = FALSE
  /\ address = None /\ script = <<>>
  /\ received = 0 /\ pending = <<>> /\ reader = "off" /\ out = <<>> /\ teardown = FALSE
  /\ plane = "off" /\ device = <<>> /\ held = 0 /\ tooBig = FALSE
  /\ room \in Rooms /\ mtu = [size |-> 0, madeFor |-> 0] /\ shrunk = FALSE

(***************************************************************************)
(* The handler up to its loops.                                            *)
(***************************************************************************)
CanSend == conn = "open" /\ ~stopped

\* send_status and the end of the handler; a failed send ends it as well.
Reply(status) ==
  /\ answer' = IF CanSend THEN status ELSE 0
  /\ stage' = "done"

Reject ==
  /\ stage = "start" /\ Validate(req) # 200
  /\ Reply(Validate(req))
  /\ UNCHANGED <<req, address, client, capsules, packets, sizes>>

\* The request is not used again.  The capsules the client will write are chosen here.
Admit ==
  /\ stage = "start" /\ Validate(req) = 200 /\ req' = None
  /\ IF Arm(req) = "ip" THEN stage' = "valid" /\ script' \in Scripts
                       ELSE stage' = "done" /\ UNCHANGED script
  /\ UNCHANGED <<answer, address, conn, clientEnd, stopped, capsules, packets, sizes>>

\* IpPool::allocate: see IpPool for what it hands out and when it refuses.
Allocate ==
  /\ stage = "valid" /\ stage' = "allocated"
  /\ address' \in Assigned
  /\ UNCHANGED <<req, answer, client, capsules, packets, sizes>>

PoolExhausted ==
  /\ stage = "valid" /\ Reply(503)
  /\ UNCHANGED <<req, address, client, capsules, packets, sizes>>

\* Faulty variant: the MTU leaves room for the overhead only.
TightMtu == IF room > Overhead THEN room - Overhead ELSE 0

\* max_datagram_size().map(saturating_sub).filter(> 0); 0 is None.
TunMtu == IF room > Overhead + Margin THEN room - (Overhead + Margin) ELSE 0

\* TunDevice::create: see TunGateway for what it does to the host.
Create ==
  /\ stage = "allocated" /\ stage' = "created"
  /\ mtu' = [size |-> TunMtu, madeFor |-> room]
  /\ UNCHANGED <<req, answer, address, client, capsules, packets, room, shrunk>>

CreateFails ==
  /\ stage = "allocated" /\ Reply(500)
  /\ UNCHANGED <<req, address, client, capsules, packets, sizes>>

\* The 200 with an empty body; if it cannot be sent the handler returns.
Respond ==
  /\ stage = "created"
  /\ answer' = IF CanSend THEN 200 ELSE 0
  /\ stage' = IF CanSend THEN "assign" ELSE "done"
  /\ UNCHANGED <<req, address, client, capsules, packets, sizes>>

EntryOf(a, id) == [id |-> id, version |-> a.version, addr |-> a.addr, prefix |-> a.prefix]
Entry(id) == EntryOf(address, id)

\* default_route_range: every address of the version, every protocol.
RouteOf(a) ==
  [version |-> a.version,
   start |-> [i \in 1 .. AddrLen[a.version] |-> 0],
   end |-> [i \in 1 .. AddrLen[a.version] |-> Base - 1],
   proto |-> 0]
DefaultRoute == RouteOf(address)

\* The Request IDs of the capsules the server may have to send.
IdLists == {<<0>>} \cup UNION {{s[k].ids : k \in DOMAIN s} : s \in Scripts}
EntriesOf(a, ids) == [i \in DOMAIN ids |-> EntryOf(a, ids[i])]

\* The pool hands out addresses with prefixes that fit them; an ID was read from a
\* varint, and no answer is as long as a varint can count (2^62 bytes in the program).
ASSUME AnswerAssumption ==
  \A a \in Assigned :
    /\ a.version \in {4, 6} /\ a.addr \in Bytes /\ Len(a.addr) = AddrLen[a.version]
    /\ a.prefix \in Byte /\ a.prefix <= Len(a.addr) * ByteBits
    /\ Len(EncodeRanges(<<RouteOf(a)>>)) < VarintLimit
    /\ \A ids \in IdLists :
         /\ \A i \in DOMAIN ids : ids[i] < VarintLimit
         /\ Len(EncodeEntries(EntriesOf(a, ids))) < VarintLimit

\* send_data of one of the two unprompted capsules, or finish and return.
Signal(from, to, capsule) ==
  /\ stage = from
  /\ stage' = IF CanSend THEN to ELSE "done"
  /\ out' = IF CanSend THEN Append(out, capsule) ELSE out

Assign ==
  /\ Signal("assign", "advertise", EncodeAssign(<<Entry(0)>>))
  /\ UNCHANGED <<req, answer, address, client, received, pending, reader, teardown,
                 packets, sizes>>

\* The stream is split, the reader spawned and the data plane entered.
Advertise ==
  /\ Signal("advertise", "running", EncodeRoutes(<<DefaultRoute>>))
  /\ reader' = IF CanSend THEN "recv" ELSE "off"
  /\ plane' = IF CanSend THEN "select" ELSE "off"
  /\ UNCHANGED <<req, answer, address, client, received, pending, teardown,
                 device, held, tooBig, sizes>>

Setup == \/ Reject \/ Admit \/ Allocate \/ PoolExhausted \/ Create \/ CreateFails
         \/ Respond \/ Assign \/ Advertise

(***************************************************************************)
(* The capsule reader.                                                     *)
(***************************************************************************)
Wire == FlattenSeq([i \in DOMAIN script |-> script[i].wire])

\* recv_data gives some of what the client has written; the size of the buffer is
\* looked at before anything is taken out of it.
Recv ==
  /\ reader = "recv" /\ conn = "open" /\ clientEnd # "reset"
  /\ \E n \in received + 1 .. Len(Wire) :
       /\ received' = n
       /\ pending' = pending \o SubSeq(Wire, received + 1, n)
       /\ reader' = IF Len(pending') > MaxPending THEN "closing" ELSE "split"
  /\ UNCHANGED <<handler, client, out, teardown, packets, sizes>>

\* End of stream after the last byte, or an error.
RecvEnds ==
  /\ reader = "recv"
  /\ \/ clientEnd = "fin" /\ received = Len(Wire)
     \/ clientEnd = "reset" \/ conn = "lost"
  /\ reader' = "closing"
  /\ UNCHANGED <<handler, client, received, pending, out, teardown, packets, sizes>>

\* No whole capsule is left: wait for more bytes.
SplitNothing ==
  /\ reader = "split" /\ ~SplitCapsule(pending).ok
  /\ reader' = "recv"
  /\ UNCHANGED <<handler, client, received, pending, out, teardown, packets, sizes>>

\* split_to: the first capsule leaves the buffer.
TakeCapsule == SplitCapsule(pending).ok /\ pending' = SplitCapsule(pending).rest

\* ADDRESS_ASSIGN, ROUTE_ADVERTISEMENT and unknown types change nothing.
IgnoreCapsule ==
  /\ reader = "split" /\ TakeCapsule
  /\ SplitCapsule(pending).typ # AddressRequest
  /\ UNCHANGED <<handler, client, received, reader, out, teardown, packets, sizes>>

Prompted == SplitCapsule(pending).ok /\ SplitCapsule(pending).typ = AddressRequest
Decoded == DecodeEntries[SplitCapsule(pending).value]

\* Faulty variant: an answer has the Request ID of an unprompted assignment.
RepliesUnprompted(entries) == EncodeAssign([i \in DOMAIN entries |-> Entry(0)])

\* Every Request ID is answered with the one address of the session.
Replies(entries) == EncodeAssign([i \in DOMAIN entries |-> Entry(entries[i].id)])

\* The answer is handed to the stream, or the stream takes no more.
AnswerRequest ==
  /\ reader = "split" /\ Prompted /\ TakeCapsule
  /\ \E request \in {Decoded} :
       WellFormed(request) /\ out' = IF CanSend THEN Append(out, Replies(request.items)) ELSE out
  /\ reader' = IF CanSend THEN "sending" ELSE "closing"
  /\ UNCHANGED <<handler, client, received, teardown, packets, sizes>>

\* Faulty variant: after an answer the reader waits for more bytes.
AnswerSentWaits ==
  /\ reader = "sending" /\ CanSend /\ reader' = "recv"
  /\ UNCHANGED <<handler, client, received, pending, out, teardown, packets, sizes>>

\* send_data returns once the client has granted the credit for the answer, until when
\* the reader reads nothing.
AnswerSent ==
  /\ reader = "sending" /\ CanSend /\ reader' = "split"
  /\ UNCHANGED <<handler, client, received, pending, out, teardown, packets, sizes>>

\* send_data fails while the reader waits in it.
AnswerFails ==
  /\ reader = "sending" /\ ~CanSend /\ reader' = "closing"
  /\ UNCHANGED <<handler, client, received, pending, out, teardown, packets, sizes>>

\* Faulty variant: a broken request is skipped like an unknown capsule.
AbortRequestNot ==
  /\ reader = "split" /\ Prompted /\ ~WellFormed(Decoded) /\ TakeCapsule
  /\ UNCHANGED <<handler, client, received, reader, out, teardown, packets, sizes>>

\* An ADDRESS_REQUEST that is malformed or empty aborts the stream.
AbortRequest ==
  /\ reader = "split" /\ Prompted /\ ~WellFormed(Decoded) /\ TakeCapsule
  /\ reader' = "closing"
  /\ UNCHANGED <<handler, client, received, out, teardown, packets, sizes>>

\* The data plane is told; how the response is finished then is in MasqueConn.
CloseStream ==
  /\ reader = "closing" /\ reader' = "ended" /\ teardown' = TRUE
  /\ UNCHANGED <<handler, client, received, pending, out, packets, sizes>>

Reader == \/ Recv \/ RecvEnds \/ SplitNothing \/ IgnoreCapsule
          \/ AnswerRequest \/ AnswerSent \/ AnswerFails
          \/ AbortRequest \/ CloseStream

(***************************************************************************)
(* The data plane.                                                         *)
(***************************************************************************)
DeviceMtu == IF mtu.size = 0 THEN DefaultMtu ELSE mtu.size

\* A packet of the device, no longer than its MTU, with its Context ID: it is
\* dropped if it does not fit the datagrams of this moment.  The shortest and the
\* longest stand for all sizes: each size up to the room is sent the same way.
ReadPacket ==
  /\ plane = "select"
  /\ \E n \in {1, DeviceMtu} :
       IF 1 + n + Overhead > room
       THEN tooBig' = TRUE /\ UNCHANGED <<plane, held>>
       ELSE plane' = "sending" /\ held' = n /\ UNCHANGED tooBig
  /\ UNCHANGED <<handler, client, capsules, device, sizes>>

\* send_datagram takes the limit anew.  An error ends the data plane.
SendPacket ==
  /\ plane = "sending" /\ held' = 0
  /\ plane' = IF conn = "open" /\ 1 + held + QuarterId <= room THEN "select" ELSE "ended"
  /\ tooBig' = (tooBig \/ 1 + held + QuarterId > room)
  /\ UNCHANGED <<handler, client, capsules, device, sizes>>

ReadDeviceFails ==
  /\ plane = "select" /\ plane' = "ended"
  /\ UNCHANGED <<handler, client, capsules, device, held, tooBig, sizes>>

\* A datagram out of the channel (any that the client may send): the packet in it is
\* written, or the write fails and is logged; anything but Context ID 0 is dropped.
WritePacket ==
  /\ plane = "select"
  /\ \E m \in Messages :
       LET d == StripContextId(m.wire)
       IN device' \in IF d.ok THEN {device, d.packet} ELSE {device}
  /\ UNCHANGED <<handler, client, capsules, plane, held, tooBig, sizes>>

\* The routing table of a lost connection is cleared: rx.recv() answers None.
ChannelCloses ==
  /\ plane = "select" /\ conn = "lost" /\ plane' = "ended"
  /\ UNCHANGED <<handler, client, capsules, device, held, tooBig, sizes>>

TearDown ==
  /\ plane = "select" /\ teardown /\ plane' = "ended"
  /\ UNCHANGED <<handler, client, capsules, device, held, tooBig, sizes>>

Plane == \/ ReadPacket \/ SendPacket \/ ReadDeviceFails \/ WritePacket
         \/ ChannelCloses \/ TearDown

(***************************************************************************)
(* The client and the path.                                                *)
(***************************************************************************)
ClientEnds ==
  /\ clientEnd = "open" /\ clientEnd' \in {"fin", "reset"}
  /\ UNCHANGED <<handler, conn, stopped, script, capsules, packets, sizes>>

ClientStops ==
  /\ ~stopped /\ stopped' = TRUE
  /\ UNCHANGED <<handler, conn, clientEnd, script, capsules, packets, sizes>>

LoseConnection ==
  /\ conn = "open" /\ conn' = "lost"
  /\ UNCHANGED <<handler, clientEnd, stopped, script, capsules, packets, sizes>>

\* Path MTU discovery finds more room, or black-hole detection less.
PathChanges ==
  /\ conn = "open" /\ room' \in Rooms \ {room}
  /\ shrunk' = (shrunk \/ (stage \notin {"start", "valid", "allocated"} /\ room' < mtu.madeFor))
  /\ UNCHANGED <<handler, client, capsules, packets, mtu>>

\* What the client does to a stream that has ended, and what happens to a connection
\* after both tasks have ended, is not followed.
StreamOver == stage = "done" \/ reader = "ended"
TunnelOver == stage = "done" \/ (reader = "ended" /\ plane = "ended")
Client == \/ ~StreamOver /\ (ClientEnds \/ ClientStops)
          \/ ~TunnelOver /\ (LoseConnection \/ PathChanges)

Next == Setup \/ Reader \/ Plane \/ Client

Spec == Init /\ [][Next]_vars

\* The reader has something to do that does not wait for the client: bytes or the end
\* have arrived, a capsule is being handled, or its send has failed.
ReaderCanGo ==
  \/ reader \in {"split", "closing"}
  \/ reader = "sending" /\ ~CanSend
  \/ reader = "recv" /\ (received < Len(Wire) \/ clientEnd # "open" \/ conn = "lost")

\* Both tasks go on while they can.  select! is fair to an arm that is ready again
\* and again; bytes the client has written arrive.  The first conjunct is weak fairness
\* of the reader's steps but AnswerSent, which waits for the client's credit: no other
\* step is on these variables while ReaderCanGo holds.
Fairness ==
  /\ []<>~ReaderCanGo \/ []<><<<<received, pending, reader>>' # <<received, pending, reader>>>>_vars
  /\ WF_vars(SendPacket) /\ SF_vars(TearDown)

FairSpec == Spec /\ Fairness

-----------------------------------------------------------------------------
\* The dispatcher and the validators are two readings of one request and agree:
\* the method and the :protocol are refused by the first only, a tunnel that is
\* opened is of the kind asked for, and it is never opened without the token.  So the
\* validators' own 405 and 501 answer nobody: a connect-udp request on the path of
\* CONNECT-IP is taken by the udp arm and refused as a malformed target (400), where
\* docs/QUIC.md:462-463 and the check of masque.rs:958-960 have it answered 501.
Asks(r, arm) ==
  CASE arm = "udp" -> r.proto = "connect-udp" /\ r.path = "udp" /\ r.capsule
    [] arm = "ip"  -> r.proto \in {"connect-ip", "none"} /\ r.path = "ip" /\ r.capsule
    [] arm = "ws"  -> r.proto = "websocket"
    [] arm = "tcp" -> r.proto = "none" /\ r.path # "ip"
    [] OTHER -> FALSE

DispatchAgrees ==
  /\ answer = 405 => req.method # "CONNECT"
  /\ answer = 501 => req.proto \notin {"none", "connect-udp", "connect-ip", "websocket"}
  /\ answer # 0 /\ req # None /\ req.proto = "connect-udp" /\ req.path = "ip" =>
       answer \in {400, 405, 407}
  /\ answer = 407 => req.cred.secret # "token" \/ req.cred.scheme = "other" \/ ~req.cred.decodes
  /\ stage = "start" /\ Validate(req) = 200 =>
       req.method = "CONNECT" /\ Asks(req, Arm(req)) /\ req.cred.secret = "token"

\* The inductive invariant behind it: the status sent is the verdict on the request,
\* or comes from the tunnel after the request was admitted.
AnswerFits ==
  /\ req \in Requests \cup {None}
  /\ stage = "start" => req \in Requests /\ answer = 0
  /\ stage \notin {"start", "done"} => req = None
  /\ req # None => answer \in {0, Validate(req)}
  /\ req = None => answer \in {0, 200, 500, 503}

\* What the client should be told after it has read n bytes of the script: the
\* answer to each whole request in order, until the first that is broken.
WholeIn(n) ==
  {k \in 0 .. Len(script) :
     Len(FlattenSeq([i \in 1 .. k |-> script[i].wire])) <= n}
FirstBroken == {k \in DOMAIN script : script[k].broken}
Reached(n) ==
  {k \in 1 .. Max(WholeIn(n)) : \A b \in FirstBroken : k < b}
Answer(k) == IF script[k].ids = <<>> THEN <<>> ELSE <<script[k].ids>>
Due(n) == FlattenSeq([k \in 1 .. Cardinality(Reached(n)) |-> Answer(k)])

\* What the client makes of a capsule it gets.
IdsOf(entries) ==
  [i \in DOMAIN entries |-> IF entries[i] = Entry(entries[i].id) THEN entries[i].id ELSE -1]
Ids(capsule) == IdsOf(DecodeEntries[SplitCapsule(capsule).value].items)

Told == [i \in 1 .. Len(out) - 2 |-> Ids(out[i + 2])]

\* The client is told its address and its route, then gets one answer for each
\* ADDRESS_REQUEST, with its Request IDs and the session's address, in the order of
\* the requests, whatever pieces the stream arrives in (masque.rs:724-790).
AnswersInOrder ==
  /\ Len(out) >= 1 => Ids(out[1]) = <<0>>
  /\ Len(out) >= 2 => DecodeRanges[SplitCapsule(out[2]).value].items = <<DefaultRoute>>
  /\ Len(out) >= 2 => IsPrefix(Told, Due(received))
  /\ reader = "recv" => Len(Told) = Len(Due(received))

\* A packet written to the device is one the client sent in Context 0, whole and
\* without its Context ID, however that was encoded (capsule.rs:126).
PacketsIntact ==
  device # <<>> => \E m \in Messages : m.context = 0 /\ device = m.packet

\* As long as the path carries what it carried when the device was created, no
\* packet the kernel routes into the tunnel is dropped or ends it for its size
\* (masque.rs:661-664, docs/QUIC.md:237-241).
NothingTooBig == mtu.size > 0 /\ ~shrunk => ~tooBig

\* The client takes the answers: no send of one waits for ever for its credit.
AnswersTaken == []<>(reader # "sending")

\* Every request of a client that takes the answers is answered some time, unless the
\* stream is ended before: none is left in the buffer for want of further bytes
\* (masque.rs:735).
Asking == {k \in DOMAIN script : script[k].ids # <<>>}
EveryRequestAnswered ==
  AnswersTaken => (reader = "recv" ~> \/ reader = "ended"
                                      \/ /\ reader = "recv"
                                         /\ Len(out) = 2 + Cardinality(Asking))

\* A malformed or empty ADDRESS_REQUEST ends the reader and the data plane, with the
\* device, while packets keep coming (masque.rs:739-776), if the client takes the
\* answers that come before: it is not reached from within send_data (masque.rs:765).
BrokenCapsuleEnds ==
  AnswersTaken =>
    (FirstBroken # {} /\ stage = "running" ~> reader = "ended" /\ plane = "ended")
=============================================================================
