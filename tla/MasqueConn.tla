----------------------------- MODULE MasqueConn -----------------------------
(***************************************************************************)
(* One HTTP/3 connection of the MASQUE server: handle_connection of        *)
(* src/src/masque.rs with the server half of the patched h3.               *)
(*                                                                         *)
(* Four kinds of tasks share the connection: the accept loop, the datagram *)
(* reader, one task per request, and the capsule reader of a CONNECT-IP    *)
(* request.  They meet in the routing table (a mutex around a map), in the *)
(* datagram channels, and in h3's set of ongoing requests.  They run on    *)
(* several threads; a step ends where a task awaits or releases the mutex. *)
(*                                                                         *)
(* What flows through a tunnel, and why its upstream side ends, is left to *)
(* the environment here.                                                   *)
(***************************************************************************)
EXTENDS Integers, FiniteSets

CONSTANTS
  Streams,    \* request streams the client may open
  NoStream,   \* no stream
  Kinds,      \* requests it may send: subset of {"udp", "ip", "pipe", "status"}
  MaxQueue    \* bound of the model: datagrams waiting in one channel

ASSUME ConnAssumption ==
  /\ NoStream \notin Streams
  /\ Kinds \subseteq {"udp", "ip", "pipe", "status"}
  /\ MaxQueue \in Nat \ {0}

VARIABLES
  \* the QUIC connection and the client
  conn,      \* "open" or "lost"
  goaway,    \* a GOAWAY frame has been received
  kind,      \* what the client will ask for on each stream
  client,    \* state of each stream, client side
  \* the accept loop
  loop,      \* where it stands
  cur,       \* the stream it is working on, or NoStream
  accepted,  \* streams taken from QUIC
  ongoing,   \* h3: ongoing_streams
  ended,     \* h3: RequestEnd notifications sent and not yet received
  \* the datagram plumbing
  routes,    \* streams with a sender in the routing table
  chan,      \* datagrams waiting in the channel of each stream
  reader,    \* where the reader task stands
  held,      \* the stream of the datagram it has just read, or NoStream
  \* the requests
  task,      \* where the task of each request stands
  asks,      \* CONNECT-IP streams with an ADDRESS_REQUEST that has not been read
  capsules   \* where the capsule reader of a CONNECT-IP request stands

h3Vars == <<ongoing, ended>>
clientVars == <<conn, goaway, kind, client>>
ipVars == <<asks, capsules>>
loopVars == <<loop, cur, accepted>>
readerVars == <<reader, held>>
vars == <<clientVars, loopVars, h3Vars, routes, chan, readerVars, task, ipVars>>

Datagram == {"udp", "ip"}     \* the kinds that own a route

LoopStates == {"accept", "resolve", "insert", "spawn", "clear", "drop", "exited"}

\* "start": validating and setting up; "ready": about to send 200; "tunnel":
\* relaying; "finish": finishing the stream; "returned": the handler has returned
\* and dropped its channel, its route is still to be removed.
TaskStates == {"none", "start", "ready", "tunnel", "finish", "returned", "done"}

-----------------------------------------------------------------------------
Init ==
  /\ conn = "open"
  /\ goaway = FALSE
  /\ kind \in [Streams -> Kinds]
  /\ client = [s \in Streams |-> "idle"]
  /\ loop = "accept"
  /\ cur = NoStream
  /\ accepted = {}
  /\ ongoing = {}
  /\ ended = {}
  /\ routes = {}
  /\ chan = [s \in Streams |-> 0]
  /\ reader = "run"
  /\ held = NoStream
  /\ task = [s \in Streams |-> "none"]
  /\ asks = {}
  /\ capsules = [s \in Streams |-> "none"]

TaskTo(s, st) == task' = [task EXCEPT ![s] = st]

(***************************************************************************)
(* The client.  A stream is opened, then carries its headers, or ends      *)
(* without them, or carries headers h3 rejects; later it may be finished   *)
(* or reset.                                                               *)
(***************************************************************************)
ClientStep(s, from, to) ==
  /\ conn = "open"
  /\ client[s] = from
  /\ client' = [client EXCEPT ![s] = to]
  /\ UNCHANGED <<conn, goaway, kind, loopVars, h3Vars, routes, chan, readerVars, task, ipVars>>

OpenStream(s) == ClientStep(s, "idle", "opened")
SendHeaders(s) == ClientStep(s, "opened", "headers")
SendNoHeaders(s) == ClientStep(s, "opened", "cut")
SendMalformed(s) == ClientStep(s, "opened", "malformed")
EndStream(s) == ClientStep(s, "headers", "ended")

\* An ADDRESS_REQUEST, which may also come before the 200.
Ask(s) ==
  /\ conn = "open"
  /\ kind[s] = "ip" /\ client[s] = "headers"
  /\ s \notin asks /\ asks' = asks \cup {s}
  /\ UNCHANGED <<clientVars, loopVars, h3Vars, routes, chan, readerVars, task, capsules>>

SendGoaway ==
  /\ conn = "open"
  /\ ~goaway
  /\ goaway' = TRUE
  /\ UNCHANGED <<conn, kind, client, loopVars, h3Vars, routes, chan, readerVars, task, ipVars>>

\* The connection closes or times out, at either end or by a protocol error.
LoseConnection ==
  /\ conn = "open"
  /\ conn' = "lost"
  /\ UNCHANGED <<goaway, kind, client, loopVars, h3Vars, routes, chan, readerVars, task, ipVars>>

(***************************************************************************)
(* h3: the requests that have not ended, once the notifications are read.  *)
(***************************************************************************)
\* Faulty variant: the ongoing requests are not counted.
OutstandingNone == ongoing \ ongoing

Outstanding == ongoing \ ended

\* A request stream dropped: RequestEnd's Drop sends its id.
NotifyEnd(s) == ended' = ended \cup {s} /\ UNCHANGED ongoing

Completed == ongoing' = Outstanding /\ ended' = {}

(***************************************************************************)
(* The accept loop.                                                        *)
(***************************************************************************)
NextRequest == loop' = "accept" /\ cur' = NoStream

Accept(s) ==
  /\ loop = "accept"
  /\ conn = "open"
  /\ client[s] # "idle" /\ s \notin accepted
  /\ accepted' = accepted \cup {s}
  /\ ongoing' = Outstanding \cup {s}
  /\ ended' = {}
  /\ cur' = s
  /\ loop' = "resolve"
  /\ UNCHANGED <<clientVars, routes, chan, readerVars, task, ipVars>>

\* After a GOAWAY, with no stream to accept and no request ongoing, accept sends
\* its own GOAWAY and returns Ok(None).
AcceptNone ==
  /\ loop = "accept"
  /\ conn = "open"
  /\ goaway
  /\ \A s \in Streams : client[s] # "idle" => s \in accepted
  /\ Outstanding = {}
  /\ Completed
  /\ loop' = "clear"
  /\ UNCHANGED <<clientVars, cur, accepted, routes, chan, readerVars, task, ipVars>>

\* accept().await? returns an error: the table is not cleared on this path, and
\* dropping h3_conn finds the connection closed.
AcceptFails ==
  /\ loop = "accept"
  /\ conn = "lost"
  /\ loop' = "exited"
  /\ UNCHANGED <<clientVars, cur, accepted, h3Vars, routes, chan, readerVars, task, ipVars>>

\* Faulty variant: the task is spawned before its route is inserted.
ResolveSpawns ==
  /\ loop = "resolve"
  /\ client[cur] \in {"headers", "ended"}
  /\ loop' = IF kind[cur] \in Datagram THEN "insert" ELSE "spawn"
  /\ TaskTo(cur, "start")
  /\ UNCHANGED <<clientVars, cur, accepted, h3Vars, routes, chan, readerVars, ipVars>>

\* resolve_request is awaited inside the loop, so nothing else is accepted until the
\* headers of this stream have arrived.
Resolve ==
  /\ loop = "resolve"
  /\ client[cur] \in {"headers", "ended"}
  /\ loop' = IF kind[cur] \in Datagram THEN "insert" ELSE "spawn"
  /\ UNCHANGED <<clientVars, cur, accepted, h3Vars, routes, chan, readerVars, task, ipVars>>

\* No request was decoded, so no RequestEnd exists: the stream stays ongoing.
ResolveCut ==
  /\ loop = "resolve"
  /\ client[cur] = "cut" \/ conn = "lost"
  /\ NextRequest
  /\ UNCHANGED <<clientVars, accepted, h3Vars, routes, chan, readerVars, task, ipVars>>

\* The headers are decoded and rejected (431, or a malformed request): the request
\* stream was made and is dropped.
ResolveRejects ==
  /\ loop = "resolve"
  /\ client[cur] = "malformed"
  /\ NotifyEnd(cur)
  /\ NextRequest
  /\ UNCHANGED <<clientVars, accepted, routes, chan, readerVars, task, ipVars>>

InsertRoute ==
  /\ loop = "insert"
  /\ routes' = routes \cup {cur}
  /\ loop' = "spawn"
  /\ UNCHANGED <<clientVars, cur, accepted, h3Vars, chan, readerVars, task, ipVars>>

Spawn ==
  /\ loop = "spawn"
  /\ TaskTo(cur, "start")
  /\ NextRequest
  /\ UNCHANGED <<clientVars, accepted, h3Vars, routes, chan, readerVars, ipVars>>

ClearRoutes ==
  /\ loop = "clear"
  /\ routes' = {}
  /\ loop' = "drop"
  /\ UNCHANGED <<clientVars, cur, accepted, h3Vars, chan, readerVars, task, ipVars>>

\* Dropping h3_conn closes the QUIC connection.
DropConnection ==
  /\ loop = "drop"
  /\ conn' = "lost"
  /\ loop' = "exited"
  /\ UNCHANGED <<goaway, kind, client, cur, accepted, h3Vars, routes, chan, readerVars, task, ipVars>>

AcceptLoop ==
  \/ \E s \in Streams : Accept(s)
  \/ AcceptNone \/ AcceptFails
  \/ Resolve \/ ResolveCut \/ ResolveRejects
  \/ InsertRoute \/ Spawn
  \/ ClearRoutes \/ DropConnection

(***************************************************************************)
(* The datagram reader.                                                    *)
(***************************************************************************)
\* A datagram may name any stream, also one that has no route yet or any more.
ReadDatagram(s) ==
  /\ reader = "run" /\ held = NoStream
  /\ conn = "open"
  /\ chan[s] < MaxQueue
  /\ held' = s
  /\ UNCHANGED <<clientVars, loopVars, h3Vars, routes, chan, reader, task, ipVars>>

\* The task still holds the receiving end of its channel.
Listening(s) == task[s] \notin {"returned", "done"}

\* Lookup, send and removal happen under one hold of the mutex.
Deliver ==
  /\ held # NoStream
  /\ held' = NoStream
  /\ \/ /\ held \in routes /\ Listening(held)
        /\ chan' = [chan EXCEPT ![held] = @ + 1]
        /\ UNCHANGED routes
     \/ /\ held \in routes /\ ~Listening(held)
        /\ routes' = routes \ {held}
        /\ UNCHANGED chan
     \/ /\ held \notin routes
        /\ UNCHANGED <<chan, routes>>
  /\ UNCHANGED <<clientVars, loopVars, h3Vars, reader, task, ipVars>>

ReadFails ==
  /\ reader = "run" /\ held = NoStream
  /\ conn = "lost"
  /\ reader' = "clear"
  /\ UNCHANGED <<clientVars, loopVars, h3Vars, routes, chan, held, task, ipVars>>

\* Faulty variant: the reader ends without clearing the table.
ReaderClearsNothing ==
  /\ reader = "clear"
  /\ reader' = "ended"
  /\ UNCHANGED <<clientVars, loopVars, h3Vars, routes, chan, held, task, ipVars>>

ReaderClears ==
  /\ reader = "clear"
  /\ routes' = {}
  /\ reader' = "ended"
  /\ UNCHANGED <<clientVars, loopVars, h3Vars, chan, held, task, ipVars>>

Reader == Deliver \/ ReadFails \/ ReaderClears

(***************************************************************************)
(* The request tasks.  "status" stands for the requests that are only      *)
(* answered (405, 501), "pipe" for CONNECT and WebSocket.                  *)
(***************************************************************************)
\* The handler returns and with it everything it owns is dropped.  A CONNECT-IP
\* handler that has split its stream no longer owns the request stream.
Return(s) ==
  /\ TaskTo(s, IF kind[s] \in Datagram THEN "returned" ELSE "done")
  /\ IF capsules[s] = "none" THEN NotifyEnd(s) ELSE UNCHANGED h3Vars

\* Validation or setup fails, or there is nothing but a status to send.  Whether the
\* status could be sent makes no difference.
Refuse(s) ==
  /\ task[s] = "start"
  /\ Return(s)
  /\ UNCHANGED <<clientVars, loopVars, routes, chan, readerVars, ipVars>>

\* Target resolved and socket connected, or tun device created.
Prepare(s) ==
  /\ task[s] = "start"
  /\ kind[s] # "status"
  /\ TaskTo(s, "ready")
  /\ UNCHANGED <<clientVars, loopVars, h3Vars, routes, chan, readerVars, ipVars>>

\* Faulty variant: half of a split stream counts as the end of the request.
RespondHalf(s) ==
  /\ task[s] = "ready"
  /\ conn = "open"
  /\ TaskTo(s, "tunnel")
  /\ capsules' = [capsules EXCEPT ![s] = IF kind[s] = "ip" THEN "reading" ELSE "none"]
  /\ IF kind[s] = "ip" THEN NotifyEnd(s) ELSE UNCHANGED h3Vars
  /\ UNCHANGED <<clientVars, loopVars, routes, chan, readerVars, asks>>

\* 200 is sent.  CONNECT-IP then splits the stream and hands both halves to the
\* capsule reader.
Respond(s) ==
  /\ task[s] = "ready"
  /\ conn = "open"
  /\ TaskTo(s, "tunnel")
  /\ capsules' = [capsules EXCEPT ![s] = IF kind[s] = "ip" THEN "reading" ELSE "none"]
  /\ UNCHANGED <<clientVars, loopVars, h3Vars, routes, chan, readerVars, asks>>

\* The connection is lost, or the client refuses this response.
RespondFails(s) ==
  /\ task[s] = "ready"
  /\ Return(s)
  /\ UNCHANGED <<clientVars, loopVars, routes, chan, readerVars, ipVars>>

\* rx.recv() returns a datagram; it is relayed, or dropped for its Context ID.
Receive(s) ==
  /\ task[s] = "tunnel"
  /\ chan[s] > 0
  /\ chan' = [chan EXCEPT ![s] = @ - 1]
  /\ UNCHANGED <<clientVars, loopVars, h3Vars, routes, readerVars, task, ipVars>>

\* A relay loop is left: CONNECT-UDP still finishes its stream.
LeaveLoop(s) ==
  IF kind[s] = "udp" THEN TaskTo(s, "finish") /\ UNCHANGED h3Vars
                     ELSE Return(s)

\* rx.recv() returns None: the sender is gone and the channel is empty.
Hangup(s) ==
  /\ task[s] = "tunnel"
  /\ kind[s] \in Datagram
  /\ s \notin routes /\ chan[s] = 0
  /\ LeaveLoop(s)
  /\ UNCHANGED <<clientVars, loopVars, routes, chan, readerVars, ipVars>>

\* The upstream side ends the loop: a socket or tun error, a datagram that cannot be
\* sent, or, for a pipe, the end of both directions.
UpstreamEnds(s) ==
  /\ task[s] = "tunnel"
  /\ LeaveLoop(s)
  /\ UNCHANGED <<clientVars, loopVars, routes, chan, readerVars, ipVars>>

\* CONNECT-IP: teardown_rx resolves.
Teardown(s) ==
  /\ task[s] = "tunnel"
  /\ capsules[s] \in {"finishing", "ended"}
  /\ Return(s)
  /\ UNCHANGED <<clientVars, loopVars, routes, chan, readerVars, ipVars>>

Finish(s) ==
  /\ task[s] = "finish"
  /\ Return(s)
  /\ UNCHANGED <<clientVars, loopVars, routes, chan, readerVars, ipVars>>

\* routes.lock().await.remove(&stream_id), after the handler.
RemoveRoute(s) ==
  /\ task[s] = "returned"
  /\ routes' = routes \ {s}
  /\ TaskTo(s, "done")
  /\ UNCHANGED <<clientVars, loopVars, h3Vars, chan, readerVars, ipVars>>

(***************************************************************************)
(* The capsule reader of a CONNECT-IP request.  It reads nothing while it  *)
(* awaits the send of an answer, which waits for the client's credit.      *)
(***************************************************************************)
CapsulesTo(s, st) == capsules' = [capsules EXCEPT ![s] = st]
CapsuleStep(s, from, to) ==
  /\ capsules[s] = from /\ CapsulesTo(s, to)
  /\ UNCHANGED <<clientVars, loopVars, h3Vars, routes, chan, readerVars, task>>

CapsulesAsked(s) ==
  /\ s \in asks /\ asks' = asks \ {s}
  /\ CapsuleStep(s, "reading", "answering")

\* The client grants the credit for it.
CapsulesAnswer(s) == conn = "open" /\ CapsuleStep(s, "answering", "reading") /\ UNCHANGED asks

\* Faulty variant: the end of the stream is taken for a lull.
CapsulesEndOnError(s) ==
  conn = "lost" /\ CapsuleStep(s, "reading", "finishing") /\ UNCHANGED asks

\* recv_data reports the end of the stream, which comes after all that was written,
\* or an error: teardown_tx.send.
CapsulesEnd(s) ==
  /\ (client[s] = "ended" /\ s \notin asks) \/ conn = "lost"
  /\ CapsuleStep(s, "reading", "finishing")
  /\ UNCHANGED asks

\* The answer cannot be sent any more.
AnswerLost(s) == conn = "lost" /\ CapsuleStep(s, "answering", "finishing") /\ UNCHANGED asks

\* A capsule that aborts the stream, or an answer the client refuses (STOP_SENDING).
CapsulesAbort(s) ==
  (CapsuleStep(s, "reading", "finishing") \/ CapsuleStep(s, "answering", "finishing"))
  /\ UNCHANGED asks

\* sig_send.finish(), then both halves of the request stream are dropped.
CapsulesFinish(s) ==
  /\ capsules[s] = "finishing"
  /\ CapsulesTo(s, "ended")
  /\ NotifyEnd(s)
  /\ UNCHANGED <<clientVars, loopVars, routes, chan, readerVars, task, asks>>

-----------------------------------------------------------------------------
Client ==
  \/ \E s \in Streams :
       \/ OpenStream(s) \/ SendHeaders(s) \/ SendNoHeaders(s) \/ SendMalformed(s)
       \/ Ask(s) \/ EndStream(s)
  \/ SendGoaway
  \/ LoseConnection

Setup(s) == Refuse(s) \/ Prepare(s) \/ Respond(s) \/ RespondFails(s)

TunnelEnds(s) == Hangup(s) \/ Teardown(s) \/ RemoveRoute(s)

CapsuleReader(s) == CapsulesAsked(s) \/ CapsulesEnd(s) \/ AnswerLost(s)

Next ==
  \/ Client
  \/ AcceptLoop
  \/ Reader
  \/ \E s \in Streams :
       \/ ReadDatagram(s)
       \/ Setup(s) \/ Receive(s) \/ UpstreamEnds(s) \/ TunnelEnds(s) \/ Finish(s)
       \/ CapsuleReader(s) \/ CapsulesAnswer(s) \/ CapsulesAbort(s) \/ CapsulesFinish(s)

Spec == Init /\ [][Next]_vars

\* Every task that can go on is scheduled.  What writes to the client (a status, the
\* 200, an answer, h3's GOAWAY and the end of a stream) waits for its flow-control
\* credit, and what waits for its headers waits for them: these steps are fair only
\* once the connection is lost, when every send and every read fails.  Nothing is
\* assumed of the client, of the network, or of the upstream side of a tunnel.
Fairness ==
  /\ WF_vars(conn = "lost" /\ AcceptLoop)
  /\ WF_vars(Reader)
  /\ \A s \in Streams :
       /\ WF_vars(Receive(s)) /\ WF_vars(TunnelEnds(s)) /\ WF_vars(CapsuleReader(s))
       /\ WF_vars(conn = "lost" /\ (Setup(s) \/ Finish(s)))
       /\ WF_vars(conn = "lost" /\ CapsulesFinish(s))

FairSpec == Spec /\ Fairness

-----------------------------------------------------------------------------
(***************************************************************************)
(* Correctness.                                                            *)
(***************************************************************************)
TypeOK ==
  /\ conn \in {"open", "lost"}
  /\ goaway \in BOOLEAN
  /\ kind \in [Streams -> Kinds]
  /\ client \in [Streams -> {"idle", "opened", "headers", "cut", "malformed", "ended"}]
  /\ loop \in LoopStates
  /\ cur \in Streams \cup {NoStream}
  /\ accepted \in SUBSET Streams
  /\ ongoing \in SUBSET Streams
  /\ ended \in SUBSET Streams
  /\ routes \in SUBSET Streams
  /\ chan \in [Streams -> Nat]
  /\ reader \in {"run", "clear", "ended"}
  /\ held \in Streams \cup {NoStream}
  /\ task \in [Streams -> TaskStates]
  /\ asks \in SUBSET Streams
  /\ capsules \in [Streams -> {"none", "reading", "answering", "finishing", "ended"}]

\* The request stream of s exists on the server and has not been dropped.
Live(s) ==
  \/ loop \in {"insert", "spawn"} /\ cur = s
  \/ task[s] \in {"start", "ready", "finish"}
  \/ task[s] = "tunnel" /\ kind[s] # "ip"
  \/ capsules[s] \in {"reading", "answering", "finishing"}

\* A datagram tunnel that is being set up or relaying and has not been told to stop.
Serving(s) ==
  /\ kind[s] \in Datagram
  /\ \/ task[s] \in {"start", "ready"}
     \/ task[s] = "tunnel" /\ capsules[s] \in {"none", "reading", "answering"}

\* While the connection is open no datagram of a tunnel is dropped as one "for unknown
\* stream" (masque.rs:279), early ones included: neither the reader, nor another
\* task's cleanup, nor the end of the accept loop takes its route away.
RouteWhileServing ==
  \A s \in Streams : conn = "open" /\ Serving(s) => s \in routes

\* The table does not grow with the requests a connection has seen: a task that is
\* over has no route, in whatever order insertion, cleanup and clearing happen.
NoStaleRoute ==
  \A s \in Streams : task[s] = "done" => s \notin routes

\* accept returns None, and the connection is closed with it, only when "all requests
\* have been completed" (server/connection.rs:121): no tunnel is cut by a GOAWAY.
GracefulExit ==
  loop \in {"clear", "drop"} => \A s \in Streams : ~Live(s)

\* h3 counts a request as ongoing for as long as its stream is in use on any task.
OngoingWhileLive ==
  \A s \in Streams : Live(s) => s \in Outstanding

\* When the connection is gone every task of a datagram request ends, and with them
\* the accept loop, the reader and the table: nothing is left "leaking after the
\* connection closes" (masque.rs:284-286).
Drained ==
  /\ loop = "exited" /\ reader = "ended" /\ routes = {}
  /\ \A s \in Streams :
       kind[s] \in Datagram => task[s] \in {"none", "done"} /\ capsules[s] \in {"none", "ended"}

LossDrains == conn = "lost" ~> Drained

\* The end of a CONNECT-IP request stream is the tunnel teardown signal
\* (masque.rs:718-719): the task, its device and its route go, whatever was asked for
\* before, if the client grants the credit for the answers: a reader that awaits
\* send_data for ever (masque.rs:765) never sees the end.
AnswersTaken(s) == []<>(capsules[s] # "answering")
StreamEndStopsIp ==
  \A s \in Streams :
    AnswersTaken(s) =>
      ((kind[s] = "ip" /\ task[s] = "tunnel" /\ client[s] = "ended") ~> task[s] = "done")

-----------------------------------------------------------------------------
(***************************************************************************)
(* The inductive invariant: what the four safety invariants rest on.       *)
(***************************************************************************)
Busy == loop \in {"resolve", "insert", "spawn"}

\* The stream the accept loop works on is accepted, counted and has no task yet.
LoopInv ==
  /\ Busy => /\ cur \in accepted /\ cur \in Outstanding
             /\ task[cur] = "none"
  /\ loop = "insert" => kind[cur] \in Datagram
  /\ loop = "exited" => conn = "lost"
  /\ reader # "run" => conn = "lost"

\* What has a task or is counted was accepted, and a capsule reader belongs to a
\* CONNECT-IP request that has been answered.
TaskInv ==
  /\ ongoing \subseteq accepted
  /\ \A s \in Streams :
       /\ task[s] # "none" => s \in accepted
       /\ task[s] \in {"none", "start", "ready"} => capsules[s] = "none"
       /\ task[s] = "tunnel" /\ kind[s] = "ip" => capsules[s] # "none"
       /\ task[s] = "finish" => kind[s] = "udp"
       /\ capsules[s] # "none" => kind[s] = "ip"

\* Only datagram requests own routes, from before their task exists.
RouteInv ==
  /\ \A s \in routes : kind[s] \in Datagram
  /\ conn = "open" /\ loop = "spawn" /\ kind[cur] \in Datagram => cur \in routes

\* The inductive strengthening of the safety invariants of handle_connection.
IInv ==
  /\ TypeOK
  /\ LoopInv /\ TaskInv /\ RouteInv
  /\ RouteWhileServing /\ NoStaleRoute /\ GracefulExit /\ OngoingWhileLive
=============================================================================
