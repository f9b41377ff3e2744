----------------------------- MODULE TcpTunnel -----------------------------
(***************************************************************************)
(* One CONNECT or WebSocket request over HTTP/3: tcp_connect_tunnel of     *)
(* src/src/masque.rs and the two handlers that call it.                    *)
(*                                                                         *)
(* After the 200 two loops of one task pump bytes, "up" from the client to *)
(* the target and "down" the other way, until tokio::join! has seen both   *)
(* end.  Bytes are counted: a loop reads some, holds them and writes them, *)
(* in order.  The peers send, finish, reset and read as they like.         *)
(***************************************************************************)
EXTENDS Integers

CONSTANTS
  MaxBytes,   \* bound of the model: bytes each peer sends
  Window      \* bytes a peer lets wait before it reads them

ASSUME PipeAssumption == MaxBytes \in Nat /\ Window \in Nat \ {0}

VARIABLES
  stage,     \* where the handler stands
  reply,     \* the status sent, or "none"
  conn,      \* the QUIC connection: "open" or "lost"
  stopped,   \* the client has refused to receive more (STOP_SENDING)
  sent,      \* bytes sent by the writer of each direction
  ending,    \* the writer's end: "open", "fin" or "reset"
  pump,      \* each loop: "read", "write", "finish" or "done"
  hold,      \* bytes it has read and not written
  wait,      \* bytes written that the reader has not read
  got,       \* bytes the reader has read
  eof        \* the end of the stream has been signalled to the reader

outer == <<stage, reply>>
peers == <<conn, stopped, sent, ending>>
pipes == <<pump, hold, wait, got, eof>>
vars == <<outer, peers, pipes>>

Dirs == {"up", "down"}
Stages == {"start", "resolved", "connected", "pumping", "done"}
Replies == {"none", "refused", "forbidden", "badgateway", "ok"}

Init ==
  /\ stage = "start" /\ reply = "none"
  /\ conn = "open" /\ stopped = FALSE
  /\ sent = [d \in Dirs |-> 0]
  /\ ending = [d \in Dirs |-> "open"]
  /\ pump = [d \in Dirs |-> "read"]
  /\ hold = [d \in Dirs |-> 0]
  /\ wait = [d \in Dirs |-> 0]
  /\ got = [d \in Dirs |-> 0]
  /\ eof = [d \in Dirs |-> FALSE]

(***************************************************************************)
(* The handler up to the 200.                                              *)
(***************************************************************************)
\* send_response succeeds only on an open connection whose stream is not refused.
CanAnswer == conn = "open" /\ ~stopped

Answer(status) == reply' = IF CanAnswer THEN status ELSE "none"

\* validate_tcp_connect or validate_websocket_connect refuses the request.
Reject ==
  /\ stage = "start"
  /\ Answer("refused")
  /\ stage' = "done"
  /\ UNCHANGED <<peers, pipes>>

\* The name does not resolve: the handler returns without an answer.
ResolveFails ==
  /\ stage = "start"
  /\ stage' = "done"
  /\ UNCHANGED <<reply, peers, pipes>>

ResolveTarget ==
  /\ stage = "start"
  /\ stage' = "resolved"
  /\ UNCHANGED <<reply, peers, pipes>>

\* A special-purpose address.
Forbid ==
  /\ stage = "resolved"
  /\ Answer("forbidden")
  /\ stage' = "done"
  /\ UNCHANGED <<peers, pipes>>

ConnectFails ==
  /\ stage = "resolved"
  /\ Answer("badgateway")
  /\ stage' = "done"
  /\ UNCHANGED <<peers, pipes>>

\*\* timeout(connect_timeout) elapses: its error leaves the handler by ?, unanswered.
ConnectTimesOut ==
  /\ stage = "resolved"
  /\ stage' = "done"
  /\ UNCHANGED <<reply, peers, pipes>>

Connect ==
  /\ stage = "resolved"
  /\ stage' = "connected"
  /\ UNCHANGED <<reply, peers, pipes>>

Respond ==
  /\ stage = "connected"
  /\ Answer("ok")
  /\ stage' = IF CanAnswer THEN "pumping" ELSE "done"
  /\ UNCHANGED <<peers, pipes>>

Setup ==
  \/ Reject \/ ResolveFails \/ ResolveTarget
  \/ Forbid \/ ConnectFails \/ ConnectTimesOut \/ Connect
  \/ Respond

(***************************************************************************)
(* The pumps.                                                              *)
(***************************************************************************)
PumpTo(d, st) == pump' = [pump EXCEPT ![d] = st]

Unread(d) == sent[d] - got[d] - wait[d] - hold[d]

\* The writer of d can no longer be heard: a reset, or a lost QUIC connection.
Broken(d) == ending[d] = "reset" \/ (d = "up" /\ conn = "lost")

\* The reader of d can no longer be written to.
Refused(d) == IF d = "up" THEN ending["down"] = "reset"
                          ELSE conn = "lost" \/ stopped

AfterLoop(d) == IF d = "up" THEN "done" ELSE "finish"

Pumping(d, st) == stage = "pumping" /\ pump[d] = st

ReadSome(d) ==
  /\ Pumping(d, "read")
  /\ \E n \in 1 .. Unread(d) : hold' = [hold EXCEPT ![d] = n]
  /\ PumpTo(d, "write")
  /\ UNCHANGED <<outer, peers, wait, got, eof>>

\* Faulty variant: the end of the client's data is not passed on.
ReadEndSilent(d) ==
  /\ Pumping(d, "read")
  /\ ending[d] = "fin" /\ Unread(d) = 0
  /\ ~Broken(d)
  /\ PumpTo(d, AfterLoop(d))
  /\ UNCHANGED <<outer, peers, hold, wait, got, eof>>

\* Faulty variant: end of stream is taken from the writer's state, not from its data.
ReadEndEarly(d) ==
  /\ Pumping(d, "read")
  /\ ending[d] = "fin"
  /\ ~Broken(d)
  /\ eof' = [eof EXCEPT ![d] = d = "up" /\ ~Refused(d)]
  /\ PumpTo(d, AfterLoop(d))
  /\ UNCHANGED <<outer, peers, hold, wait, got>>

\* Ok(None) or Ok(0), after the last byte.  "up" shuts the target's side down at once.
ReadEnd(d) ==
  /\ Pumping(d, "read")
  /\ ending[d] = "fin" /\ Unread(d) = 0
  /\ ~Broken(d)
  /\ eof' = [eof EXCEPT ![d] = d = "up" /\ ~Refused(d)]
  /\ PumpTo(d, AfterLoop(d))
  /\ UNCHANGED <<outer, peers, hold, wait, got>>

ReadFails(d) ==
  /\ Pumping(d, "read")
  /\ Broken(d)
  /\ PumpTo(d, AfterLoop(d))
  /\ UNCHANGED <<outer, peers, hold, wait, got, eof>>

\* write_all and send_data wait for the reader to make room.
WriteOne(d) ==
  /\ Pumping(d, "write")
  /\ ~Refused(d)
  /\ wait[d] < Window
  /\ wait' = [wait EXCEPT ![d] = @ + 1]
  /\ hold' = [hold EXCEPT ![d] = @ - 1]
  /\ PumpTo(d, IF hold[d] = 1 THEN "read" ELSE "write")
  /\ UNCHANGED <<outer, peers, got, eof>>

WriteFails(d) ==
  /\ Pumping(d, "write")
  /\ Refused(d)
  /\ PumpTo(d, AfterLoop(d))
  /\ UNCHANGED <<outer, peers, hold, wait, got, eof>>

\* client_send.finish(), after an error as after a clean end.
FinishClient ==
  /\ Pumping("down", "finish")
  /\ eof' = [eof EXCEPT !["down"] = ~Refused("down")]
  /\ PumpTo("down", "done")
  /\ UNCHANGED <<outer, peers, hold, wait, got>>

\* The target's socket is closed: it sees an end of stream, or a reset if it had sent
\* bytes nobody has read.
DropSockets ==
  \E clean \in BOOLEAN : eof' = [eof EXCEPT !["up"] = @ \/ (clean /\ ~Refused("up"))]

\* Faulty variant: the tunnel is over when either direction is.
JoinEither ==
  /\ stage = "pumping"
  /\ \E d \in Dirs : pump[d] = "done"
  /\ stage' = "done"
  /\ DropSockets
  /\ UNCHANGED <<reply, peers, pump, hold, wait, got>>

\* Faulty variant: only two clean ends are an end.
JoinClean ==
  /\ stage = "pumping"
  /\ \A d \in Dirs : eof[d]
  /\ stage' = "done"
  /\ DropSockets
  /\ UNCHANGED <<reply, peers, pump, hold, wait, got>>

\* tokio::join!: both directions have ended, and everything is dropped.
Join ==
  /\ stage = "pumping"
  /\ \A d \in Dirs : pump[d] = "done"
  /\ stage' = "done"
  /\ DropSockets
  /\ UNCHANGED <<reply, peers, pump, hold, wait, got>>

Pump(d) == ReadSome(d) \/ ReadEnd(d) \/ ReadFails(d) \/ WriteOne(d) \/ WriteFails(d)

(***************************************************************************)
(* The peers and the network.                                              *)
(***************************************************************************)
\* The target exists once it is connected; the client may send from the start.
Present(d) == (d = "up" \/ stage = "pumping") /\ (d = "up" => conn = "open")

PeerSends(d) ==
  /\ Present(d) /\ ending[d] = "open"
  /\ sent[d] < MaxBytes
  /\ sent' = [sent EXCEPT ![d] = @ + 1]
  /\ UNCHANGED <<outer, conn, stopped, ending, pipes>>

PeerEnds(d) ==
  /\ Present(d) /\ ending[d] = "open"
  /\ \E e \in {"fin", "reset"} : ending' = [ending EXCEPT ![d] = e]
  /\ UNCHANGED <<outer, conn, stopped, sent, pipes>>

PeerReads(d) ==
  /\ wait[d] > 0
  /\ wait' = [wait EXCEPT ![d] = @ - 1]
  /\ got' = [got EXCEPT ![d] = @ + 1]
  /\ UNCHANGED <<outer, peers, pump, hold, eof>>

ClientStops ==
  /\ conn = "open" /\ ~stopped
  /\ stopped' = TRUE
  /\ UNCHANGED <<outer, conn, sent, ending, pipes>>

LoseConnection ==
  /\ conn = "open"
  /\ conn' = "lost"
  /\ UNCHANGED <<outer, stopped, sent, ending, pipes>>

-----------------------------------------------------------------------------
Next ==
  \/ Setup
  \/ \E d \in Dirs : Pump(d) \/ PeerSends(d) \/ PeerEnds(d) \/ PeerReads(d)
  \/ FinishClient \/ Join
  \/ ClientStops \/ LoseConnection

Spec == Init /\ [][Next]_vars

\* The handler and its loops are scheduled, resolver and connect answer or time out,
\* and a peer reads what is waiting for it.  No peer has to send or to finish.
Fairness ==
  /\ WF_vars(Setup) /\ WF_vars(FinishClient) /\ WF_vars(Join)
  /\ \A d \in Dirs : WF_vars(Pump(d)) /\ WF_vars(PeerReads(d))

FairSpec == Spec /\ Fairness

-----------------------------------------------------------------------------
TypeOK ==
  /\ stage \in Stages /\ reply \in Replies
  /\ conn \in {"open", "lost"} /\ stopped \in BOOLEAN
  /\ sent \in [Dirs -> Nat]
  /\ ending \in [Dirs -> {"open", "fin", "reset"}]
  /\ pump \in [Dirs -> {"read", "write", "finish", "done"}]
  /\ hold \in [Dirs -> Nat] /\ wait \in [Dirs -> Nat] /\ got \in [Dirs -> Nat]
  /\ eof \in [Dirs -> BOOLEAN]

\* Each direction is a byte pipe (QUIC.md, "Tunneling model"): nothing is lost before an
\* end of stream, also when the two ends and their errors race.  A writer that is cut
\* off may look to the reader like one that has finished.
Up == INSTANCE BytePipe WITH sent <- sent["up"],
  ending <- IF conn = "lost" THEN "reset" ELSE ending["up"],
  got <- got["up"] + wait["up"], eof <- eof["up"]
Down == INSTANCE BytePipe WITH sent <- sent["down"], ending <- ending["down"],
  got <- got["down"] + wait["down"], eof <- eof["down"]

\* "A pure byte pipe" (docs/QUIC.md) in both directions: all that was sent, in order, then
\* its end, whatever the other direction does (masque.rs:1156-1203).
PipesImplemented == Up!Spec /\ Down!Spec

\* The task lets go of its sockets only when neither direction can move another byte:
\* an ended direction never cuts off the one still running (half-close, masque.rs:1156).
NoEarlyClose ==
  stage = "done" /\ reply = "ok" =>
    /\ eof["up"] \/ Broken("up") \/ Refused("up")
    /\ eof["down"] \/ Refused("down")

\* Half-close: what the writer of one direction has sent arrives, followed by its end,
\* whether or not the other direction has ended, unless one of the peers gives up.
HalfCloseDelivers ==
  \A d \in Dirs :
    (stage = "pumping" /\ ending[d] = "fin")
      ~> (eof[d] /\ got[d] = sent[d]) \/ Broken(d) \/ Refused(d)

\* A tunnel both of whose ends have closed does not linger.
BothEndsFree ==
  (\A d \in Dirs : ending[d] # "open") ~> stage = "done"

-----------------------------------------------------------------------------
(***************************************************************************)
(* The inductive invariant.                                                *)
(***************************************************************************)
\* A byte that was sent is read, waiting, held or still unread, once.
Counted ==
  \A d \in Dirs :
    /\ got[d] + wait[d] + hold[d] <= sent[d]
    /\ pump[d] = "read" => hold[d] = 0
    /\ pump[d] = "write" => hold[d] > 0

\* Nothing flows before the 200, and nothing at all without one.
Quiet ==
  /\ stage = "pumping" => reply = "ok"
  /\ stage \in {"start", "resolved", "connected"} => reply = "none"
  /\ reply # "ok" =>
       \A d \in Dirs : pump[d] = "read" /\ ~eof[d] /\ wait[d] = 0 /\ got[d] = 0

Complete(d) == ending[d] = "fin" /\ got[d] + wait[d] = sent[d]

\* Why a loop has ended: it passed the end on, or could not.
EndsExplained ==
  /\ \A d \in Dirs : eof[d] => pump[d] = "done"
  /\ pump["up"] # "finish"
  /\ pump["up"] = "done" => eof["up"] \/ Broken("up") \/ Refused("up")
  /\ pump["down"] = "finish" => Complete("down") \/ Broken("down") \/ Refused("down")
  /\ pump["down"] = "done" => eof["down"] \/ Refused("down")
  /\ stage = "done" /\ reply = "ok" => \A d \in Dirs : pump[d] = "done"

\* The inductive strengthening of NoEarlyClose and of the two refinements.
IInv == TypeOK /\ Counted /\ Quiet /\ EndsExplained
=============================================================================
