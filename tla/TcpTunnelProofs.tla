-------------------------- MODULE TcpTunnelProofs --------------------------
(***************************************************************************)
(* Proofs about TcpTunnel, for any number of bytes and any window.         *)
(*                                                                         *)
(* IInv is inductive: it accounts for every byte (Counted) and says why a  *)
(* loop has ended (EndsExplained).  NoEarlyClose follows from the second,  *)
(* and with both every step of the tunnel is, seen from one direction, a   *)
(* step of the abstract byte pipe or no step at all.                       *)
(***************************************************************************)
EXTENDS TcpTunnel, TLAPS

USE DEF Dirs

\* A tunnel starts empty.
LEMMA InitIInv == Init => IInv
<1> SUFFICES ASSUME Init PROVE IInv
  OBVIOUS
<1> USE DEF Init
<1>1. TypeOK
  BY DEF TypeOK, Stages, Replies
<1>2. Counted
  BY DEF Counted
<1>3. Quiet /\ EndsExplained
  BY DEF Quiet, EndsExplained
<1> QED BY <1>1, <1>2, <1>3 DEF IInv

\* Until the 200 the handler touches no byte (masque.rs:1099-1150).
LEMMA SetupStep == ASSUME IInv, Setup PROVE IInv'
<1> USE DEF IInv, TypeOK, Counted, Quiet, EndsExplained, Complete, Broken, Refused,
            Answer, Stages, Replies, peers, pipes
<1>1. CASE Reject \/ Forbid \/ ConnectFails
  BY <1>1 DEF Reject, Forbid, ConnectFails
<1>2. CASE ResolveFails \/ ResolveTarget \/ ConnectTimesOut \/ Connect
  BY <1>2 DEF ResolveFails, ResolveTarget, ConnectTimesOut, Connect
<1>3. CASE Respond
  BY <1>3 DEF Respond
<1> QED BY <1>1, <1>2, <1>3 DEF Setup

\* The two loops and what ends them (masque.rs:1156-1203).
LEMMA PumpStep == ASSUME IInv, NEW d \in Dirs, Pump(d) PROVE IInv'
<1> USE PipeAssumption
        DEF IInv, TypeOK, Counted, Quiet, EndsExplained, Complete, Broken, Refused,
            Pumping, PumpTo, Unread, AfterLoop, outer, peers, Stages, Replies
<1>1. CASE ReadSome(d)
  <2>1. PICK n \in 1 .. Unread(d) : hold' = [hold EXCEPT ![d] = n]
    BY <1>1 DEF ReadSome
  <2>2. n \in Nat /\ n > 0 /\ got[d] + wait[d] + n <= sent[d]
    BY <2>1
  <2>3. TypeOK' /\ Quiet' /\ EndsExplained'
    BY <1>1, <2>1, <2>2 DEF ReadSome
  <2>4. Counted'
    BY <1>1, <2>1, <2>2 DEF ReadSome
  <2> QED BY <2>3, <2>4
<1>2. CASE ReadEnd(d)
  <2>1. /\ stage = "pumping" /\ pump[d] = "read"
        /\ ending[d] = "fin" /\ Unread(d) = 0
        /\ pump' = [pump EXCEPT ![d] = AfterLoop(d)]
        /\ UNCHANGED <<outer, peers, hold, wait, got>>
    BY <1>2 DEF ReadEnd
  <2>2. /\ \A c \in Dirs : eof'[c] <=> IF c = d THEN d = "up" /\ ~Refused(d) ELSE eof[c]
        /\ eof' \in [Dirs -> BOOLEAN]
    BY <1>2 DEF ReadEnd
  <2>3. TypeOK'
    BY <2>1, <2>2
  <2>4. Counted' /\ Quiet'
    BY <2>1, <2>2
  <2>5. EndsExplained'
    <3>1. CASE d = "up"
      <4>1. /\ pump' = [pump EXCEPT !["up"] = "done"]
            /\ eof'["up"] <=> ~Refused("up")
            /\ eof'["down"] <=> eof["down"]
        BY <3>1, <2>1, <2>2
      <4> QED BY <4>1, <3>1, <2>1
    <3>2. CASE d = "down"
      <4>1. /\ pump' = [pump EXCEPT !["down"] = "finish"]
            /\ ~eof'["down"]
            /\ eof'["up"] <=> eof["up"]
        BY <3>2, <2>1, <2>2
      <4>2. Complete("down")'
        BY <3>2, <2>1
      <4> QED BY <4>1, <4>2, <3>2, <2>1
    <3> QED BY <3>1, <3>2
  <2> QED BY <2>3, <2>4, <2>5
<1>3. CASE ReadFails(d)
  BY <1>3 DEF ReadFails
<1>4. CASE WriteOne(d)
  BY <1>4 DEF WriteOne
<1>5. CASE WriteFails(d)
  BY <1>5 DEF WriteFails
<1> QED BY <1>1, <1>2, <1>3, <1>4, <1>5 DEF Pump

LEMMA EndStep == ASSUME IInv, FinishClient \/ Join PROVE IInv'
<1> USE DEF IInv, TypeOK, Counted, Quiet, EndsExplained, Complete, Broken, Refused,
            Pumping, PumpTo, outer, peers, Stages, Replies
<1>1. CASE FinishClient
  BY <1>1 DEF FinishClient
<1>2. CASE Join
  BY <1>2 DEF Join, DropSockets
<1> QED BY <1>1, <1>2

\* Whatever peers and network do.
LEMMA PeerStep ==
  ASSUME IInv,
         \/ \E d \in Dirs : PeerSends(d) \/ PeerEnds(d) \/ PeerReads(d)
         \/ ClientStops \/ LoseConnection
  PROVE  IInv'
<1> USE DEF IInv, TypeOK, Counted, Quiet, EndsExplained, Complete, Broken, Refused,
            Present, outer, peers, pipes, Stages, Replies
<1>1. ASSUME NEW d \in Dirs, PeerSends(d) PROVE IInv'
  BY <1>1 DEF PeerSends
<1>2. ASSUME NEW d \in Dirs, PeerEnds(d) PROVE IInv'
  BY <1>2 DEF PeerEnds
<1>3. ASSUME NEW d \in Dirs, PeerReads(d) PROVE IInv'
  BY <1>3 DEF PeerReads
<1>4. CASE ClientStops
  BY <1>4 DEF ClientStops
<1>5. CASE LoseConnection
  BY <1>5 DEF LoseConnection
<1> QED BY <1>1, <1>2, <1>3, <1>4, <1>5

LEMMA StepIInv == ASSUME IInv, [Next]_vars PROVE IInv'
<1>1. CASE UNCHANGED vars
  BY <1>1 DEF vars, outer, peers, pipes, IInv, TypeOK, Counted, Quiet, EndsExplained, Complete,
     Broken, Refused, Stages, Replies
<1> QED BY <1>1, SetupStep, PumpStep, EndStep, PeerStep DEF Next

\* The inductive invariant holds throughout a tunnel.
THEOREM PipeInvariance == Spec => []IInv
BY InitIInv, StepIInv, PTL DEF Spec

\* The end of one direction never cuts the other off (masque.rs:1200-1203).
THEOREM NoDirectionCut == Spec => []NoEarlyClose
<1>1. IInv => NoEarlyClose
  BY DEF IInv, EndsExplained, NoEarlyClose
<1> QED BY <1>1, PipeInvariance, PTL

-----------------------------------------------------------------------------
\* Seen from the client's bytes, every step is one of the pipe or none.
LEMMA UpStep ==
  ASSUME IInv, [Next]_vars
  PROVE  [Up!Next]_<<sent["up"], IF conn = "lost" THEN "reset" ELSE ending["up"],
                        got["up"] + wait["up"], eof["up"]>>
<1> USE DEF IInv, TypeOK, Up!Next
<1>1. CASE Setup \/ UNCHANGED vars
  BY <1>1 DEF Setup, Reject, ResolveFails, ResolveTarget, Forbid, ConnectFails, ConnectTimesOut,
     Connect, Respond, vars, outer, peers, pipes
<1>2. ASSUME NEW d \in Dirs, Pump(d)
      PROVE  [Up!Next]_<<sent["up"], IF conn = "lost" THEN "reset" ELSE ending["up"],
                        got["up"] + wait["up"], eof["up"]>>
  <2>1. CASE ReadSome(d) \/ ReadFails(d) \/ WriteFails(d)
    BY <2>1 DEF ReadSome, ReadFails, WriteFails, peers
  <2>2. CASE ReadEnd(d)
    <3>1. CASE d = "up" /\ ~Refused(d)
      <4>1. ~eof["up"] /\ ending["up"] = "fin" /\ got["up"] + wait["up"] = sent["up"]
        BY <2>2, <3>1 DEF ReadEnd, Pumping, Unread, Counted, EndsExplained
      <4>2. conn = "open" /\ eof'["up"] = TRUE
        BY <2>2, <3>1 DEF ReadEnd, Broken
      <4>3. Up!Eof
        BY <4>1, <4>2, <2>2 DEF ReadEnd, peers, Up!Eof
      <4> QED BY <4>3
    <3>2. CASE d = "up" /\ Refused(d)
      <4>1. ~eof["up"] /\ ~eof'["up"] /\ eof["up"] \in BOOLEAN /\ eof'["up"] \in BOOLEAN
        BY <2>2, <3>2 DEF ReadEnd, Pumping, EndsExplained
      <4>2. eof'["up"] = eof["up"]
        BY <4>1
      <4> QED BY <4>2, <2>2 DEF ReadEnd, peers
    <3>3. CASE d = "down"
      <4>1. eof'["up"] = eof["up"]
        BY <2>2, <3>3 DEF ReadEnd
      <4> QED BY <4>1, <2>2 DEF ReadEnd, peers
    <3> QED BY <3>1, <3>2, <3>3
  <2>3. CASE WriteOne(d)
    <3>1. CASE d = "up"
      <4>1. ~eof["up"] /\ got["up"] + wait["up"] + 1 <= sent["up"]
        BY <2>3, <3>1 DEF WriteOne, Pumping, Counted, EndsExplained
      <4>2. wait'["up"] = wait["up"] + 1 /\ got' = got
        BY <2>3, <3>1 DEF WriteOne
      <4>3. Up!Deliver
        BY <4>1, <4>2, <2>3 DEF WriteOne, peers, Up!Deliver
      <4> QED BY <4>3
    <3>2. CASE d = "down"
      BY <2>3, <3>2 DEF WriteOne, peers
    <3> QED BY <3>1, <3>2
  <2> QED BY <1>2, <2>1, <2>2, <2>3 DEF Pump
<1>3. CASE FinishClient
  <2>1. eof'["up"] = eof["up"]
    BY <1>3 DEF FinishClient
  <2> QED BY <2>1, <1>3 DEF FinishClient, peers
<1>4. CASE Join
  <2>1. PICK clean \in BOOLEAN :
          eof' = [eof EXCEPT !["up"] = eof["up"] \/ (clean /\ ~Refused("up"))]
    BY <1>4 DEF Join, DropSockets
  <2>2. CASE eof["up"] \/ ~clean \/ Refused("up")
    <3>1. eof'["up"] = eof["up"]
      BY <2>1, <2>2
    <3> QED BY <3>1, <1>4 DEF Join, peers
  <2>3. CASE ~eof["up"] /\ clean /\ ~Refused("up")
    <3>1. Broken("up")
      BY <2>3, <1>4 DEF Join, EndsExplained
    <3>2. eof'["up"] = TRUE
      BY <2>1, <2>3
    <3>3. Up!Eof
      BY <3>1, <3>2, <2>3, <1>4 DEF Join, Broken, peers, Up!Eof
    <3> QED BY <3>3
  <2> QED BY <2>2, <2>3
<1>5. ASSUME NEW d \in Dirs, PeerSends(d) \/ PeerEnds(d) \/ PeerReads(d)
      PROVE  [Up!Next]_<<sent["up"], IF conn = "lost" THEN "reset" ELSE ending["up"],
                        got["up"] + wait["up"], eof["up"]>>
  <2>1. CASE PeerSends(d)
    BY <1>5, <2>1 DEF PeerSends, Present, pipes, Up!Write
  <2>2. CASE PeerEnds(d)
    BY <1>5, <2>2 DEF PeerEnds, Present, pipes, Up!Close, Up!Cut
  <2>3. CASE PeerReads(d)
    BY <1>5, <2>3 DEF PeerReads, peers
  <2> QED BY <1>5, <2>1, <2>2, <2>3
<1>6. CASE ClientStops
  BY <1>6 DEF ClientStops, pipes
<1>7. CASE LoseConnection
  BY <1>7 DEF LoseConnection, pipes, Up!Cut
<1> QED BY <1>1, <1>2, <1>3, <1>4, <1>5, <1>6, <1>7 DEF Next

\* Seen from the target's bytes, likewise.
LEMMA DownStep ==
  ASSUME IInv, [Next]_vars
  PROVE  [Down!Next]_<<sent["down"], ending["down"], got["down"] + wait["down"], eof["down"]>>
<1> USE DEF IInv, TypeOK, Down!Next
<1>1. CASE Setup \/ UNCHANGED vars
  BY <1>1 DEF Setup, Reject, ResolveFails, ResolveTarget, Forbid, ConnectFails, ConnectTimesOut,
     Connect, Respond, vars, outer, peers, pipes
<1>2. ASSUME NEW d \in Dirs, Pump(d)
      PROVE  [Down!Next]_<<sent["down"], ending["down"], got["down"] + wait["down"], eof["down"]>>
  <2>1. CASE ReadSome(d) \/ ReadFails(d) \/ WriteFails(d)
    BY <2>1 DEF ReadSome, ReadFails, WriteFails, peers
  <2>2. CASE ReadEnd(d)
    <3>1. ~eof[d] /\ (d = "down" => ~eof'[d])
      BY <2>2 DEF ReadEnd, Pumping, EndsExplained
    <3>2. eof["down"] \in BOOLEAN /\ eof'["down"] \in BOOLEAN
      BY <2>2 DEF ReadEnd
    <3>3. eof'["down"] = eof["down"]
      BY <2>2, <3>1, <3>2 DEF ReadEnd
    <3> QED BY <3>3, <2>2 DEF ReadEnd, peers
  <2>3. CASE WriteOne(d)
    <3>1. CASE d = "down"
      <4>1. ~eof["down"] /\ got["down"] + wait["down"] + 1 <= sent["down"]
        BY <2>3, <3>1 DEF WriteOne, Pumping, Counted, EndsExplained
      <4>2. wait'["down"] = wait["down"] + 1 /\ got' = got
        BY <2>3, <3>1 DEF WriteOne
      <4>3. Down!Deliver
        BY <4>1, <4>2, <2>3 DEF WriteOne, peers, Down!Deliver
      <4> QED BY <4>3
    <3>2. CASE d = "up"
      BY <2>3, <3>2 DEF WriteOne, peers
    <3> QED BY <3>1, <3>2
  <2> QED BY <1>2, <2>1, <2>2, <2>3 DEF Pump
<1>3. CASE FinishClient
  <2>1. ~eof["down"]
    BY <1>3 DEF FinishClient, Pumping, EndsExplained
  <2>2. CASE Refused("down")
    <3>1. ~eof'["down"] /\ eof["down"] \in BOOLEAN /\ eof'["down"] \in BOOLEAN
      BY <1>3, <2>2 DEF FinishClient
    <3>2. eof'["down"] = eof["down"]
      BY <3>1, <2>1
    <3> QED BY <3>2, <1>3 DEF FinishClient, peers
  <2>3. CASE ~Refused("down")
    <3>1. eof'["down"] = TRUE
      BY <1>3, <2>3 DEF FinishClient
    <3>2. Complete("down") \/ Broken("down")
      BY <1>3, <2>3 DEF FinishClient, Pumping, EndsExplained
    <3>3. Down!Eof
      BY <2>1, <3>1, <3>2, <1>3 DEF FinishClient, Complete, Broken, peers, Down!Eof
    <3> QED BY <3>3
  <2> QED BY <2>2, <2>3
<1>4. CASE Join
  <2>1. eof'["down"] = eof["down"]
    BY <1>4 DEF Join, DropSockets
  <2> QED BY <2>1, <1>4 DEF Join, peers
<1>5. ASSUME NEW d \in Dirs, PeerSends(d) \/ PeerEnds(d) \/ PeerReads(d)
      PROVE  [Down!Next]_<<sent["down"], ending["down"], got["down"] + wait["down"], eof["down"]>>
  <2>1. CASE PeerSends(d)
    BY <1>5, <2>1 DEF PeerSends, Present, pipes, Down!Write
  <2>2. CASE PeerEnds(d)
    BY <1>5, <2>2 DEF PeerEnds, Present, pipes, Down!Close, Down!Cut
  <2>3. CASE PeerReads(d)
    BY <1>5, <2>3 DEF PeerReads, peers
  <2> QED BY <1>5, <2>1, <2>2, <2>3
<1>6. CASE ClientStops \/ LoseConnection
  BY <1>6 DEF ClientStops, LoseConnection, pipes
<1> QED BY <1>1, <1>2, <1>3, <1>4, <1>5, <1>6 DEF Next

\* Both directions of a tunnel carry bytes as a byte pipe would (QUIC.md, "a pure byte
\* pipe"; masque.rs:1156-1198).
THEOREM TunnelIsPipes == Spec => PipesImplemented
<1>1. Init => Up!Init /\ Down!Init
  BY DEF Init, Up!Init, Down!Init
<1>2. Spec => Up!Spec
  BY <1>1, UpStep, PipeInvariance, PTL DEF Spec, Up!Spec
<1>3. Spec => Down!Spec
  BY <1>1, DownStep, PipeInvariance, PTL DEF Spec, Down!Spec
<1> QED BY <1>2, <1>3 DEF PipesImplemented
=============================================================================
