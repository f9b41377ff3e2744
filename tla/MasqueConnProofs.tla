-------------------------- MODULE MasqueConnProofs --------------------------
(***************************************************************************)
(* Proofs about MasqueConn, for any set of streams and any channel bound.  *)
(*                                                                         *)
(* IInv is inductive.  Each lemma shows that a step keeps one of its       *)
(* conjuncts, and its hypotheses say which of the others that one rests    *)
(* on: routes need to know where the accept loop stands, the graceful exit *)
(* needs h3's count, and the count needs to know that a request stream is  *)
(* dropped once, by its task or by its capsule reader.                     *)
(***************************************************************************)
EXTENDS MasqueConn, TLAPS

\* Every step of every task keeps the types.
LEMMA StepTypeOK ==
  ASSUME TypeOK, LoopInv, [Next]_vars
  PROVE  TypeOK'
<1> USE ConnAssumption DEF Busy, LoopInv, LoopStates, Outstanding, TaskStates, TypeOK, ipVars
<1>1. CASE Client
  BY <1>1 DEF Client, ClientStep, OpenStream, SendHeaders, SendNoHeaders, SendMalformed,
     Ask, EndStream, SendGoaway, LoseConnection, clientVars, loopVars, h3Vars, readerVars
<1>2. CASE AcceptLoop
  <2>1. ASSUME NEW s \in Streams, Accept(s) PROVE TypeOK'
    BY <2>1 DEF Accept, clientVars, h3Vars, readerVars
  <2>2. CASE AcceptNone
    BY <2>2 DEF AcceptNone, Completed, clientVars, h3Vars, readerVars
  <2>3. CASE AcceptFails
    BY <2>3 DEF AcceptFails, clientVars, h3Vars, readerVars
  <2>4. CASE Resolve
    BY <2>4 DEF Resolve, clientVars, h3Vars, readerVars
  <2>5. CASE ResolveCut \/ ResolveRejects
    BY <2>5 DEF ResolveCut, ResolveRejects, NextRequest, NotifyEnd, clientVars, h3Vars,
       readerVars
  <2>6. CASE InsertRoute
    BY <2>6 DEF InsertRoute, clientVars, h3Vars, readerVars
  <2>7. CASE Spawn
    BY <2>7 DEF Spawn, NextRequest, TaskTo, clientVars, h3Vars, readerVars
  <2>8. CASE ClearRoutes \/ DropConnection
    BY <2>8 DEF ClearRoutes, DropConnection, clientVars, h3Vars, readerVars
  <2> QED BY <1>2, <2>1, <2>2, <2>3, <2>4, <2>5, <2>6, <2>7, <2>8 DEF AcceptLoop
<1>3. CASE Reader \/ \E s \in Streams : ReadDatagram(s)
  BY <1>3 DEF Reader, Deliver, ReadFails, ReaderClears, ReadDatagram, Listening, clientVars,
     loopVars, h3Vars
<1>4. ASSUME NEW s \in Streams, Setup(s) \/ Receive(s) \/ UpstreamEnds(s) \/ TunnelEnds(s)
                          \/ Finish(s)
      PROVE  TypeOK'
  <2>1. CASE Setup(s)
    BY <2>1 DEF Setup, Refuse, Prepare, Respond, RespondFails, Return, TaskTo, NotifyEnd,
       clientVars, loopVars, h3Vars, readerVars
  <2>2. CASE Receive(s)
    BY <2>2 DEF Receive, clientVars, loopVars, h3Vars, readerVars
  <2>3. CASE UpstreamEnds(s)
    BY <2>3 DEF UpstreamEnds, LeaveLoop, Return, TaskTo, NotifyEnd, clientVars, loopVars,
       h3Vars, readerVars
  <2>4. CASE TunnelEnds(s) \/ Finish(s)
    BY <2>4 DEF TunnelEnds, Hangup, Teardown, Finish, RemoveRoute, LeaveLoop, Return,
       TaskTo, NotifyEnd, clientVars, loopVars, h3Vars, readerVars
  <2> QED BY <1>4, <2>1, <2>2, <2>3, <2>4
<1>5. ASSUME NEW s \in Streams,
             CapsuleReader(s) \/ CapsulesAnswer(s) \/ CapsulesAbort(s) \/ CapsulesFinish(s)
      PROVE  TypeOK'
  <2>1. CASE CapsuleReader(s) \/ CapsulesAnswer(s) \/ CapsulesAbort(s)
    BY <2>1 DEF CapsuleReader, CapsulesAsked, CapsulesEnd, AnswerLost, CapsulesAnswer,
       CapsulesAbort, CapsuleStep, CapsulesTo, clientVars, loopVars, h3Vars, readerVars
  <2>2. CASE CapsulesFinish(s)
    BY <2>2 DEF CapsulesFinish, CapsulesTo, NotifyEnd, clientVars, loopVars, readerVars
  <2> QED BY <1>5, <2>1, <2>2
<1>6. CASE UNCHANGED vars
  BY <1>6 DEF vars, clientVars, loopVars, h3Vars, readerVars
<1> QED BY <1>1, <1>2, <1>3, <1>4, <1>5, <1>6 DEF Next

\* The stream between accept and spawn is counted, and no task ends it (masque.rs:295-456).
LEMMA StepLoopInv ==
  ASSUME TypeOK, LoopInv, TaskInv, [Next]_vars
  PROVE  LoopInv'
<1> USE ConnAssumption DEF Busy, LoopInv, Outstanding, TaskInv, TypeOK, ipVars
<1>1. CASE Client
  BY <1>1 DEF Client, ClientStep, OpenStream, SendHeaders, SendNoHeaders, SendMalformed,
     Ask, EndStream, SendGoaway, LoseConnection, clientVars, loopVars, h3Vars, readerVars
<1>2. CASE AcceptLoop
  <2>1. ASSUME NEW s \in Streams, Accept(s) PROVE LoopInv'
    BY <2>1 DEF Accept, clientVars, h3Vars, readerVars
  <2>2. CASE AcceptNone
    BY <2>2 DEF AcceptNone, Completed, clientVars, h3Vars, readerVars
  <2>3. CASE AcceptFails
    BY <2>3 DEF AcceptFails, clientVars, h3Vars, readerVars
  <2>4. CASE Resolve
    BY <2>4 DEF Resolve, clientVars, h3Vars, readerVars
  <2>5. CASE ResolveCut \/ ResolveRejects
    BY <2>5 DEF ResolveCut, ResolveRejects, NextRequest, NotifyEnd, clientVars, h3Vars,
       readerVars
  <2>6. CASE InsertRoute
    BY <2>6 DEF InsertRoute, clientVars, h3Vars, readerVars
  <2>7. CASE Spawn
    BY <2>7 DEF Spawn, NextRequest, TaskTo, clientVars, h3Vars, readerVars
  <2>8. CASE ClearRoutes \/ DropConnection
    BY <2>8 DEF ClearRoutes, DropConnection, clientVars, h3Vars, readerVars
  <2> QED BY <1>2, <2>1, <2>2, <2>3, <2>4, <2>5, <2>6, <2>7, <2>8 DEF AcceptLoop
<1>3. CASE Reader \/ \E s \in Streams : ReadDatagram(s)
  BY <1>3 DEF Reader, Deliver, ReadFails, ReaderClears, ReadDatagram, Listening, clientVars,
     loopVars, h3Vars
<1>4. ASSUME NEW s \in Streams, Setup(s) \/ Receive(s) \/ UpstreamEnds(s) \/ TunnelEnds(s)
                          \/ Finish(s)
      PROVE  LoopInv'
  <2>1. CASE Setup(s)
    BY <2>1 DEF Setup, Refuse, Prepare, Respond, RespondFails, Return, TaskTo, NotifyEnd,
       clientVars, loopVars, h3Vars, readerVars
  <2>2. CASE Receive(s)
    BY <2>2 DEF Receive, clientVars, loopVars, h3Vars, readerVars
  <2>3. CASE UpstreamEnds(s)
    BY <2>3 DEF UpstreamEnds, LeaveLoop, Return, TaskTo, NotifyEnd, clientVars, loopVars,
       h3Vars, readerVars
  <2>4. CASE TunnelEnds(s) \/ Finish(s)
    BY <2>4 DEF TunnelEnds, Hangup, Teardown, Finish, RemoveRoute, LeaveLoop, Return,
       TaskTo, NotifyEnd, clientVars, loopVars, h3Vars, readerVars
  <2> QED BY <1>4, <2>1, <2>2, <2>3, <2>4
<1>5. ASSUME NEW s \in Streams,
             CapsuleReader(s) \/ CapsulesAnswer(s) \/ CapsulesAbort(s) \/ CapsulesFinish(s)
      PROVE  LoopInv'
  <2>1. CASE CapsuleReader(s) \/ CapsulesAnswer(s) \/ CapsulesAbort(s)
    BY <2>1 DEF CapsuleReader, CapsulesAsked, CapsulesEnd, AnswerLost, CapsulesAnswer,
       CapsulesAbort, CapsuleStep, CapsulesTo, clientVars, loopVars, h3Vars, readerVars
  <2>2. CASE CapsulesFinish(s)
    BY <2>2 DEF CapsulesFinish, CapsulesTo, NotifyEnd, clientVars, loopVars, readerVars
  <2> QED BY <1>5, <2>1, <2>2
<1>6. CASE UNCHANGED vars
  BY <1>6 DEF vars, clientVars, loopVars, h3Vars, readerVars
<1> QED BY <1>1, <1>2, <1>3, <1>4, <1>5, <1>6 DEF Next

\* A capsule reader starts with the 200 of its request and may outlive its task.
LEMMA StepTaskInv ==
  ASSUME TypeOK, LoopInv, TaskInv, [Next]_vars
  PROVE  TaskInv'
<1> USE ConnAssumption DEF Busy, Datagram, LoopInv, Outstanding, TaskInv, TypeOK, ipVars
<1>1. CASE Client
  BY <1>1 DEF Client, ClientStep, OpenStream, SendHeaders, SendNoHeaders, SendMalformed,
     Ask, EndStream, SendGoaway, LoseConnection, clientVars, loopVars, h3Vars, readerVars
<1>2. CASE AcceptLoop
  <2>1. ASSUME NEW s \in Streams, Accept(s) PROVE TaskInv'
    BY <2>1 DEF Accept, clientVars, h3Vars, readerVars
  <2>2. CASE AcceptNone
    BY <2>2 DEF AcceptNone, Completed, clientVars, h3Vars, readerVars
  <2>3. CASE AcceptFails
    BY <2>3 DEF AcceptFails, clientVars, h3Vars, readerVars
  <2>4. CASE Resolve
    BY <2>4 DEF Resolve, clientVars, h3Vars, readerVars
  <2>5. CASE ResolveCut \/ ResolveRejects
    BY <2>5 DEF ResolveCut, ResolveRejects, NextRequest, NotifyEnd, clientVars, h3Vars,
       readerVars
  <2>6. CASE InsertRoute
    BY <2>6 DEF InsertRoute, clientVars, h3Vars, readerVars
  <2>7. CASE Spawn
    BY <2>7 DEF Spawn, NextRequest, TaskTo, clientVars, h3Vars, readerVars
  <2>8. CASE ClearRoutes \/ DropConnection
    BY <2>8 DEF ClearRoutes, DropConnection, clientVars, h3Vars, readerVars
  <2> QED BY <1>2, <2>1, <2>2, <2>3, <2>4, <2>5, <2>6, <2>7, <2>8 DEF AcceptLoop
<1>3. CASE Reader \/ \E s \in Streams : ReadDatagram(s)
  BY <1>3 DEF Reader, Deliver, ReadFails, ReaderClears, ReadDatagram, Listening, clientVars,
     loopVars, h3Vars
<1>4. ASSUME NEW s \in Streams, Setup(s) \/ Receive(s) \/ UpstreamEnds(s) \/ TunnelEnds(s)
                          \/ Finish(s)
      PROVE  TaskInv'
  <2>1. CASE Setup(s)
    BY <2>1 DEF Setup, Refuse, Prepare, Respond, RespondFails, Return, TaskTo, NotifyEnd,
       clientVars, loopVars, h3Vars, readerVars
  <2>2. CASE Receive(s)
    BY <2>2 DEF Receive, clientVars, loopVars, h3Vars, readerVars
  <2>3. CASE UpstreamEnds(s)
    BY <2>3 DEF UpstreamEnds, LeaveLoop, Return, TaskTo, NotifyEnd, clientVars, loopVars,
       h3Vars, readerVars
  <2>4. CASE TunnelEnds(s) \/ Finish(s)
    BY <2>4 DEF TunnelEnds, Hangup, Teardown, Finish, RemoveRoute, LeaveLoop, Return,
       TaskTo, NotifyEnd, clientVars, loopVars, h3Vars, readerVars
  <2> QED BY <1>4, <2>1, <2>2, <2>3, <2>4
<1>5. ASSUME NEW s \in Streams,
             CapsuleReader(s) \/ CapsulesAnswer(s) \/ CapsulesAbort(s) \/ CapsulesFinish(s)
      PROVE  TaskInv'
  <2>1. CASE CapsuleReader(s) \/ CapsulesAnswer(s) \/ CapsulesAbort(s)
    BY <2>1 DEF CapsuleReader, CapsulesAsked, CapsulesEnd, AnswerLost, CapsulesAnswer,
       CapsulesAbort, CapsuleStep, CapsulesTo, clientVars, loopVars, h3Vars, readerVars
  <2>2. CASE CapsulesFinish(s)
    BY <2>2 DEF CapsulesFinish, CapsulesTo, NotifyEnd, clientVars, loopVars, readerVars
  <2> QED BY <1>5, <2>1, <2>2
<1>6. CASE UNCHANGED vars
  BY <1>6 DEF vars, clientVars, loopVars, h3Vars, readerVars
<1> QED BY <1>1, <1>2, <1>3, <1>4, <1>5, <1>6 DEF Next

\* A route is put in only for a datagram request, and is there when its task is spawned.
LEMMA StepRouteInv ==
  ASSUME TypeOK, LoopInv, RouteInv, [Next]_vars
  PROVE  RouteInv'
<1> USE ConnAssumption DEF Busy, Datagram, LoopInv, RouteInv, TypeOK, ipVars
<1>1. CASE Client
  BY <1>1 DEF Client, ClientStep, OpenStream, SendHeaders, SendNoHeaders, SendMalformed,
     Ask, EndStream, SendGoaway, LoseConnection, clientVars, loopVars, h3Vars, readerVars
<1>2. CASE AcceptLoop
  <2>1. ASSUME NEW s \in Streams, Accept(s) PROVE RouteInv'
    BY <2>1 DEF Accept, clientVars, h3Vars, readerVars
  <2>2. CASE AcceptNone
    BY <2>2 DEF AcceptNone, Completed, clientVars, h3Vars, readerVars
  <2>3. CASE AcceptFails
    BY <2>3 DEF AcceptFails, clientVars, h3Vars, readerVars
  <2>4. CASE Resolve
    BY <2>4 DEF Resolve, clientVars, h3Vars, readerVars
  <2>5. CASE ResolveCut \/ ResolveRejects
    BY <2>5 DEF ResolveCut, ResolveRejects, NextRequest, NotifyEnd, clientVars, h3Vars,
       readerVars
  <2>6. CASE InsertRoute
    BY <2>6 DEF InsertRoute, clientVars, h3Vars, readerVars
  <2>7. CASE Spawn
    BY <2>7 DEF Spawn, NextRequest, TaskTo, clientVars, h3Vars, readerVars
  <2>8. CASE ClearRoutes \/ DropConnection
    BY <2>8 DEF ClearRoutes, DropConnection, clientVars, h3Vars, readerVars
  <2> QED BY <1>2, <2>1, <2>2, <2>3, <2>4, <2>5, <2>6, <2>7, <2>8 DEF AcceptLoop
<1>3. CASE Reader \/ \E s \in Streams : ReadDatagram(s)
  BY <1>3 DEF Reader, Deliver, ReadFails, ReaderClears, ReadDatagram, Listening, clientVars,
     loopVars, h3Vars
<1>4. ASSUME NEW s \in Streams, Setup(s) \/ Receive(s) \/ UpstreamEnds(s) \/ TunnelEnds(s)
                          \/ Finish(s)
      PROVE  RouteInv'
  <2>1. CASE Setup(s)
    BY <2>1 DEF Setup, Refuse, Prepare, Respond, RespondFails, Return, TaskTo, NotifyEnd,
       clientVars, loopVars, h3Vars, readerVars
  <2>2. CASE Receive(s)
    BY <2>2 DEF Receive, clientVars, loopVars, h3Vars, readerVars
  <2>3. CASE UpstreamEnds(s)
    BY <2>3 DEF UpstreamEnds, LeaveLoop, Return, TaskTo, NotifyEnd, clientVars, loopVars,
       h3Vars, readerVars
  <2>4. CASE TunnelEnds(s) \/ Finish(s)
    BY <2>4 DEF TunnelEnds, Hangup, Teardown, Finish, RemoveRoute, LeaveLoop, Return,
       TaskTo, NotifyEnd, clientVars, loopVars, h3Vars, readerVars
  <2> QED BY <1>4, <2>1, <2>2, <2>3, <2>4
<1>5. ASSUME NEW s \in Streams,
             CapsuleReader(s) \/ CapsulesAnswer(s) \/ CapsulesAbort(s) \/ CapsulesFinish(s)
      PROVE  RouteInv'
  <2>1. CASE CapsuleReader(s) \/ CapsulesAnswer(s) \/ CapsulesAbort(s)
    BY <2>1 DEF CapsuleReader, CapsulesAsked, CapsulesEnd, AnswerLost, CapsulesAnswer,
       CapsulesAbort, CapsuleStep, CapsulesTo, clientVars, loopVars, h3Vars, readerVars
  <2>2. CASE CapsulesFinish(s)
    BY <2>2 DEF CapsulesFinish, CapsulesTo, NotifyEnd, clientVars, loopVars, readerVars
  <2> QED BY <1>5, <2>1, <2>2
<1>6. CASE UNCHANGED vars
  BY <1>6 DEF vars, clientVars, loopVars, h3Vars, readerVars
<1> QED BY <1>1, <1>2, <1>3, <1>4, <1>5, <1>6 DEF Next

\* accept returns None only when h3 counts no request, hence when none is live.
LEMMA StepGracefulExit ==
  ASSUME TypeOK, LoopInv, TaskInv, OngoingWhileLive, GracefulExit, [Next]_vars
  PROVE  GracefulExit'
<1> USE ConnAssumption DEF Busy, GracefulExit, Live, LoopInv,
       OngoingWhileLive, Outstanding, TaskInv, TypeOK, ipVars
<1>1. CASE Client
  BY <1>1 DEF Client, ClientStep, OpenStream, SendHeaders, SendNoHeaders, SendMalformed,
     Ask, EndStream, SendGoaway, LoseConnection, clientVars, loopVars, h3Vars, readerVars
<1>2. CASE AcceptLoop
  <2>1. ASSUME NEW s \in Streams, Accept(s) PROVE GracefulExit'
    BY <2>1 DEF Accept, clientVars, h3Vars, readerVars
  <2>2. CASE AcceptNone
    BY <2>2 DEF AcceptNone, Completed, clientVars, h3Vars, readerVars
  <2>3. CASE AcceptFails
    BY <2>3 DEF AcceptFails, clientVars, h3Vars, readerVars
  <2>4. CASE Resolve
    BY <2>4 DEF Resolve, clientVars, h3Vars, readerVars
  <2>5. CASE ResolveCut \/ ResolveRejects
    BY <2>5 DEF ResolveCut, ResolveRejects, NextRequest, NotifyEnd, clientVars, h3Vars,
       readerVars
  <2>6. CASE InsertRoute
    BY <2>6 DEF InsertRoute, clientVars, h3Vars, readerVars
  <2>7. CASE Spawn
    BY <2>7 DEF Spawn, NextRequest, TaskTo, clientVars, h3Vars, readerVars
  <2>8. CASE ClearRoutes \/ DropConnection
    BY <2>8 DEF ClearRoutes, DropConnection, clientVars, h3Vars, readerVars
  <2> QED BY <1>2, <2>1, <2>2, <2>3, <2>4, <2>5, <2>6, <2>7, <2>8 DEF AcceptLoop
<1>3. CASE Reader \/ \E s \in Streams : ReadDatagram(s)
  BY <1>3 DEF Reader, Deliver, ReadFails, ReaderClears, ReadDatagram, Listening, clientVars,
     loopVars, h3Vars
<1>4. ASSUME NEW s \in Streams, Setup(s) \/ Receive(s) \/ UpstreamEnds(s) \/ TunnelEnds(s)
                          \/ Finish(s)
      PROVE  GracefulExit'
  <2>1. CASE Setup(s)
    BY <2>1 DEF Setup, Refuse, Prepare, Respond, RespondFails, Return, TaskTo, NotifyEnd,
       clientVars, loopVars, h3Vars, readerVars
  <2>2. CASE Receive(s)
    BY <2>2 DEF Receive, clientVars, loopVars, h3Vars, readerVars
  <2>3. CASE UpstreamEnds(s)
    BY <2>3 DEF UpstreamEnds, LeaveLoop, Return, TaskTo, NotifyEnd, clientVars, loopVars,
       h3Vars, readerVars
  <2>4. CASE TunnelEnds(s) \/ Finish(s)
    BY <2>4 DEF TunnelEnds, Hangup, Teardown, Finish, RemoveRoute, LeaveLoop, Return,
       TaskTo, NotifyEnd, clientVars, loopVars, h3Vars, readerVars
  <2> QED BY <1>4, <2>1, <2>2, <2>3, <2>4
<1>5. ASSUME NEW s \in Streams,
             CapsuleReader(s) \/ CapsulesAnswer(s) \/ CapsulesAbort(s) \/ CapsulesFinish(s)
      PROVE  GracefulExit'
  <2>1. CASE CapsuleReader(s) \/ CapsulesAnswer(s) \/ CapsulesAbort(s)
    BY <2>1 DEF CapsuleReader, CapsulesAsked, CapsulesEnd, AnswerLost, CapsulesAnswer,
       CapsulesAbort, CapsuleStep, CapsulesTo, clientVars, loopVars, h3Vars, readerVars
  <2>2. CASE CapsulesFinish(s)
    BY <2>2 DEF CapsulesFinish, CapsulesTo, NotifyEnd, clientVars, loopVars, readerVars
  <2> QED BY <1>5, <2>1, <2>2
<1>6. CASE UNCHANGED vars
  BY <1>6 DEF vars, clientVars, loopVars, h3Vars, readerVars
<1> QED BY <1>1, <1>2, <1>3, <1>4, <1>5, <1>6 DEF Next

\* RequestEnd is sent when the last owner of a request stream drops it, not before.
LEMMA StepOngoingWhileLive ==
  ASSUME TypeOK, LoopInv, TaskInv, OngoingWhileLive, [Next]_vars
  PROVE  OngoingWhileLive'
<1> USE ConnAssumption DEF Busy, Live, LoopInv, OngoingWhileLive, Outstanding, TaskInv, TypeOK, ipVars
<1>1. CASE Client
  BY <1>1 DEF Client, ClientStep, OpenStream, SendHeaders, SendNoHeaders, SendMalformed,
     Ask, EndStream, SendGoaway, LoseConnection, clientVars, loopVars, h3Vars, readerVars
<1>2. CASE AcceptLoop
  <2>1. ASSUME NEW s \in Streams, Accept(s) PROVE OngoingWhileLive'
    BY <2>1 DEF Accept, clientVars, h3Vars, readerVars
  <2>2. CASE AcceptNone
    BY <2>2 DEF AcceptNone, Completed, clientVars, h3Vars, readerVars
  <2>3. CASE AcceptFails
    BY <2>3 DEF AcceptFails, clientVars, h3Vars, readerVars
  <2>4. CASE Resolve
    BY <2>4 DEF Resolve, clientVars, h3Vars, readerVars
  <2>5. CASE ResolveCut \/ ResolveRejects
    BY <2>5 DEF ResolveCut, ResolveRejects, NextRequest, NotifyEnd, clientVars, h3Vars,
       readerVars
  <2>6. CASE InsertRoute
    BY <2>6 DEF InsertRoute, clientVars, h3Vars, readerVars
  <2>7. CASE Spawn
    BY <2>7 DEF Spawn, NextRequest, TaskTo, clientVars, h3Vars, readerVars
  <2>8. CASE ClearRoutes \/ DropConnection
    BY <2>8 DEF ClearRoutes, DropConnection, clientVars, h3Vars, readerVars
  <2> QED BY <1>2, <2>1, <2>2, <2>3, <2>4, <2>5, <2>6, <2>7, <2>8 DEF AcceptLoop
<1>3. CASE Reader \/ \E s \in Streams : ReadDatagram(s)
  BY <1>3 DEF Reader, Deliver, ReadFails, ReaderClears, ReadDatagram, Listening, clientVars,
     loopVars, h3Vars
<1>4. ASSUME NEW s \in Streams, Setup(s) \/ Receive(s) \/ UpstreamEnds(s) \/ TunnelEnds(s)
                          \/ Finish(s)
      PROVE  OngoingWhileLive'
  <2>1. CASE Setup(s)
    BY <2>1 DEF Setup, Refuse, Prepare, Respond, RespondFails, Return, TaskTo, NotifyEnd,
       clientVars, loopVars, h3Vars, readerVars
  <2>2. CASE Receive(s)
    BY <2>2 DEF Receive, clientVars, loopVars, h3Vars, readerVars
  <2>3. CASE UpstreamEnds(s)
    BY <2>3 DEF UpstreamEnds, LeaveLoop, Return, TaskTo, NotifyEnd, clientVars, loopVars,
       h3Vars, readerVars
  <2>4. CASE TunnelEnds(s) \/ Finish(s)
    BY <2>4 DEF TunnelEnds, Hangup, Teardown, Finish, RemoveRoute, LeaveLoop, Return,
       TaskTo, NotifyEnd, clientVars, loopVars, h3Vars, readerVars
  <2> QED BY <1>4, <2>1, <2>2, <2>3, <2>4
<1>5. ASSUME NEW s \in Streams,
             CapsuleReader(s) \/ CapsulesAnswer(s) \/ CapsulesAbort(s) \/ CapsulesFinish(s)
      PROVE  OngoingWhileLive'
  <2>1. CASE CapsuleReader(s) \/ CapsulesAnswer(s) \/ CapsulesAbort(s)
    BY <2>1 DEF CapsuleReader, CapsulesAsked, CapsulesEnd, AnswerLost, CapsulesAnswer,
       CapsulesAbort, CapsuleStep, CapsulesTo, clientVars, loopVars, h3Vars, readerVars
  <2>2. CASE CapsulesFinish(s)
    BY <2>2 DEF CapsulesFinish, CapsulesTo, NotifyEnd, clientVars, loopVars, readerVars
  <2> QED BY <1>5, <2>1, <2>2
<1>6. CASE UNCHANGED vars
  BY <1>6 DEF vars, clientVars, loopVars, h3Vars, readerVars
<1> QED BY <1>1, <1>2, <1>3, <1>4, <1>5, <1>6 DEF Next

\* No cleanup of the table takes the route of a tunnel in service: the accept loop
\* clears after its last request, the reader after the loss of the connection.
LEMMA StepRouteWhileServing ==
  ASSUME TypeOK, LoopInv, TaskInv, RouteInv, GracefulExit, RouteWhileServing, [Next]_vars
  PROVE  RouteWhileServing'
<1> USE ConnAssumption DEF Busy, Datagram, GracefulExit, Live, LoopInv,
       RouteInv, RouteWhileServing, Serving, TaskInv, TypeOK, ipVars
<1>1. CASE Client
  BY <1>1 DEF Client, ClientStep, OpenStream, SendHeaders, SendNoHeaders, SendMalformed,
     Ask, EndStream, SendGoaway, LoseConnection, clientVars, loopVars, h3Vars, readerVars
<1>2. CASE AcceptLoop
  <2>1. ASSUME NEW s \in Streams, Accept(s) PROVE RouteWhileServing'
    BY <2>1 DEF Accept, clientVars, h3Vars, readerVars
  <2>2. CASE AcceptNone
    BY <2>2 DEF AcceptNone, Completed, clientVars, h3Vars, readerVars
  <2>3. CASE AcceptFails
    BY <2>3 DEF AcceptFails, clientVars, h3Vars, readerVars
  <2>4. CASE Resolve
    BY <2>4 DEF Resolve, clientVars, h3Vars, readerVars
  <2>5. CASE ResolveCut \/ ResolveRejects
    BY <2>5 DEF ResolveCut, ResolveRejects, NextRequest, NotifyEnd, clientVars, h3Vars,
       readerVars
  <2>6. CASE InsertRoute
    BY <2>6 DEF InsertRoute, clientVars, h3Vars, readerVars
  <2>7. CASE Spawn
    BY <2>7 DEF Spawn, NextRequest, TaskTo, clientVars, h3Vars, readerVars
  <2>8. CASE ClearRoutes \/ DropConnection
    BY <2>8 DEF ClearRoutes, DropConnection, clientVars, h3Vars, readerVars
  <2> QED BY <1>2, <2>1, <2>2, <2>3, <2>4, <2>5, <2>6, <2>7, <2>8 DEF AcceptLoop
<1>3. CASE Reader \/ \E s \in Streams : ReadDatagram(s)
  BY <1>3 DEF Reader, Deliver, ReadFails, ReaderClears, ReadDatagram, Listening, clientVars,
     loopVars, h3Vars
<1>4. ASSUME NEW s \in Streams, Setup(s) \/ Receive(s) \/ UpstreamEnds(s) \/ TunnelEnds(s)
                          \/ Finish(s)
      PROVE  RouteWhileServing'
  <2>1. CASE Setup(s)
    BY <2>1 DEF Setup, Refuse, Prepare, Respond, RespondFails, Return, TaskTo, NotifyEnd,
       clientVars, loopVars, h3Vars, readerVars
  <2>2. CASE Receive(s)
    BY <2>2 DEF Receive, clientVars, loopVars, h3Vars, readerVars
  <2>3. CASE UpstreamEnds(s)
    BY <2>3 DEF UpstreamEnds, LeaveLoop, Return, TaskTo, NotifyEnd, clientVars, loopVars,
       h3Vars, readerVars
  <2>4. CASE TunnelEnds(s) \/ Finish(s)
    BY <2>4 DEF TunnelEnds, Hangup, Teardown, Finish, RemoveRoute, LeaveLoop, Return,
       TaskTo, NotifyEnd, clientVars, loopVars, h3Vars, readerVars
  <2> QED BY <1>4, <2>1, <2>2, <2>3, <2>4
<1>5. ASSUME NEW s \in Streams,
             CapsuleReader(s) \/ CapsulesAnswer(s) \/ CapsulesAbort(s) \/ CapsulesFinish(s)
      PROVE  RouteWhileServing'
  <2>1. CASE CapsuleReader(s) \/ CapsulesAnswer(s) \/ CapsulesAbort(s)
    BY <2>1 DEF CapsuleReader, CapsulesAsked, CapsulesEnd, AnswerLost, CapsulesAnswer,
       CapsulesAbort, CapsuleStep, CapsulesTo, clientVars, loopVars, h3Vars, readerVars
  <2>2. CASE CapsulesFinish(s)
    BY <2>2 DEF CapsulesFinish, CapsulesTo, NotifyEnd, clientVars, loopVars, readerVars
  <2> QED BY <1>5, <2>1, <2>2
<1>6. CASE UNCHANGED vars
  BY <1>6 DEF vars, clientVars, loopVars, h3Vars, readerVars
<1> QED BY <1>1, <1>2, <1>3, <1>4, <1>5, <1>6 DEF Next

\* A route is inserted before its task exists, so the task's removal comes after.
LEMMA StepNoStaleRoute ==
  ASSUME TypeOK, LoopInv, RouteInv, NoStaleRoute, [Next]_vars
  PROVE  NoStaleRoute'
<1> USE ConnAssumption DEF Busy, Datagram, LoopInv, NoStaleRoute, RouteInv, TypeOK, ipVars
<1>1. CASE Client
  BY <1>1 DEF Client, ClientStep, OpenStream, SendHeaders, SendNoHeaders, SendMalformed,
     Ask, EndStream, SendGoaway, LoseConnection, clientVars, loopVars, h3Vars, readerVars
<1>2. CASE AcceptLoop
  <2>1. ASSUME NEW s \in Streams, Accept(s) PROVE NoStaleRoute'
    BY <2>1 DEF Accept, clientVars, h3Vars, readerVars
  <2>2. CASE AcceptNone
    BY <2>2 DEF AcceptNone, Completed, clientVars, h3Vars, readerVars
  <2>3. CASE AcceptFails
    BY <2>3 DEF AcceptFails, clientVars, h3Vars, readerVars
  <2>4. CASE Resolve
    BY <2>4 DEF Resolve, clientVars, h3Vars, readerVars
  <2>5. CASE ResolveCut \/ ResolveRejects
    BY <2>5 DEF ResolveCut, ResolveRejects, NextRequest, NotifyEnd, clientVars, h3Vars,
       readerVars
  <2>6. CASE InsertRoute
    BY <2>6 DEF InsertRoute, clientVars, h3Vars, readerVars
  <2>7. CASE Spawn
    BY <2>7 DEF Spawn, NextRequest, TaskTo, clientVars, h3Vars, readerVars
  <2>8. CASE ClearRoutes \/ DropConnection
    BY <2>8 DEF ClearRoutes, DropConnection, clientVars, h3Vars, readerVars
  <2> QED BY <1>2, <2>1, <2>2, <2>3, <2>4, <2>5, <2>6, <2>7, <2>8 DEF AcceptLoop
<1>3. CASE Reader \/ \E s \in Streams : ReadDatagram(s)
  BY <1>3 DEF Reader, Deliver, ReadFails, ReaderClears, ReadDatagram, Listening, clientVars,
     loopVars, h3Vars
<1>4. ASSUME NEW s \in Streams, Setup(s) \/ Receive(s) \/ UpstreamEnds(s) \/ TunnelEnds(s)
                          \/ Finish(s)
      PROVE  NoStaleRoute'
  <2>1. CASE Setup(s)
    BY <2>1 DEF Setup, Refuse, Prepare, Respond, RespondFails, Return, TaskTo, NotifyEnd,
       clientVars, loopVars, h3Vars, readerVars
  <2>2. CASE Receive(s)
    BY <2>2 DEF Receive, clientVars, loopVars, h3Vars, readerVars
  <2>3. CASE UpstreamEnds(s)
    BY <2>3 DEF UpstreamEnds, LeaveLoop, Return, TaskTo, NotifyEnd, clientVars, loopVars,
       h3Vars, readerVars
  <2>4. CASE TunnelEnds(s) \/ Finish(s)
    BY <2>4 DEF TunnelEnds, Hangup, Teardown, Finish, RemoveRoute, LeaveLoop, Return,
       TaskTo, NotifyEnd, clientVars, loopVars, h3Vars, readerVars
  <2> QED BY <1>4, <2>1, <2>2, <2>3, <2>4
<1>5. ASSUME NEW s \in Streams,
             CapsuleReader(s) \/ CapsulesAnswer(s) \/ CapsulesAbort(s) \/ CapsulesFinish(s)
      PROVE  NoStaleRoute'
  <2>1. CASE CapsuleReader(s) \/ CapsulesAnswer(s) \/ CapsulesAbort(s)
    BY <2>1 DEF CapsuleReader, CapsulesAsked, CapsulesEnd, AnswerLost, CapsulesAnswer,
       CapsulesAbort, CapsuleStep, CapsulesTo, clientVars, loopVars, h3Vars, readerVars
  <2>2. CASE CapsulesFinish(s)
    BY <2>2 DEF CapsulesFinish, CapsulesTo, NotifyEnd, clientVars, loopVars, readerVars
  <2> QED BY <1>5, <2>1, <2>2
<1>6. CASE UNCHANGED vars
  BY <1>6 DEF vars, clientVars, loopVars, h3Vars, readerVars
<1> QED BY <1>1, <1>2, <1>3, <1>4, <1>5, <1>6 DEF Next

-----------------------------------------------------------------------------
\* A connection starts with an empty table and no request.
LEMMA InitIInv == Init => IInv
<1> SUFFICES ASSUME Init PROVE IInv
  OBVIOUS
<1> USE ConnAssumption DEF Init
<1>1. TypeOK
  BY DEF TypeOK, LoopStates, TaskStates
<1>2. LoopInv /\ TaskInv /\ RouteInv
  BY DEF Busy, LoopInv, TaskInv, RouteInv
<1>3. NoStaleRoute /\ GracefulExit
  BY DEF NoStaleRoute, GracefulExit
<1>4. RouteWhileServing
  BY DEF RouteWhileServing, Serving
<1>5. OngoingWhileLive
  BY DEF OngoingWhileLive, Live
<1> QED BY <1>1, <1>2, <1>3, <1>4, <1>5 DEF IInv

\* Every step keeps the whole of it.
LEMMA StepIInv == ASSUME IInv, [Next]_vars PROVE IInv'
<1>1. /\ TypeOK /\ LoopInv /\ TaskInv /\ RouteInv
      /\ RouteWhileServing /\ NoStaleRoute /\ GracefulExit /\ OngoingWhileLive
  BY DEF IInv
<1>2. TypeOK' /\ LoopInv' /\ TaskInv' /\ RouteInv'
  BY <1>1, StepTypeOK, StepLoopInv, StepTaskInv, StepRouteInv
<1>3. RouteWhileServing' /\ NoStaleRoute' /\ GracefulExit' /\ OngoingWhileLive'
  BY <1>1, StepGracefulExit, StepOngoingWhileLive, StepRouteWhileServing, StepNoStaleRoute
<1> QED BY <1>2, <1>3 DEF IInv

\* The inductive invariant holds throughout a connection (masque.rs:243-466).
THEOREM ConnInvariance == Spec => []IInv
BY InitIInv, StepIInv, PTL DEF Spec

\* While the connection is open no datagram of a tunnel in service is taken for one of an
\* unknown stream (masque.rs:267-281).
THEOREM RoutesServe == Spec => []RouteWhileServing
<1>1. IInv => RouteWhileServing BY DEF IInv
<1> QED BY <1>1, ConnInvariance, PTL

\* A request that is over has left no route behind (masque.rs:336-386).
THEOREM RoutesRemoved == Spec => []NoStaleRoute
<1>1. IInv => NoStaleRoute BY DEF IInv
<1> QED BY <1>1, ConnInvariance, PTL

\* A GOAWAY never cuts a request short: accept returns None when none is live
\* (server/connection.rs:125-144).
THEOREM GoawayGraceful == Spec => []GracefulExit
<1>1. IInv => GracefulExit BY DEF IInv
<1> QED BY <1>1, ConnInvariance, PTL

\* h3's ongoing requests include every stream still in use, split ones too
\* (server/stream.rs:226-236).
THEOREM LiveIsOngoing == Spec => []OngoingWhileLive
<1>1. IInv => OngoingWhileLive BY DEF IInv
<1> QED BY <1>1, ConnInvariance, PTL

\* The variables of a connection keep their types.
THEOREM ConnTypes == Spec => []TypeOK
<1>1. IInv => TypeOK BY DEF IInv
<1> QED BY <1>1, ConnInvariance, PTL
=============================================================================
