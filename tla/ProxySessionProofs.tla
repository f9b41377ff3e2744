------------------------- MODULE ProxySessionProofs -------------------------
(***************************************************************************)
(* Proofs about ProxySession: for any requests, addresses, lookups and     *)
(* number of bytes, the proxy answers a request once, talks only to the    *)
(* address it has checked, and carries bytes in each direction as the byte *)
(* pipe does.                                                              *)
(***************************************************************************)
EXTENDS ProxySession, SequenceTheorems, TLAPS

(***************************************************************************)
(* The inductive invariant.                                                *)
(***************************************************************************)
Dialing == {"resolve", "check", "connect", "listen", "accept", "answer"}

\* How much of the client's stream has been read at each stage.
ConsumedFits ==
  /\ stage = "probe" => consumed = 0
  /\ stage = "greeting" => ask.proto = "socks5" /\ consumed = 0
  /\ stage = "request" => ask.proto = "socks5" /\ consumed = 1
  /\ stage = "target" => ask.proto = "socks5" /\ consumed = 2
  /\ stage = "fixed" => ask.proto = "socks4" /\ consumed = 0
  /\ stage = "strings" => ask.proto = "socks4" /\ consumed = 1
  /\ stage \in Dialing => consumed >= HeadLen
  /\ stage = "forward" => consumed > HeadLen
  /\ stage = "tunnel" => consumed = HeadLen + Len(upGot)

\* What upstream has got is what was read after the handshake.
Delivered ==
  /\ stage \notin {"tunnel", "done"} => upGot = <<>>
  /\ upGot # <<>> => consumed = HeadLen + Len(upGot)
  /\ PayloadInOrder

\* An end is signalled to one side after the other has ended and all was passed on.
Ends ==
  /\ stage \notin {"tunnel", "done"} => eof = [up |-> FALSE, down |-> FALSE]
  /\ stage = "tunnel" /\ eof.up => client # "open" /\ consumed = arrived
  /\ stage = "tunnel" /\ eof.down => upEnd # "open" /\ downGot = upSent

\* Upstream is chosen after the check and stays.
UpstreamChosen ==
  /\ stage \in {"check", "connect", "listen", "accept"} => target \in Addrs
  /\ stage \in {"connect", "listen", "accept"} => ~Forbidden
  /\ stage \notin {"answer", "forward", "tunnel", "done"} => upstream = NoAddr
  /\ OnlyPermitted

SessionInv == TypeOK /\ ConsumedFits /\ Delivered /\ Ends /\ UpstreamChosen

-----------------------------------------------------------------------------
\* A handshake has at least one part.
LEMMA HeadLenPositive == HeadLen \in Nat \ {0}
  BY DEF HeadLen

\* What came with an HTTP head is a row of consecutive parts (server.rs:828-831).
LEMMA PendingSeq ==
  ASSUME consumed \in Nat
  PROVE  /\ Pending \in Seq(Nat)
         /\ consumed >= HeadLen => Len(Pending) = consumed - HeadLen
         /\ consumed <= HeadLen => Pending = <<>>
         /\ \A i \in DOMAIN Pending : Pending[i] = HeadLen + i
  <1> DEFINE n == IF consumed >= HeadLen THEN consumed - HeadLen ELSE 0
  <1>1. HeadLen \in Nat /\ n \in Nat BY HeadLenPositive
  <1>2. 1 .. consumed - HeadLen = 1 .. n BY <1>1
  <1>3. Pending = [i \in 1 .. n |-> HeadLen + i] BY <1>2 DEF Pending
  <1>4. \A i \in 1 .. n : HeadLen + i \in Nat BY <1>1
  <1> HIDE DEF n
  <1>5. Pending \in Seq(Nat) /\ Len(Pending) = n
    BY <1>1, <1>3, <1>4
  <1>6. n = 0 => Pending = <<>>
    BY <1>5
  <1> QED BY <1>1, <1>2, <1>3, <1>5, <1>6 DEF n

\* A session begins in the invariant.
LEMMA SessionInit == Init => SessionInv
  <1> SUFFICES ASSUME Init PROVE SessionInv
    OBVIOUS
  <1> USE SessionAssumption DEF Init
  <1>1. TypeOK
    BY DEF TypeOK, Stages
  <1>2. ConsumedFits /\ Delivered /\ Ends
    BY DEF ConsumedFits, Dialing, Delivered, PayloadInOrder, Ends
  <1>3. UpstreamChosen
    BY DEF UpstreamChosen, OnlyPermitted
  <1> QED BY <1>1, <1>2, <1>3 DEF SessionInv

\* Every step of the handler, the client and upstream preserves the invariant.
LEMMA SessionNext == SessionInv /\ [Next]_vars => SessionInv'
  <1> SUFFICES ASSUME SessionInv, [Next]_vars PROVE SessionInv'
    OBVIOUS
  <1> USE SessionAssumption
  <1>0. HeadLen \in Nat \ {0} /\ (ask' = ask => HeadLen' = HeadLen)
    BY HeadLenPositive DEF HeadLen
  <1>1. CASE Detect
    <2> USE <1>1 DEF Detect, Detected, SessionInv, peers, relay
    <2>1. TypeOK'
      BY <1>0 DEF TypeOK, Stages, Reading, Replies
    <2>2. ConsumedFits'
      BY <1>0 DEF ConsumedFits, TypeOK, Delivered, Dialing, HeadLen
    <2>3. Delivered'
      BY <1>0 DEF Delivered, ConsumedFits, TypeOK, Dialing, Reading, PayloadInOrder, HeadLen
    <2>4. Ends'
      BY <1>0 DEF Ends, TypeOK, Reading
    <2>5. UpstreamChosen'
      BY <1>0 DEF UpstreamChosen, TypeOK, Reading, OnlyPermitted, Forbidden
    <2> QED BY <2>1, <2>2, <2>3, <2>4, <2>5
  <1>2. CASE ProbeFails
    <2> USE <1>2 DEF ProbeFails, SessionInv, peers, relay
    <2>1. TypeOK'
      BY <1>0 DEF TypeOK, Stages, Reading, Replies
    <2>2. ConsumedFits'
      BY <1>0 DEF ConsumedFits, TypeOK, Delivered, Dialing, HeadLen
    <2>3. Delivered'
      BY <1>0 DEF Delivered, ConsumedFits, TypeOK, Dialing, Reading, PayloadInOrder, HeadLen
    <2>4. Ends'
      BY <1>0 DEF Ends, TypeOK, Reading
    <2>5. UpstreamChosen'
      BY <1>0 DEF UpstreamChosen, TypeOK, Reading, OnlyPermitted, Forbidden
    <2> QED BY <2>1, <2>2, <2>3, <2>4, <2>5
  <1>3. CASE Greeting
    <2> USE <1>3 DEF Greeting, ReadPart, Say, Fail, SessionInv, peers, relay
    <2>1. TypeOK'
      <3>1. \A r \in Replies : Append(replies, r) \in Seq(Replies)
        BY DEF TypeOK
      <3>2. replies' \in Seq(Replies)
        BY <3>1 DEF TypeOK, Replies
      <3> QED BY <1>0, <3>2 DEF TypeOK, Stages, Reading
    <2>2. ConsumedFits'
      BY <1>0 DEF ConsumedFits, TypeOK, Delivered, Dialing, HeadLen
    <2>3. Delivered'
      BY <1>0 DEF Delivered, ConsumedFits, TypeOK, Dialing, Reading, PayloadInOrder, HeadLen
    <2>4. Ends'
      BY <1>0 DEF Ends, TypeOK, Reading
    <2>5. UpstreamChosen'
      BY <1>0 DEF UpstreamChosen, TypeOK, Reading, OnlyPermitted, Forbidden
    <2> QED BY <2>1, <2>2, <2>3, <2>4, <2>5
  <1>4. CASE Request
    <2> USE <1>4 DEF Request, ReadPart, Say, Fail, FailSilently, SessionInv, peers, relay
    <2>1. TypeOK'
      <3>1. \A r \in Replies : Append(replies, r) \in Seq(Replies)
        BY DEF TypeOK
      <3>2. replies' \in Seq(Replies)
        BY <3>1 DEF TypeOK, Replies
      <3> QED BY <1>0, <3>2 DEF TypeOK, Stages, Reading
    <2>2. ConsumedFits'
      BY <1>0 DEF ConsumedFits, TypeOK, Delivered, Dialing, HeadLen
    <2>3. Delivered'
      BY <1>0 DEF Delivered, ConsumedFits, TypeOK, Dialing, Reading, PayloadInOrder, HeadLen
    <2>4. Ends'
      BY <1>0 DEF Ends, TypeOK, Reading
    <2>5. UpstreamChosen'
      BY <1>0 DEF UpstreamChosen, TypeOK, Reading, OnlyPermitted, Forbidden
    <2> QED BY <2>1, <2>2, <2>3, <2>4, <2>5
  <1>5. CASE Target
    <2> USE <1>5 DEF Target, ReadPart, Say, Fail, SessionInv, peers, relay
    <2>1. TypeOK'
      <3>1. \A r \in Replies : Append(replies, r) \in Seq(Replies)
        BY DEF TypeOK
      <3>2. replies' \in Seq(Replies)
        BY <3>1 DEF TypeOK, Replies
      <3> QED BY <1>0, <3>2 DEF TypeOK, Stages, Reading
    <2>2. ConsumedFits'
      BY <1>0 DEF ConsumedFits, TypeOK, Delivered, Dialing, HeadLen
    <2>3. Delivered'
      BY <1>0 DEF Delivered, ConsumedFits, TypeOK, Dialing, Reading, PayloadInOrder, HeadLen
    <2>4. Ends'
      BY <1>0 DEF Ends, TypeOK, Reading
    <2>5. UpstreamChosen'
      BY <1>0 DEF UpstreamChosen, TypeOK, Reading, OnlyPermitted, Forbidden
    <2> QED BY <2>1, <2>2, <2>3, <2>4, <2>5
  <1>6. CASE TargetUnread
    <2> USE <1>6 DEF TargetUnread, Say, Fail, SessionInv, peers, relay
    <2>1. TypeOK'
      <3>1. \A r \in Replies : Append(replies, r) \in Seq(Replies)
        BY DEF TypeOK
      <3>2. replies' \in Seq(Replies)
        BY <3>1 DEF TypeOK, Replies
      <3> QED BY <1>0, <3>2 DEF TypeOK, Stages, Reading
    <2>2. ConsumedFits'
      BY <1>0 DEF ConsumedFits, TypeOK, Delivered, Dialing, HeadLen
    <2>3. Delivered'
      BY <1>0 DEF Delivered, ConsumedFits, TypeOK, Dialing, Reading, PayloadInOrder, HeadLen
    <2>4. Ends'
      BY <1>0 DEF Ends, TypeOK, Reading
    <2>5. UpstreamChosen'
      BY <1>0 DEF UpstreamChosen, TypeOK, Reading, OnlyPermitted, Forbidden
    <2> QED BY <2>1, <2>2, <2>3, <2>4, <2>5
  <1>7. CASE Fixed
    <2> USE <1>7 DEF Fixed, ReadPart, Say, Fail, SessionInv, peers, relay
    <2>1. TypeOK'
      <3>1. \A r \in Replies : Append(replies, r) \in Seq(Replies)
        BY DEF TypeOK
      <3>2. replies' \in Seq(Replies)
        BY <3>1 DEF TypeOK, Replies
      <3> QED BY <1>0, <3>2 DEF TypeOK, Stages, Reading
    <2>2. ConsumedFits'
      BY <1>0 DEF ConsumedFits, TypeOK, Delivered, Dialing, HeadLen
    <2>3. Delivered'
      BY <1>0 DEF Delivered, ConsumedFits, TypeOK, Dialing, Reading, PayloadInOrder, HeadLen
    <2>4. Ends'
      BY <1>0 DEF Ends, TypeOK, Reading
    <2>5. UpstreamChosen'
      BY <1>0 DEF UpstreamChosen, TypeOK, Reading, OnlyPermitted, Forbidden
    <2> QED BY <2>1, <2>2, <2>3, <2>4, <2>5
  <1>8. CASE Strings
    <2> USE <1>8 DEF Strings, ReadPart, FailSilently, SessionInv, peers, relay
    <2>1. TypeOK'
      BY <1>0 DEF TypeOK, Stages, Reading, Replies
    <2>2. ConsumedFits'
      BY <1>0 DEF ConsumedFits, TypeOK, Delivered, Dialing, HeadLen
    <2>3. Delivered'
      BY <1>0 DEF Delivered, ConsumedFits, TypeOK, Dialing, Reading, PayloadInOrder, HeadLen
    <2>4. Ends'
      BY <1>0 DEF Ends, TypeOK, Reading
    <2>5. UpstreamChosen'
      BY <1>0 DEF UpstreamChosen, TypeOK, Reading, OnlyPermitted, Forbidden
    <2> QED BY <2>1, <2>2, <2>3, <2>4, <2>5
  <1>9. CASE ReadHead
    <2> USE <1>9 DEF ReadHead, SessionInv, peers, relay
    <2>1. TypeOK'
      BY <1>0 DEF TypeOK, Stages, Reading, Replies
    <2>2. ConsumedFits'
      BY <1>0 DEF ConsumedFits, TypeOK, Delivered, Dialing, HeadLen
    <2>3. Delivered'
      BY <1>0 DEF Delivered, ConsumedFits, TypeOK, Dialing, Reading, PayloadInOrder, HeadLen
    <2>4. Ends'
      BY <1>0 DEF Ends, TypeOK, Reading
    <2>5. UpstreamChosen'
      BY <1>0 DEF UpstreamChosen, TypeOK, Reading, OnlyPermitted, Forbidden
    <2> QED BY <2>1, <2>2, <2>3, <2>4, <2>5
  <1>10. CASE ReadFails
    <2> USE <1>10 DEF ReadFails, Reading, Say, Fail, FailSilently, SessionInv, peers, relay
    <2>1. TypeOK'
      <3>1. \A r \in Replies : Append(replies, r) \in Seq(Replies)
        BY DEF TypeOK
      <3>2. replies' \in Seq(Replies)
        BY <3>1 DEF TypeOK, Replies
      <3> QED BY <1>0, <3>2 DEF TypeOK, Stages, Reading
    <2>2. ConsumedFits'
      BY <1>0 DEF ConsumedFits, TypeOK, Delivered, Dialing, HeadLen
    <2>3. Delivered'
      BY <1>0 DEF Delivered, ConsumedFits, TypeOK, Dialing, Reading, PayloadInOrder, HeadLen
    <2>4. Ends'
      BY <1>0 DEF Ends, TypeOK, Reading
    <2>5. UpstreamChosen'
      BY <1>0 DEF UpstreamChosen, TypeOK, Reading, OnlyPermitted, Forbidden
    <2> QED BY <2>1, <2>2, <2>3, <2>4, <2>5
  <1>11. CASE Resolve
    <2> USE <1>11 DEF Resolve, SessionInv, peers, relay
    <2>1. TypeOK'
      BY <1>0 DEF TypeOK, Stages, Reading, Replies
    <2>2. ConsumedFits'
      BY <1>0 DEF ConsumedFits, TypeOK, Delivered, Dialing, HeadLen
    <2>3. Delivered'
      BY <1>0 DEF Delivered, ConsumedFits, TypeOK, Dialing, Reading, PayloadInOrder, HeadLen
    <2>4. Ends'
      BY <1>0 DEF Ends, TypeOK, Reading
    <2>5. UpstreamChosen'
      BY <1>0 DEF UpstreamChosen, TypeOK, Reading, OnlyPermitted, Forbidden
    <2> QED BY <2>1, <2>2, <2>3, <2>4, <2>5
  <1>12. CASE ResolveFails
    <2> USE <1>12 DEF ResolveFails, SessionInv, peers, relay
    <2>1. TypeOK'
      BY <1>0 DEF TypeOK, Stages, Reading, Replies
    <2>2. ConsumedFits'
      BY <1>0 DEF ConsumedFits, TypeOK, Delivered, Dialing, HeadLen
    <2>3. Delivered'
      BY <1>0 DEF Delivered, ConsumedFits, TypeOK, Dialing, Reading, PayloadInOrder, HeadLen
    <2>4. Ends'
      BY <1>0 DEF Ends, TypeOK, Reading
    <2>5. UpstreamChosen'
      BY <1>0 DEF UpstreamChosen, TypeOK, Reading, OnlyPermitted, Forbidden
    <2> QED BY <2>1, <2>2, <2>3, <2>4, <2>5
  <1>13. CASE Forbid
    <2> USE <1>13 DEF Forbid, Say, Fail, SessionInv, peers, relay
    <2>1. TypeOK'
      <3>1. \A r \in Replies : Append(replies, r) \in Seq(Replies)
        BY DEF TypeOK
      <3>2. replies' \in Seq(Replies)
        BY <3>1 DEF TypeOK, Replies
      <3> QED BY <1>0, <3>2 DEF TypeOK, Stages, Reading
    <2>2. ConsumedFits'
      BY <1>0 DEF ConsumedFits, TypeOK, Delivered, Dialing, HeadLen
    <2>3. Delivered'
      BY <1>0 DEF Delivered, ConsumedFits, TypeOK, Dialing, Reading, PayloadInOrder, HeadLen
    <2>4. Ends'
      BY <1>0 DEF Ends, TypeOK, Reading
    <2>5. UpstreamChosen'
      BY <1>0 DEF UpstreamChosen, TypeOK, Reading, OnlyPermitted, Forbidden
    <2> QED BY <2>1, <2>2, <2>3, <2>4, <2>5
  <1>14. CASE Permit
    <2> USE <1>14 DEF Permit, SessionInv, peers, relay
    <2>1. TypeOK'
      BY <1>0 DEF TypeOK, Stages, Reading, Replies
    <2>2. ConsumedFits'
      BY <1>0 DEF ConsumedFits, TypeOK, Delivered, Dialing, HeadLen
    <2>3. Delivered'
      BY <1>0 DEF Delivered, ConsumedFits, TypeOK, Dialing, Reading, PayloadInOrder, HeadLen
    <2>4. Ends'
      BY <1>0 DEF Ends, TypeOK, Reading
    <2>5. UpstreamChosen'
      BY <1>0 DEF UpstreamChosen, TypeOK, Reading, OnlyPermitted, Forbidden
    <2> QED BY <2>1, <2>2, <2>3, <2>4, <2>5
  <1>15. CASE Connect
    <2> USE <1>15 DEF Connect, SessionInv, peers, relay
    <2>1. TypeOK'
      BY <1>0 DEF TypeOK, Stages, Reading, Replies
    <2>2. ConsumedFits'
      BY <1>0 DEF ConsumedFits, TypeOK, Delivered, Dialing, HeadLen
    <2>3. Delivered'
      BY <1>0 DEF Delivered, ConsumedFits, TypeOK, Dialing, Reading, PayloadInOrder, HeadLen
    <2>4. Ends'
      BY <1>0 DEF Ends, TypeOK, Reading
    <2>5. UpstreamChosen'
      BY <1>0 DEF UpstreamChosen, TypeOK, Reading, OnlyPermitted, Forbidden
    <2> QED BY <2>1, <2>2, <2>3, <2>4, <2>5
  <1>16. CASE ConnectFails
    <2> USE <1>16 DEF ConnectFails, Say, Fail, SessionInv, peers, relay
    <2>1. TypeOK'
      <3>1. \A r \in Replies : Append(replies, r) \in Seq(Replies)
        BY DEF TypeOK
      <3>2. replies' \in Seq(Replies)
        BY <3>1 DEF TypeOK, Replies
      <3> QED BY <1>0, <3>2 DEF TypeOK, Stages, Reading
    <2>2. ConsumedFits'
      BY <1>0 DEF ConsumedFits, TypeOK, Delivered, Dialing, HeadLen
    <2>3. Delivered'
      BY <1>0 DEF Delivered, ConsumedFits, TypeOK, Dialing, Reading, PayloadInOrder, HeadLen
    <2>4. Ends'
      BY <1>0 DEF Ends, TypeOK, Reading
    <2>5. UpstreamChosen'
      BY <1>0 DEF UpstreamChosen, TypeOK, Reading, OnlyPermitted, Forbidden
    <2> QED BY <2>1, <2>2, <2>3, <2>4, <2>5
  <1>17. CASE TimesOut
    <2> USE <1>17 DEF TimesOut, SessionInv, peers, relay
    <2>1. TypeOK'
      BY <1>0 DEF TypeOK, Stages, Reading, Replies
    <2>2. ConsumedFits'
      BY <1>0 DEF ConsumedFits, TypeOK, Delivered, Dialing, HeadLen
    <2>3. Delivered'
      BY <1>0 DEF Delivered, ConsumedFits, TypeOK, Dialing, Reading, PayloadInOrder, HeadLen
    <2>4. Ends'
      BY <1>0 DEF Ends, TypeOK, Reading
    <2>5. UpstreamChosen'
      BY <1>0 DEF UpstreamChosen, TypeOK, Reading, OnlyPermitted, Forbidden
    <2> QED BY <2>1, <2>2, <2>3, <2>4, <2>5
  <1>18. CASE Listen
    <2> USE <1>18 DEF Listen, Say, SessionInv, peers, relay
    <2>1. TypeOK'
      <3>1. \A r \in Replies : Append(replies, r) \in Seq(Replies)
        BY DEF TypeOK
      <3>2. replies' \in Seq(Replies)
        BY <3>1 DEF TypeOK, Replies
      <3> QED BY <1>0, <3>2 DEF TypeOK, Stages, Reading
    <2>2. ConsumedFits'
      BY <1>0 DEF ConsumedFits, TypeOK, Delivered, Dialing, HeadLen
    <2>3. Delivered'
      BY <1>0 DEF Delivered, ConsumedFits, TypeOK, Dialing, Reading, PayloadInOrder, HeadLen
    <2>4. Ends'
      BY <1>0 DEF Ends, TypeOK, Reading
    <2>5. UpstreamChosen'
      BY <1>0 DEF UpstreamChosen, TypeOK, Reading, OnlyPermitted, Forbidden
    <2> QED BY <2>1, <2>2, <2>3, <2>4, <2>5
  <1>19. CASE ListenFails
    <2> USE <1>19 DEF ListenFails, SessionInv, peers, relay
    <2>1. TypeOK'
      BY <1>0 DEF TypeOK, Stages, Reading, Replies
    <2>2. ConsumedFits'
      BY <1>0 DEF ConsumedFits, TypeOK, Delivered, Dialing, HeadLen
    <2>3. Delivered'
      BY <1>0 DEF Delivered, ConsumedFits, TypeOK, Dialing, Reading, PayloadInOrder, HeadLen
    <2>4. Ends'
      BY <1>0 DEF Ends, TypeOK, Reading
    <2>5. UpstreamChosen'
      BY <1>0 DEF UpstreamChosen, TypeOK, Reading, OnlyPermitted, Forbidden
    <2> QED BY <2>1, <2>2, <2>3, <2>4, <2>5
  <1>20. CASE AcceptExpected
    <2> USE <1>20 DEF AcceptExpected, SessionInv, peers, relay
    <2>1. TypeOK'
      BY <1>0 DEF TypeOK, Stages, Reading, Replies
    <2>2. ConsumedFits'
      BY <1>0 DEF ConsumedFits, TypeOK, Delivered, Dialing, HeadLen
    <2>3. Delivered'
      BY <1>0 DEF Delivered, ConsumedFits, TypeOK, Dialing, Reading, PayloadInOrder, HeadLen
    <2>4. Ends'
      BY <1>0 DEF Ends, TypeOK, Reading
    <2>5. UpstreamChosen'
      BY <1>0 DEF UpstreamChosen, TypeOK, Reading, OnlyPermitted, Forbidden
    <2> QED BY <2>1, <2>2, <2>3, <2>4, <2>5
  <1>21. CASE AcceptStranger
    <2> USE <1>21 DEF AcceptStranger, Say, Fail, SessionInv, peers, relay
    <2>1. TypeOK'
      <3>1. \A r \in Replies : Append(replies, r) \in Seq(Replies)
        BY DEF TypeOK
      <3>2. replies' \in Seq(Replies)
        BY <3>1 DEF TypeOK, Replies
      <3> QED BY <1>0, <3>2 DEF TypeOK, Stages, Reading
    <2>2. ConsumedFits'
      BY <1>0 DEF ConsumedFits, TypeOK, Delivered, Dialing, HeadLen
    <2>3. Delivered'
      BY <1>0 DEF Delivered, ConsumedFits, TypeOK, Dialing, Reading, PayloadInOrder, HeadLen
    <2>4. Ends'
      BY <1>0 DEF Ends, TypeOK, Reading
    <2>5. UpstreamChosen'
      BY <1>0 DEF UpstreamChosen, TypeOK, Reading, OnlyPermitted, Forbidden
    <2> QED BY <2>1, <2>2, <2>3, <2>4, <2>5
  <1>22. CASE Answer
    <2> USE <1>22 DEF Answer, Say, SessionInv, peers, relay
    <2>1. TypeOK'
      <3>1. \A r \in Replies : Append(replies, r) \in Seq(Replies)
        BY DEF TypeOK
      <3>2. replies' \in Seq(Replies)
        BY <3>1 DEF TypeOK, Replies
      <3> QED BY <1>0, <3>2 DEF TypeOK, Stages, Reading
    <2>2. ConsumedFits'
      <3>1. consumed \in Nat BY DEF TypeOK
      <3>2. consumed >= HeadLen /\ upGot = <<>>
        BY DEF ConsumedFits, Dialing, Delivered
      <3>3. /\ Len(Pending) = consumed - HeadLen
            /\ consumed <= HeadLen => Pending = <<>>
        BY <3>1, <3>2, PendingSeq
      <3>4. Pending = <<>> => consumed = HeadLen
        BY <1>0, <3>1, <3>3
      <3>5. Pending # <<>> => consumed > HeadLen
        BY <1>0, <3>1, <3>3
      <3> QED BY <1>0, <3>1, <3>2, <3>4, <3>5 DEF ConsumedFits, Dialing
    <2>3. Delivered'
      BY <1>0 DEF Delivered, ConsumedFits, TypeOK, Dialing, Reading, PayloadInOrder, HeadLen
    <2>4. Ends'
      BY <1>0 DEF Ends, TypeOK, Reading
    <2>5. UpstreamChosen'
      BY <1>0 DEF UpstreamChosen, TypeOK, Reading, OnlyPermitted, Forbidden
    <2> QED BY <2>1, <2>2, <2>3, <2>4, <2>5
  <1>23. CASE Forward
    <2> USE <1>23 DEF Forward, SessionInv, peers, relay
    <2>1. TypeOK'
      <3>1. consumed \in Nat BY DEF TypeOK
      <3>2. Pending \in Seq(Nat) BY <3>1, PendingSeq
      <3> QED BY <3>2 DEF TypeOK, Stages
    <2>2. ConsumedFits'
      <3>1. consumed \in Nat BY DEF TypeOK
      <3>2. consumed > HeadLen BY DEF ConsumedFits
      <3>3. Len(Pending) = consumed - HeadLen BY <1>0, <3>1, <3>2, PendingSeq
      <3> QED BY <1>0, <3>1, <3>3 DEF ConsumedFits, Dialing
    <2>3. Delivered'
      <3>1. consumed \in Nat BY DEF TypeOK
      <3>2. consumed > HeadLen BY DEF ConsumedFits
      <3>3. Len(Pending) = consumed - HeadLen BY <1>0, <3>1, <3>2, PendingSeq
      <3>4. \A i \in DOMAIN Pending : Pending[i] = HeadLen + i BY <3>1, PendingSeq
      <3> QED BY <1>0, <3>1, <3>3, <3>4 DEF Delivered, PayloadInOrder
    <2>4. Ends'
      BY <1>0 DEF Ends, TypeOK, Reading
    <2>5. UpstreamChosen'
      BY <1>0 DEF UpstreamChosen, TypeOK, Reading, OnlyPermitted, Forbidden
    <2> QED BY <2>1, <2>2, <2>3, <2>4, <2>5
  <1>24. CASE ForwardFails
    <2> USE <1>24 DEF ForwardFails, SessionInv, peers, relay
    <2>1. TypeOK'
      BY <1>0 DEF TypeOK, Stages, Reading, Replies
    <2>2. ConsumedFits'
      BY <1>0 DEF ConsumedFits, TypeOK, Delivered, Dialing, HeadLen
    <2>3. Delivered'
      BY <1>0 DEF Delivered, ConsumedFits, TypeOK, Dialing, Reading, PayloadInOrder, HeadLen
    <2>4. Ends'
      BY <1>0 DEF Ends, TypeOK, Reading
    <2>5. UpstreamChosen'
      BY <1>0 DEF UpstreamChosen, TypeOK, Reading, OnlyPermitted, Forbidden
    <2> QED BY <2>1, <2>2, <2>3, <2>4, <2>5
  <1>25. CASE CopyUp
    <2> USE <1>25 DEF CopyUp, SessionInv, peers, relay
    <2>1. TypeOK'
      BY <1>0 DEF TypeOK, Stages, Reading, Replies
    <2>2. ConsumedFits'
      BY <1>0 DEF ConsumedFits, TypeOK, Delivered, Dialing, HeadLen
    <2>3. Delivered'
      <3>1. upGot \in Seq(Nat) /\ consumed \in Nat BY DEF TypeOK
      <3>2. consumed = HeadLen + Len(upGot) BY DEF ConsumedFits
      <3>3. /\ Len(upGot') = Len(upGot) + 1
            /\ \A i \in 1 .. Len(upGot) : upGot'[i] = upGot[i]
            /\ upGot'[Len(upGot) + 1] = consumed + 1
            /\ DOMAIN upGot' = 1 .. Len(upGot) + 1
        BY <3>1
      <3>4. \A i \in 1 .. Len(upGot) : upGot[i] = HeadLen + i
        BY <3>1 DEF Delivered, PayloadInOrder
      <3>5. \A i \in 1 .. Len(upGot) + 1 : upGot'[i] = HeadLen + i
        <4> SUFFICES ASSUME NEW i \in 1 .. Len(upGot) + 1 PROVE upGot'[i] = HeadLen + i
          OBVIOUS
        <4> HIDE DEF CopyUp
        <4>1. CASE i \in 1 .. Len(upGot) BY <4>1, <3>3, <3>4
        <4>2. CASE i = Len(upGot) + 1 BY <4>2, <1>0, <3>1, <3>2, <3>3
        <4> QED BY <3>1, <4>1, <4>2
      <3>6. PayloadInOrder'
        BY <1>0, <3>3, <3>5 DEF PayloadInOrder
      <3> QED BY <1>0, <3>1, <3>2, <3>3, <3>6 DEF Delivered
    <2>4. Ends'
      BY <1>0 DEF Ends, TypeOK, Reading
    <2>5. UpstreamChosen'
      BY <1>0 DEF UpstreamChosen, TypeOK, Reading, OnlyPermitted, Forbidden
    <2> QED BY <2>1, <2>2, <2>3, <2>4, <2>5
  <1>26. CASE CopyDown
    <2> USE <1>26 DEF CopyDown, SessionInv, peers, relay
    <2>1. TypeOK'
      BY <1>0 DEF TypeOK, Stages, Reading, Replies
    <2>2. ConsumedFits'
      BY <1>0 DEF ConsumedFits, TypeOK, Delivered, Dialing, HeadLen
    <2>3. Delivered'
      BY <1>0 DEF Delivered, ConsumedFits, TypeOK, Dialing, Reading, PayloadInOrder, HeadLen
    <2>4. Ends'
      BY <1>0 DEF Ends, TypeOK, Reading
    <2>5. UpstreamChosen'
      BY <1>0 DEF UpstreamChosen, TypeOK, Reading, OnlyPermitted, Forbidden
    <2> QED BY <2>1, <2>2, <2>3, <2>4, <2>5
  <1>27. CASE EndUp
    <2> USE <1>27 DEF EndUp, SessionInv, peers, relay
    <2>1. TypeOK'
      BY <1>0 DEF TypeOK, Stages, Reading, Replies
    <2>2. ConsumedFits'
      BY <1>0 DEF ConsumedFits, TypeOK, Delivered, Dialing, HeadLen
    <2>3. Delivered'
      BY <1>0 DEF Delivered, ConsumedFits, TypeOK, Dialing, Reading, PayloadInOrder, HeadLen
    <2>4. Ends'
      BY <1>0 DEF Ends, TypeOK, Reading
    <2>5. UpstreamChosen'
      BY <1>0 DEF UpstreamChosen, TypeOK, Reading, OnlyPermitted, Forbidden
    <2> QED BY <2>1, <2>2, <2>3, <2>4, <2>5
  <1>28. CASE EndDown
    <2> USE <1>28 DEF EndDown, SessionInv, peers, relay
    <2>1. TypeOK'
      BY <1>0 DEF TypeOK, Stages, Reading, Replies
    <2>2. ConsumedFits'
      BY <1>0 DEF ConsumedFits, TypeOK, Delivered, Dialing, HeadLen
    <2>3. Delivered'
      BY <1>0 DEF Delivered, ConsumedFits, TypeOK, Dialing, Reading, PayloadInOrder, HeadLen
    <2>4. Ends'
      BY <1>0 DEF Ends, TypeOK, Reading
    <2>5. UpstreamChosen'
      BY <1>0 DEF UpstreamChosen, TypeOK, Reading, OnlyPermitted, Forbidden
    <2> QED BY <2>1, <2>2, <2>3, <2>4, <2>5
  <1>29. CASE TunnelCloses
    <2> USE <1>29 DEF TunnelCloses, SessionInv, peers, relay
    <2>1. TypeOK'
      BY <1>0 DEF TypeOK, Stages, Reading, Replies
    <2>2. ConsumedFits'
      BY <1>0 DEF ConsumedFits, TypeOK, Delivered, Dialing, HeadLen
    <2>3. Delivered'
      BY <1>0 DEF Delivered, ConsumedFits, TypeOK, Dialing, Reading, PayloadInOrder, HeadLen
    <2>4. Ends'
      BY <1>0 DEF Ends, TypeOK, Reading
    <2>5. UpstreamChosen'
      BY <1>0 DEF UpstreamChosen, TypeOK, Reading, OnlyPermitted, Forbidden
    <2> QED BY <2>1, <2>2, <2>3, <2>4, <2>5
  <1>30. CASE TunnelFails
    <2> USE <1>30 DEF TunnelFails, SessionInv, peers, relay
    <2>1. TypeOK'
      BY <1>0 DEF TypeOK, Stages, Reading, Replies
    <2>2. ConsumedFits'
      BY <1>0 DEF ConsumedFits, TypeOK, Delivered, Dialing, HeadLen
    <2>3. Delivered'
      BY <1>0 DEF Delivered, ConsumedFits, TypeOK, Dialing, Reading, PayloadInOrder, HeadLen
    <2>4. Ends'
      BY <1>0 DEF Ends, TypeOK, Reading
    <2>5. UpstreamChosen'
      BY <1>0 DEF UpstreamChosen, TypeOK, Reading, OnlyPermitted, Forbidden
    <2> QED BY <2>1, <2>2, <2>3, <2>4, <2>5
  <1>31. CASE Associate
    <2> USE <1>31 DEF Associate, Say, SessionInv, peers, relay
    <2>1. TypeOK'
      <3>1. \A r \in Replies : Append(replies, r) \in Seq(Replies)
        BY DEF TypeOK
      <3>2. replies' \in Seq(Replies)
        BY <3>1 DEF TypeOK, Replies
      <3> QED BY <1>0, <3>2 DEF TypeOK, Stages, Reading
    <2>2. ConsumedFits'
      BY <1>0 DEF ConsumedFits, TypeOK, Delivered, Dialing, HeadLen
    <2>3. Delivered'
      BY <1>0 DEF Delivered, ConsumedFits, TypeOK, Dialing, Reading, PayloadInOrder, HeadLen
    <2>4. Ends'
      BY <1>0 DEF Ends, TypeOK, Reading
    <2>5. UpstreamChosen'
      BY <1>0 DEF UpstreamChosen, TypeOK, Reading, OnlyPermitted, Forbidden
    <2> QED BY <2>1, <2>2, <2>3, <2>4, <2>5
  <1>32. CASE ControlByte
    <2> USE <1>32 DEF ControlByte, ReadPart, SessionInv, peers, relay
    <2>1. TypeOK'
      BY <1>0 DEF TypeOK, Stages, Reading, Replies
    <2>2. ConsumedFits'
      BY <1>0 DEF ConsumedFits, TypeOK, Delivered, Dialing, HeadLen
    <2>3. Delivered'
      BY <1>0 DEF Delivered, ConsumedFits, TypeOK, Dialing, Reading, PayloadInOrder, HeadLen
    <2>4. Ends'
      BY <1>0 DEF Ends, TypeOK, Reading
    <2>5. UpstreamChosen'
      BY <1>0 DEF UpstreamChosen, TypeOK, Reading, OnlyPermitted, Forbidden
    <2> QED BY <2>1, <2>2, <2>3, <2>4, <2>5
  <1>33. CASE ControlEnds
    <2> USE <1>33 DEF ControlEnds, SessionInv, peers, relay
    <2>1. TypeOK'
      BY <1>0 DEF TypeOK, Stages, Reading, Replies
    <2>2. ConsumedFits'
      BY <1>0 DEF ConsumedFits, TypeOK, Delivered, Dialing, HeadLen
    <2>3. Delivered'
      BY <1>0 DEF Delivered, ConsumedFits, TypeOK, Dialing, Reading, PayloadInOrder, HeadLen
    <2>4. Ends'
      BY <1>0 DEF Ends, TypeOK, Reading
    <2>5. UpstreamChosen'
      BY <1>0 DEF UpstreamChosen, TypeOK, Reading, OnlyPermitted, Forbidden
    <2> QED BY <2>1, <2>2, <2>3, <2>4, <2>5
  <1>34. CASE ClientSends
    <2> USE <1>34 DEF ClientSends, SessionInv, peers, relay
    <2>1. TypeOK'
      BY <1>0 DEF TypeOK, Stages, Reading, Replies
    <2>2. ConsumedFits'
      BY <1>0 DEF ConsumedFits, TypeOK, Delivered, Dialing, HeadLen
    <2>3. Delivered'
      BY <1>0 DEF Delivered, ConsumedFits, TypeOK, Dialing, Reading, PayloadInOrder, HeadLen
    <2>4. Ends'
      BY <1>0 DEF Ends, TypeOK, Reading
    <2>5. UpstreamChosen'
      BY <1>0 DEF UpstreamChosen, TypeOK, Reading, OnlyPermitted, Forbidden
    <2> QED BY <2>1, <2>2, <2>3, <2>4, <2>5
  <1>35. CASE ClientEnds
    <2> USE <1>35 DEF ClientEnds, SessionInv, peers, relay
    <2>1. TypeOK'
      BY <1>0 DEF TypeOK, Stages, Reading, Replies
    <2>2. ConsumedFits'
      BY <1>0 DEF ConsumedFits, TypeOK, Delivered, Dialing, HeadLen
    <2>3. Delivered'
      BY <1>0 DEF Delivered, ConsumedFits, TypeOK, Dialing, Reading, PayloadInOrder, HeadLen
    <2>4. Ends'
      BY <1>0 DEF Ends, TypeOK, Reading
    <2>5. UpstreamChosen'
      BY <1>0 DEF UpstreamChosen, TypeOK, Reading, OnlyPermitted, Forbidden
    <2> QED BY <2>1, <2>2, <2>3, <2>4, <2>5
  <1>36. CASE UpstreamSends
    <2> USE <1>36 DEF UpstreamSends, SessionInv, peers, relay
    <2>1. TypeOK'
      BY <1>0 DEF TypeOK, Stages, Reading, Replies
    <2>2. ConsumedFits'
      BY <1>0 DEF ConsumedFits, TypeOK, Delivered, Dialing, HeadLen
    <2>3. Delivered'
      BY <1>0 DEF Delivered, ConsumedFits, TypeOK, Dialing, Reading, PayloadInOrder, HeadLen
    <2>4. Ends'
      BY <1>0 DEF Ends, TypeOK, Reading
    <2>5. UpstreamChosen'
      BY <1>0 DEF UpstreamChosen, TypeOK, Reading, OnlyPermitted, Forbidden
    <2> QED BY <2>1, <2>2, <2>3, <2>4, <2>5
  <1>37. CASE UpstreamEnds
    <2> USE <1>37 DEF UpstreamEnds, SessionInv, peers, relay
    <2>1. TypeOK'
      BY <1>0 DEF TypeOK, Stages, Reading, Replies
    <2>2. ConsumedFits'
      BY <1>0 DEF ConsumedFits, TypeOK, Delivered, Dialing, HeadLen
    <2>3. Delivered'
      BY <1>0 DEF Delivered, ConsumedFits, TypeOK, Dialing, Reading, PayloadInOrder, HeadLen
    <2>4. Ends'
      BY <1>0 DEF Ends, TypeOK, Reading
    <2>5. UpstreamChosen'
      BY <1>0 DEF UpstreamChosen, TypeOK, Reading, OnlyPermitted, Forbidden
    <2> QED BY <2>1, <2>2, <2>3, <2>4, <2>5
  <1>38. CASE UNCHANGED vars
    BY <1>38 DEF SessionInv, vars, peers, relay, TypeOK, ConsumedFits, HeadLen, Delivered, PayloadInOrder, Ends, UpstreamChosen, OnlyPermitted, Forbidden
  <1> QED
    BY <1>1, <1>2, <1>3, <1>4, <1>5, <1>6, <1>7, <1>8, <1>9, <1>10, <1>11, <1>12, 
       <1>13, <1>14, <1>15, <1>16, <1>17, <1>18, <1>19, <1>20, <1>21, <1>22, <1>23, 
       <1>24, <1>25, <1>26, <1>27, <1>28, <1>29, <1>30, <1>31, <1>32, <1>33, <1>34, 
       <1>35, <1>36, <1>37, <1>38
       DEF Next, Session, Handshake, Dial, Tunnel, Control

\* The inductive invariant holds in every reachable state of a session (server.rs:227-891).
THEOREM SessionInvariance == Spec => []SessionInv
  <1>1. Init => SessionInv BY SessionInit
  <1>2. SessionInv /\ [Next]_vars => SessionInv' BY SessionNext
  <1> QED BY <1>1, <1>2, PTL DEF Spec

\* Every variable of a session keeps its type; nothing is read that has not arrived.
THEOREM SessionTypes == Spec => []TypeOK
  <1>1. SessionInv => TypeOK BY DEF SessionInv
  <1> QED BY <1>1, SessionInvariance, PTL

\* The address that was checked is the address that is used, for any lookup results
\* (server.rs:344-371, 397-410, 710-716, 780-788).
THEOREM CheckedIsUsed == Spec => []OnlyPermitted
  <1>1. SessionInv => OnlyPermitted BY DEF SessionInv, UpstreamChosen
  <1> QED BY <1>1, SessionInvariance, PTL

\* No byte of the payload is lost, repeated or reordered between the handshake and the
\* tunnel (server.rs:806-810, 826-832).
THEOREM PayloadKept == Spec => []PayloadInOrder
  <1>1. SessionInv => PayloadInOrder BY DEF SessionInv, Delivered
  <1> QED BY <1>1, SessionInvariance, PTL

-----------------------------------------------------------------------------
(***************************************************************************)
(* The dialogue.                                                           *)
(***************************************************************************)
Heard == Opening \o <<"listening">>
Granted == {Opening \o <<"ok">>, Opening \o <<"listening", "ok">>}
Underway == {<<>>, Opening, Heard} \cup Granted
Closing(r) == IF r = <<>> THEN "" ELSE r[Len(r)]

\* What a client that has not reset the connection has been told at each stage.
Told(s) ==
  CASE s \in {"probe", "greeting", "fixed", "strings", "head"} -> {<<>>}
    [] s = "accept" -> {Heard}
    [] s = "answer" -> {Opening, Heard}
    [] s \in {"forward", "tunnel", "udp"} -> Granted
    [] OTHER -> {Opening}

\* One that has reset it was told something on the way.
TalkFits ==
  /\ stage # "done" => replies \in Underway
  /\ stage # "done" /\ client # "reset" => replies \in Told(stage)
  /\ stage \in {"answer", "forward", "tunnel"} => upstream # NoAddr
  /\ stage \in {"associate", "udp"} => ask.cmd = "udp"
  /\ stage = "head" => ask.proto = "http"
  /\ stage \notin {"tunnel", "done"} => downGot = 0

Talk == TalkFits /\ RepliesFit

\* A sequence of two replies.
LEMMA Pair ==
  ASSUME NEW S, NEW s \in Seq(S), NEW a \in S, NEW b \in S, Len(s) = 2, s[1] = a, s[2] = b
  PROVE  s = <<a, b>>
  <1>1. <<a, b>> \in Seq(S) /\ Len(<<a, b>>) = 2 OBVIOUS
  <1>2. \A i \in 1 .. 2 : s[i] = <<a, b>>[i] OBVIOUS
  <1> QED BY <1>1, <1>2, SeqEqual

\* Three of them.
LEMMA Triple ==
  ASSUME NEW S, NEW s \in Seq(S), NEW a \in S, NEW b \in S, NEW c \in S,
         Len(s) = 3, s[1] = a, s[2] = b, s[3] = c
  PROVE  s = <<a, b, c>>
  <1>1. <<a, b, c>> \in Seq(S) /\ Len(<<a, b, c>>) = 3 OBVIOUS
  <1>2. \A i \in 1 .. 3 : s[i] = <<a, b, c>>[i] OBVIOUS
  <1> QED BY <1>1, <1>2, SeqEqual

\* A reply more.
LEMMA Extend ==
  ASSUME NEW a, NEW b, NEW f
  PROVE  /\ Append(<<>>, f) = <<f>>
         /\ Append(<<a>>, f) = <<a, f>>
         /\ Append(<<a, b>>, f) = <<a, b, f>>
  <1> DEFINE S == {a, b, f}
  <1>1. <<>> \in Seq(S) /\ <<a>> \in Seq(S) /\ <<a, b>> \in Seq(S) OBVIOUS
  <1>2. a \in S /\ b \in S /\ f \in S /\ <<f>> \in Seq(S) OBVIOUS
  <1> HIDE DEF S
  <1>3. Append(<<>>, f) = <<f>> BY <1>1, <1>2, AppendProperties, SeqEqual
  <1>4. Append(<<a>>, f) = <<a, f>>
    <2> DEFINE s == Append(<<a>>, f)
    <2>1. s \in Seq(S) /\ Len(s) = 2 /\ s[1] = a /\ s[2] = f
      BY <1>1, <1>2, AppendProperties
    <2> QED BY <1>2, <2>1, Pair
  <1>5. Append(<<a, b>>, f) = <<a, b, f>>
    <2> DEFINE s == Append(<<a, b>>, f)
    <2>1. s \in Seq(S) /\ Len(s) = 3 /\ s[1] = a /\ s[2] = b /\ s[3] = f
      BY <1>1, <1>2, AppendProperties
    <2> QED BY <1>2, <2>1, Triple
  <1> QED BY <1>3, <1>4, <1>5

\* Replies after the opening.
LEMMA Join ==
  ASSUME NEW a, NEW b, NEW f
  PROVE  /\ <<>> \o <<>> = <<>> /\ <<a>> \o <<>> = <<a>>
         /\ <<>> \o <<f>> = <<f>> /\ <<a>> \o <<f>> = <<a, f>>
         /\ <<>> \o <<b, f>> = <<b, f>> /\ <<a>> \o <<b, f>> = <<a, b, f>>
  <1> DEFINE S == {a, b, f}
  <1>1. <<>> \in Seq(S) /\ <<a>> \in Seq(S) /\ <<f>> \in Seq(S) /\ <<b, f>> \in Seq(S) OBVIOUS
  <1>2. a \in S /\ b \in S /\ f \in S OBVIOUS
  <1> HIDE DEF S
  <1>3. <<a>> \o <<f>> = <<a, f>>
    <2> DEFINE s == <<a>> \o <<f>>
    <2>1. s \in Seq(S) /\ Len(s) = 2 /\ s[1] = a /\ s[2] = f
      BY <1>1, <1>2, ConcatProperties
    <2> QED BY <1>2, <2>1, Pair
  <1>4. <<a>> \o <<b, f>> = <<a, b, f>>
    <2> DEFINE s == <<a>> \o <<b, f>>
    <2>1. s \in Seq(S) /\ Len(s) = 3 /\ s[1] = a /\ s[2] = b /\ s[3] = f
      BY <1>1, <1>2, ConcatProperties
    <2> QED BY <1>2, <2>1, Triple
  <1>5. <<>> \o <<>> = <<>> /\ <<a>> \o <<>> = <<a>> BY <1>1, ConcatEmptySeq
  <1>6. <<>> \o <<f>> = <<f>> /\ <<>> \o <<b, f>> = <<b, f>> BY <1>1, ConcatEmptySeq
  <1> QED BY <1>3, <1>4, <1>5, <1>6
\* The sequences of replies a session goes through.
LEMMA Words ==
  /\ Opening \in {<<>>, <<"method">>}
  /\ \A f : Append(Opening, f) = Opening \o <<f>>
  /\ \A f : Append(Heard, f) = Opening \o <<"listening", f>>
  /\ Opening \o <<>> = Opening
  <1>1. CASE ask.proto = "socks5"
    <2>1. Opening = <<"method">> BY <1>1 DEF Opening
    <2>2. Heard = <<"method", "listening">> BY <2>1, Join DEF Heard
    <2>3. \A f : Append(<<"method">>, f) = <<"method">> \o <<f>>
      <3>1. \A f : Append(<<"method">>, f) = <<"method", f>> BY Extend
      <3>2. \A f : <<"method">> \o <<f>> = <<"method", f>> BY Join
      <3> QED BY <3>1, <3>2
    <2>4. \A f : Append(<<"method", "listening">>, f) = <<"method">> \o <<"listening", f>>
      BY Extend, Join
    <2> QED BY <2>1, <2>2, <2>3, <2>4, Join
  <1>2. CASE ask.proto # "socks5"
    <2>1. Opening = <<>> BY <1>2 DEF Opening
    <2>2. Heard = <<"listening">> BY <2>1, Join DEF Heard
    <2>3. \A f : Append(<<>>, f) = <<>> \o <<f>> BY Extend, Join
    <2>4. \A f : Append(<<"listening">>, f) = <<>> \o <<"listening", f>>
      <3>1. \A f : Append(<<"listening">>, f) = <<"listening", f>> BY Extend
      <3>2. \A f : <<>> \o <<"listening", f>> = <<"listening", f>> BY Join
      <3> QED BY <3>1, <3>2
    <2> QED BY <2>1, <2>2, <2>3, <2>4, Join
  <1> QED BY <1>1, <1>2

\* How each of them ends.
LEMMA Endings ==
  /\ Closing(<<>>) = "" /\ Closing(Opening) \in {"", "method"} /\ Closing(Heard) = "listening"
  /\ \A r \in Granted : Closing(r) = "ok"
  /\ \A f : Closing(Append(Opening, f)) = f /\ Closing(Append(Heard, f)) = f
            /\ Closing(Append(<<>>, f)) = f
  <1>1. \A f : Closing(<<f>>) = f BY DEF Closing
  <1>2. \A e, f : Closing(<<e, f>>) = f BY DEF Closing
  <1>3. \A d, e, f : Closing(<<d, e, f>>) = f BY DEF Closing
  <1>4. \A f : Append(<<>>, f) = <<f>> BY Extend
  <1>5. Closing(<<>>) = "" BY DEF Closing
  <1>6. CASE ask.proto = "socks5"
    <2>1. Opening = <<"method">> BY <1>6 DEF Opening
    <2>2. Heard = <<"method", "listening">> BY <2>1, Join DEF Heard
    <2>3. \A f : Append(<<"method">>, f) = <<"method", f>> BY Extend
    <2>4. \A f : Append(<<"method", "listening">>, f) = <<"method", "listening", f>> BY Extend
    <2>5. Granted = {<<"method", "ok">>, <<"method", "listening", "ok">>}
      BY <2>1, Join DEF Granted
    <2>6. \A r \in Granted : Closing(r) = "ok" BY <1>2, <1>3, <2>5
    <2>7. Closing(Opening) = "method" /\ Closing(Heard) = "listening"
      BY <1>1, <1>2, <2>1, <2>2
    <2>8. \A f : Closing(Append(Opening, f)) = f BY <1>2, <2>1, <2>3
    <2>9. \A f : Closing(Append(Heard, f)) = f
      <3>1. \A f : Append(Heard, f) = <<"method", "listening", f>> BY <2>2, <2>4
      <3>2. \A f : Closing(<<"method", "listening", f>>) = f BY <1>3
      <3> QED BY <3>1, <3>2
    <2> QED BY <1>1, <1>4, <1>5, <2>6, <2>7, <2>8, <2>9
  <1>7. CASE ask.proto # "socks5"
    <2>1. Opening = <<>> BY <1>7 DEF Opening
    <2>2. Heard = <<"listening">> BY <2>1, Join DEF Heard
    <2>3. \A f : Append(<<"listening">>, f) = <<"listening", f>> BY Extend
    <2>4. Granted = {<<"ok">>, <<"listening", "ok">>} BY <2>1, Join DEF Granted
    <2>5. \A r \in Granted : Closing(r) = "ok" BY <1>1, <1>2, <2>4
    <2>6. Closing(Opening) = "" /\ Closing(Heard) = "listening"
      BY <1>1, <1>5, <2>1, <2>2
    <2>7. \A f : Closing(Append(Opening, f)) = f BY <1>1, <1>4, <2>1
    <2>8. \A f : Closing(Append(Heard, f)) = f BY <1>2, <2>2, <2>3
    <2> QED BY <1>1, <1>4, <1>5, <2>5, <2>6, <2>7, <2>8
  <1> QED BY <1>6, <1>7

\* What is said under way is no refusal, and belongs to a dialogue.
LEMMA UnderwayFits ==
  \A r \in Underway :
    /\ r \in {<<>>} \cup Dialogues
    /\ Closing(r) \notin Failures \cup {"nomethod"}
    /\ Closing(r) = "ok" <=> r \in Granted
  <1> SUFFICES ASSUME NEW r \in Underway
               PROVE  /\ r \in {<<>>} \cup Dialogues
                      /\ Closing(r) \notin Failures \cup {"nomethod"}
                      /\ Closing(r) = "ok" <=> r \in Granted
    OBVIOUS
  <1>1. Opening \in Dialogues BY Words DEF Dialogues
  <1>2. Heard \in Dialogues BY DEF Dialogues, Heard
  <1>3. Granted \subseteq Dialogues BY DEF Dialogues, Granted
  <1>4. Closing(r) \in {"", "method", "listening", "ok"}
    BY Endings DEF Underway
  <1>5. {"", "method", "listening", "ok"} \cap (Failures \cup {"nomethod"}) = {}
    BY DEF Failures
  <1>6. Closing(r) = "ok" <=> r \in Granted
    BY Endings DEF Underway
  <1> QED BY <1>1, <1>2, <1>3, <1>4, <1>5, <1>6 DEF Underway

\* A request is kept for the whole session, and with it its dialogues.
LEMMA SameRequest ==
  ASSUME [Next]_vars
  PROVE  /\ ask' = ask
         /\ Opening' = Opening /\ Heard' = Heard /\ Granted' = Granted
         /\ Underway' = Underway /\ Failures' = Failures /\ Dialogues' = Dialogues
  <1>1. ask' = ask
    BY DEF Next, Session, Handshake, Dial, Tunnel, Control, peers, relay, vars,
           Detect, ProbeFails, Greeting, Request, Target, TargetUnread, Fixed,
           Strings, ReadHead, ReadFails, ReadPart, Resolve, ResolveFails, Forbid, Permit,
           Connect, ConnectFails, TimesOut, Listen, ListenFails, AcceptExpected,
           AcceptStranger, Answer, Forward, ForwardFails, CopyUp, CopyDown, EndUp, EndDown,
           TunnelCloses, TunnelFails, Associate, ControlByte, ControlEnds,
           ClientSends, ClientEnds, UpstreamSends, UpstreamEnds
  <1> QED BY <1>1 DEF Opening, Heard, Granted, Underway, Failures, Dialogues

\* A refusal that fits what was said before it ends the session well.
LEMMA Refusal ==
  ASSUME SessionInv, Talk, [Next]_vars, NEW f, Fail(f),
         UNCHANGED <<client, upstream, upGot, downGot>>,
         stage \notin {"answer", "forward", "tunnel", "done"},
         client # "reset" => Append(replies, f) \in Dialogues
                             /\ Closing(Append(replies, f)) = f /\ f # "ok"
  PROVE  Talk'
  <1>1. stage' = "done" BY DEF Fail, Say
  <1>2. upstream' = NoAddr /\ upGot' = <<>> /\ downGot' = 0
    BY DEF SessionInv, UpstreamChosen, Delivered, Talk, TalkFits
  <1>3. TalkFits' BY <1>1 DEF TalkFits
  <1>4. CASE client # "reset"
    <2>1. replies' = Append(replies, f) BY <1>4 DEF Fail, Say
    <2>2. Said' = f BY <1>4, <2>1 DEF Said, Closing
    <2> QED BY <1>1, <1>2, <1>3, <1>4, <2>1, <2>2, SameRequest DEF Talk, RepliesFit
  <1>5. CASE client = "reset"
    <2>1. replies' = replies BY <1>5 DEF Fail, Say
    <2>2. Said' = Said BY <2>1 DEF Said
    <2>3. stage # "done" => Said # "ok" \/ ask.cmd = "udp" \/ upstream # NoAddr
      BY DEF Talk, RepliesFit
    <2> QED BY <1>1, <1>2, <1>3, <2>1, <2>2, SameRequest DEF Talk, RepliesFit
  <1> QED BY <1>4, <1>5

\* A step without a reply keeps what was said true.
LEMMA Quiet ==
  ASSUME SessionInv, Talk, [Next]_vars,
         UNCHANGED <<replies, upGot, downGot>>,
         client = "reset" => client' = "reset",
         stage = "done" => stage' = "done" /\ upstream' = upstream,
         upstream # NoAddr => upstream' # NoAddr
  PROVE  RepliesFit'
  <1>1. Said' = Said BY DEF Said
  <1>2. stage # "done" => Said \notin Failures \cup {"nomethod"}
    BY UnderwayFits DEF Talk, TalkFits, Said, Closing
  <1> QED BY <1>1, <1>2, SameRequest DEF Talk, RepliesFit

\* Neither does a reply that goes on with it.
LEMMA Advance ==
  ASSUME SessionInv, Talk, [Next]_vars, NEW e, NEW next, Say(e, next),
         UNCHANGED <<client, upstream, upGot, downGot>>,
         stage \notin {"forward", "tunnel", "done"},
         client # "reset" => Append(replies, e) \in Underway,
         client # "reset" => Closing(Append(replies, e)) = e,
         e = "ok" => upstream # NoAddr \/ ask.cmd = "udp"
  PROVE  RepliesFit' /\ (stage' # "done" => replies' \in Underway)
  <1>1. upGot' = <<>> /\ downGot' = 0
    BY DEF SessionInv, Delivered, Talk, TalkFits
  <1>2. CASE client # "reset"
    <2>1. replies' = Append(replies, e) BY <1>2 DEF Say
    <2>2. Said' = e BY <1>2, <2>1 DEF Said, Closing
    <2>3. replies' \in {<<>>} \cup Dialogues /\ e \notin Failures \cup {"nomethod"}
      BY <1>2, <2>1, UnderwayFits
    <2> QED BY <1>1, <1>2, <2>1, <2>2, <2>3, SameRequest DEF Talk, RepliesFit
  <1>3. CASE client = "reset"
    <2>1. replies' = replies /\ replies \in Underway
      BY <1>3 DEF Say, Talk, TalkFits
    <2>2. RepliesFit' BY <1>3, <2>1, Quiet
    <2> QED BY <2>1, <2>2
  <1> QED BY <1>2, <1>3

\* Every step keeps the dialogue.
LEMMA TalkNext ==
  ASSUME SessionInv, SessionInv', Talk, [Next]_vars
  PROVE  Talk'
  <1> USE SessionAssumption
  <1>0. ask' = ask /\ Opening' = Opening /\ Heard' = Heard /\ Granted' = Granted
        /\ Underway' = Underway
    BY SameRequest
  <1>a. /\ <<>> \in Underway /\ Opening \in Underway /\ Heard \in Underway
        /\ Granted \subseteq Underway
    BY DEF Underway
  <1>b. ask.proto # "socks5" => Opening = <<>> BY DEF Opening
  \* Steps of the handshake and of dialling that say nothing.
  <1>1. CASE \/ Detect \/ ProbeFails \/ Resolve \/ ResolveFails \/ Permit
             \/ Connect \/ TimesOut \/ ListenFails \/ AcceptExpected
             \/ Strings \/ ReadHead \/ ControlByte \/ ControlEnds
    <2> USE DEF Detect, ProbeFails, Resolve, ResolveFails, Permit, Connect, TimesOut,
                ListenFails, AcceptExpected, Strings, ReadHead, ControlByte, ControlEnds,
                ReadPart, FailSilently, peers, relay
    <2>1. UNCHANGED <<client, replies, upGot, downGot>> BY <1>1
    <2>2. stage # "done" BY <1>1
    <2>3. upstream # NoAddr => upstream' # NoAddr
      BY <1>1 DEF SessionInv, UpstreamChosen
    <2>4. RepliesFit' BY <2>1, <2>2, <2>3, Quiet
    <2>5. TalkFits'
      <3>1. stage' # "done" => stage \in {"probe", "resolve", "check", "connect", "accept", "strings", "head", "udp"}
        BY <1>1
      <3> QED BY <1>0, <1>1, <1>a, <1>b, <2>1, <2>2
         DEF Talk, TalkFits, Told, Detected, SessionInv, UpstreamChosen, ConsumedFits
    <2> QED BY <2>4, <2>5 DEF Talk
  <1>c. /\ \A f \in Failures : Append(Opening, f) \in Dialogues
        /\ Append(Heard, "forbidden") \in Dialogues
        /\ <<"nomethod">> \in Dialogues
    BY Words DEF Dialogues
  <1>d. Append(<<>>, "nomethod") = <<"nomethod">> /\ Append(<<>>, "method") = <<"method">>
    BY Extend
  <1>e. /\ Append(Opening, "listening") = Heard
        /\ Append(Opening, "ok") \in Granted /\ Append(Heard, "ok") \in Granted
    BY Words DEF Heard, Granted
  <1>f. ask.proto = "socks5" => Opening = <<"method">> BY DEF Opening
  \* A refusal.
  <1>2. CASE ConnectFails \/ Forbid
    <2> USE DEF ConnectFails, Forbid, peers, relay
    <2>1. PICK f \in {"refused", "forbidden"} : Fail(f) BY <1>2
    <2>2. client # "reset" => replies = Opening
      BY <1>2 DEF Talk, TalkFits, Told
    <2>3. f \in Failures BY DEF Failures
    <2> QED BY <1>2, <1>c, <2>1, <2>2, <2>3, Refusal, Endings
  <1>3. CASE AcceptStranger
    <2> USE DEF AcceptStranger, peers, relay
    <2>1. client # "reset" => replies = Heard
      BY <1>3 DEF Talk, TalkFits, Told
    <2> QED BY <1>3, <1>c, <2>1, Refusal, Endings
  <1>4. CASE TargetUnread
    <2> USE DEF TargetUnread, peers, relay
    <2>1. client # "reset" => replies = Opening
      BY <1>4 DEF Talk, TalkFits, Told
    <2>2. "address" \in Failures
      BY <1>4 DEF Failures, SessionInv, ConsumedFits
    <2> QED BY <1>4, <1>c, <2>1, <2>2, Refusal, Endings
  \* Parts of a handshake: refused, acknowledged or silently taken.
  <1>5. CASE Greeting
    <2> USE DEF Greeting, ReadPart, peers, relay
    <2>1. ask.proto = "socks5" /\ (client # "reset" => replies = <<>>)
      BY <1>5 DEF SessionInv, ConsumedFits, Talk, TalkFits, Told
    <2>2. CASE Fail("nomethod")
      <3>1. Closing(Append(<<>>, "nomethod")) = "nomethod" BY Endings
      <3>2. client # "reset" => Append(replies, "nomethod") \in Dialogues
                                /\ Closing(Append(replies, "nomethod")) = "nomethod"
        BY <1>c, <1>d, <2>1, <3>1
      <3>3. UNCHANGED <<client, upstream, upGot, downGot>> /\ stage = "greeting"
        BY <1>5
      <3> QED BY <2>2, <3>2, <3>3, Refusal
    <2>3. CASE Say("method", "request")
      <3>1. Closing(Append(<<>>, "method")) = "method" BY Endings
      <3>2. client # "reset" => Append(replies, "method") = Opening
                                /\ Closing(Append(replies, "method")) = "method"
        BY <1>d, <1>f, <2>1, <3>1
      <3>3. UNCHANGED <<client, upstream, upGot, downGot>> /\ stage = "greeting"
        BY <1>5
      <3>4. RepliesFit' /\ (stage' # "done" => replies' \in Underway)
        BY <1>a, <2>3, <3>2, <3>3, Advance
      <3>5. TalkFits'
        BY <1>0, <2>3, <3>2, <3>3, <3>4 DEF Say, Talk, TalkFits, Told
      <3> QED BY <3>4, <3>5 DEF Talk
    <2> QED BY <1>5, <2>2, <2>3
  <1>6. CASE Request \/ Target \/ Fixed
    <2> USE DEF Request, Target, Fixed, ReadPart, FailSilently, peers, relay
    <2>1. client # "reset" => replies = Opening
      BY <1>6, <1>b DEF Talk, TalkFits, Told, SessionInv, ConsumedFits
    <2>2. CASE \E f \in {"general", "address", "command"} : f \in Failures /\ Fail(f)
      BY <1>6, <1>c, <2>1, <2>2, Refusal, Endings
    <2>3. CASE replies' = replies /\ stage' \in {"target", "associate", "resolve", "strings"}
      <3>1. RepliesFit' BY <1>6, <2>3, Quiet
      <3>2. client' = client /\ upstream' = upstream /\ downGot' = 0
        BY <1>6 DEF Talk, TalkFits
      <3>3. stage' = "associate" => ask.cmd = "udp" BY <1>6, <2>3 DEF Fail, Say
      <3>4. stage' = "strings" => Opening = <<>>
        BY <1>6, <1>b DEF SessionInv, ConsumedFits
      <3>5. replies' \in Underway BY <1>6, <2>3 DEF Talk, TalkFits
      <3>6. client' # "reset" => replies' \in Told(stage')
        BY <2>1, <2>3, <3>2, <3>4 DEF Told
      <3>7. TalkFits' BY <1>0, <2>3, <3>2, <3>3, <3>5, <3>6 DEF TalkFits, Told
      <3> QED BY <3>1, <3>7 DEF Talk
    <2>4. CASE FailSilently
      <3>1. RepliesFit' BY <1>6, <2>4, Quiet
      <3>2. TalkFits' BY <1>6, <2>4 DEF TalkFits
      <3> QED BY <3>1, <3>2 DEF Talk
    <2>5. ASSUME Request
          PROVE  \/ "general" \in Failures /\ Fail("general")
                 \/ replies' = replies /\ stage' = "target"
                 \/ FailSilently
      BY <2>5 DEF Failures, SessionInv, ConsumedFits
    <2>6. ASSUME Target \/ Fixed
          PROVE  \/ \E f \in {"address", "command"} : f \in Failures /\ Fail(f)
                 \/ replies' = replies /\ stage' \in {"associate", "resolve", "strings"}
      BY <2>6 DEF Failures, SessionInv, ConsumedFits
    <2> QED BY <1>6, <2>2, <2>3, <2>4, <2>5, <2>6 DEF Failures, SessionInv, ConsumedFits
  <1>7. CASE ReadFails
    <2> USE DEF ReadFails, Reading, FailSilently, peers, relay
    <2>1. CASE stage = "target"
      <3>1. client # "reset" => replies = Opening
        BY <1>7, <2>1 DEF Talk, TalkFits, Told
      <3>2. "address" \in Failures
        BY <2>1 DEF Failures, SessionInv, ConsumedFits
      <3>3. Fail("address") /\ UNCHANGED <<client, upstream, upGot, downGot>>
        BY <1>7, <2>1
      <3>4. Append(Opening, "address") \in Dialogues
            /\ Closing(Append(Opening, "address")) = "address"
        BY <1>c, <3>2, Endings
      <3> QED BY <2>1, <3>1, <3>3, <3>4, Refusal
    <2>2. CASE stage # "target"
      <3>1. RepliesFit' BY <1>7, <2>2, Quiet
      <3>2. TalkFits' BY <1>7, <2>2 DEF TalkFits
      <3> QED BY <3>1, <3>2 DEF Talk
    <2> QED BY <2>1, <2>2
  \* A reply that goes on.
  <1>8. CASE Listen
    <2> USE DEF Listen, peers, relay
    <2>1. client # "reset" => replies = Opening
      BY <1>8 DEF Talk, TalkFits, Told
    <2>2. RepliesFit' /\ (stage' # "done" => replies' \in Underway)
      BY <1>8, <1>a, <1>e, <2>1, Advance, Endings
    <2>3. TalkFits'
      BY <1>0, <1>8, <1>e, <2>1, <2>2 DEF Say, Talk, TalkFits, Told
    <2> QED BY <2>2, <2>3 DEF Talk
  <1>9. CASE Associate
    <2> USE DEF Associate, peers, relay
    <2>1. client # "reset" => replies = Opening
      BY <1>9 DEF Talk, TalkFits, Told
    <2>2. ask.cmd = "udp" BY <1>9 DEF Talk, TalkFits
    <2>3. RepliesFit' /\ (stage' # "done" => replies' \in Underway)
      BY <1>9, <1>a, <1>e, <2>1, <2>2, Advance, Endings
    <2>4. TalkFits'
      BY <1>0, <1>9, <1>e, <2>1, <2>2, <2>3 DEF Say, Talk, TalkFits, Told
    <2> QED BY <2>3, <2>4 DEF Talk
  <1>10. CASE Answer
    <2> USE DEF Answer, peers
    <2>1. client # "reset" => replies \in {Opening, Heard}
      BY <1>10 DEF Talk, TalkFits, Told
    <2>2. upstream # NoAddr BY <1>10 DEF Talk, TalkFits
    <2>3. PICK next \in {"tunnel", "forward"} : Say("ok", next) BY <1>10
    <2>4. RepliesFit' /\ (stage' # "done" => replies' \in Underway)
      BY <1>10, <1>a, <1>e, <2>1, <2>2, <2>3, Advance, Endings
    <2>5. TalkFits'
      BY <1>0, <1>10, <1>e, <2>1, <2>2, <2>3, <2>4 DEF Say, Talk, TalkFits, Told
    <2> QED BY <2>4, <2>5 DEF Talk
  \* The tunnel: a byte is passed after "ok" only.
  <1>11. CASE \/ Forward \/ ForwardFails \/ CopyUp \/ CopyDown
              \/ EndUp \/ EndDown \/ TunnelCloses \/ TunnelFails
    <2> USE DEF Forward, ForwardFails, CopyUp, CopyDown, EndUp, EndDown, TunnelCloses,
                TunnelFails, peers, relay
    <2>1. UNCHANGED <<client, replies, upstream>> /\ stage \in {"forward", "tunnel"}
      BY <1>11
    <2>2. client # "reset" => Said = "ok"
      BY <2>1, UnderwayFits, <1>a DEF Talk, TalkFits, Told, Said, Closing
    <2>3. Said' = Said BY <2>1 DEF Said
    <2>4. Said \notin Failures \cup {"nomethod"}
      BY <2>1, UnderwayFits DEF Talk, TalkFits, Said, Closing
    <2>5. RepliesFit'
      BY <2>1, <2>2, <2>3, <2>4, SameRequest DEF Talk, RepliesFit
    <2>6. TalkFits'
      BY <1>0, <1>11, <2>1 DEF Talk, TalkFits, Told
    <2> QED BY <2>5, <2>6 DEF Talk
  <1>12. CASE ClientSends \/ ClientEnds \/ UpstreamSends \/ UpstreamEnds \/ UNCHANGED vars
    <2> USE DEF ClientSends, ClientEnds, UpstreamSends, UpstreamEnds, vars, peers, relay
    <2>1. /\ UNCHANGED <<replies, stage, upstream, upGot, downGot>>
          /\ client = "reset" => client' = "reset"
      BY <1>12
    <2>2. RepliesFit' BY <2>1, Quiet
    <2>3. TalkFits' BY <1>0, <2>1 DEF Talk, TalkFits, Told
    <2> QED BY <2>2, <2>3 DEF Talk
  <1> QED
    BY <1>1, <1>2, <1>3, <1>4, <1>5, <1>6, <1>7, <1>8, <1>9, <1>10, <1>11, <1>12
       DEF Next, Session, Handshake, Dial, Tunnel, Control

\* A request is answered once: no reply follows a refusal or a success, "ok" means that
\* upstream is there, and no byte passes before it, whenever the client closes or resets
\* (server.rs:287-332, 346-386, 399-429, 690-729, 782-810).
THEOREM AnsweredOnce == Spec => []RepliesFit
  <1>1. Init => Talk
    BY DEF Init, Talk, TalkFits, RepliesFit, Underway, Told, Said, Failures
  <1>2. SessionInv /\ SessionInv' /\ Talk /\ [Next]_vars => Talk'
    BY TalkNext
  <1>3. Talk => RepliesFit BY DEF Talk
  <1> QED BY <1>1, <1>2, <1>3, SessionInvariance, PTL DEF Spec

-----------------------------------------------------------------------------
(***************************************************************************)
(* The refinement of BytePipe.                                             *)
(***************************************************************************)
\* The client-to-upstream direction takes a step of the pipe or none.
LEMMA UpStep ==
  ASSUME SessionInv, [Next]_vars
  PROVE  [Up!Next]_<<PayloadSent, client, Len(upGot), eof.up>>
  <1> USE DEF SessionInv, peers, relay
  <1>0. HeadLen \in Nat \ {0} /\ (ask' = ask => HeadLen' = HeadLen)
    BY HeadLenPositive DEF HeadLen
  <1>1. /\ consumed \in Nat /\ arrived \in Nat /\ consumed <= arrived
        /\ upGot \in Seq(Nat) /\ Len(upGot) \in Nat
    BY DEF TypeOK
  <1>2. ask' = ask /\ arrived' = arrived => PayloadSent' = PayloadSent
    BY <1>0 DEF PayloadSent
  <1>3. CASE Handshake \/ Dial \/ Control
    <2>1. UNCHANGED <<PayloadSent, client, upGot, eof>>
      BY <1>2, <1>3
         DEF Handshake, Detect, ProbeFails, Greeting, Request, Target, TargetUnread, Fixed,
             Strings, ReadHead, ReadFails, ReadPart,
             Dial, Resolve, ResolveFails, Forbid, Permit, Connect, ConnectFails, TimesOut,
             Listen, ListenFails, AcceptExpected, AcceptStranger,
             Control, Associate, ControlByte, ControlEnds
    <2> QED BY <2>1
  <1>4. CASE Answer
    <2>1. UNCHANGED <<PayloadSent, client, upGot>> BY <1>2, <1>4 DEF Answer
    <2>2. CASE stage' = "done"
      <3>1. client = "reset" BY <1>4, <2>2 DEF Answer, Say
      <3>2. ~eof.up BY <1>4 DEF Answer, Ends
      <3>3. eof.up' BY <1>4, <2>2 DEF Answer, TypeOK
      <3>4. Up!Eof BY <2>1, <3>1, <3>2, <3>3 DEF Up!Eof
      <3> QED BY <3>4 DEF Up!Next
    <2>3. CASE stage' # "done"
      BY <1>4, <2>1, <2>3 DEF Answer
    <2> QED BY <2>2, <2>3
  <1>5. CASE Forward
    <2>1. UNCHANGED <<PayloadSent, client, eof>> BY <1>2, <1>5 DEF Forward
    <2>2. ~eof.up BY <1>5 DEF Forward, Ends
    <2>3. consumed > HeadLen /\ Len(upGot) = 0
      BY <1>5 DEF Forward, ConsumedFits, Delivered
    <2>4. Len(upGot') = consumed - HeadLen
      BY <1>0, <1>1, <1>5, <2>3, PendingSeq DEF Forward
    <2>5. Len(upGot') \in Len(upGot) + 1 .. PayloadSent
      BY <1>0, <1>1, <2>3, <2>4 DEF PayloadSent
    <2>6. Up!Deliver BY <2>1, <2>2, <2>5 DEF Up!Deliver
    <2> QED BY <2>6 DEF Up!Next
  <1>6. CASE ForwardFails \/ CopyDown \/ EndDown \/ TunnelCloses
    <2>1. UNCHANGED <<PayloadSent, client, upGot>>
      BY <1>2, <1>6 DEF ForwardFails, CopyDown, EndDown, TunnelCloses
    <2>2. UNCHANGED eof.up
      BY <1>6 DEF ForwardFails, CopyDown, EndDown, TunnelCloses, TypeOK
    <2> QED BY <2>1, <2>2
  <1>7. CASE CopyUp
    <2>1. UNCHANGED <<PayloadSent, client, eof>> BY <1>2, <1>7 DEF CopyUp
    <2>2. ~eof.up BY <1>1, <1>7 DEF CopyUp, Ends
    <2>3. Len(upGot') = Len(upGot) + 1 BY <1>1, <1>7 DEF CopyUp
    <2>4. consumed = HeadLen + Len(upGot) /\ consumed < arrived
      BY <1>7 DEF CopyUp, ConsumedFits
    <2>5. Len(upGot') \in Len(upGot) + 1 .. PayloadSent
      BY <1>0, <1>1, <2>3, <2>4 DEF PayloadSent
    <2>6. Up!Deliver BY <2>1, <2>2, <2>5 DEF Up!Deliver
    <2> QED BY <2>6 DEF Up!Next
  <1>8. CASE EndUp
    <2>1. UNCHANGED <<PayloadSent, client, upGot>> BY <1>2, <1>8 DEF EndUp
    <2>2. client = "fin" /\ ~eof.up BY <1>8 DEF EndUp
    <2>3. eof.up' BY <1>8 DEF EndUp, TypeOK
    <2>4. consumed = HeadLen + Len(upGot) /\ consumed = arrived
      BY <1>8 DEF EndUp, ConsumedFits
    <2>5. Len(upGot) = PayloadSent BY <1>0, <1>1, <2>4 DEF PayloadSent
    <2>6. Up!Eof BY <2>1, <2>2, <2>3, <2>5 DEF Up!Eof
    <2> QED BY <2>6 DEF Up!Next
  <1>9. CASE TunnelFails
    <2>1. UNCHANGED <<PayloadSent, client, upGot>> BY <1>2, <1>9 DEF TunnelFails
    <2>2. eof.up' = (eof.up \/ client = "reset") BY <1>9 DEF TunnelFails
    <2>3. eof.up \in BOOLEAN BY DEF TypeOK
    <2>4. CASE client = "reset" /\ ~eof.up
      <3>1. eof.up' BY <2>2, <2>4
      <3>2. Up!Eof BY <2>1, <2>4, <3>1 DEF Up!Eof
      <3> QED BY <3>2 DEF Up!Next
    <2>5. CASE ~(client = "reset" /\ ~eof.up)
      <3>1. eof.up' = eof.up BY <2>2, <2>3, <2>5
      <3> QED BY <2>1, <3>1
    <2> QED BY <2>4, <2>5
  <1>10. CASE ClientSends
    <2>1. UNCHANGED <<client, upGot, eof>> /\ client = "open"
      BY <1>10 DEF ClientSends
    <2>2. PayloadSent' = PayloadSent \/ PayloadSent' = PayloadSent + 1
      BY <1>0, <1>1, <1>10 DEF ClientSends, PayloadSent
    <2>3. Up!Write \/ UNCHANGED <<PayloadSent, client, Len(upGot), eof.up>>
      BY <2>1, <2>2 DEF Up!Write
    <2> QED BY <2>3 DEF Up!Next
  <1>11. CASE ClientEnds
    <2>1. UNCHANGED <<PayloadSent, upGot, eof>> BY <1>2, <1>11 DEF ClientEnds
    <2>2. client \in {"open", "fin"} /\ client' \in {"fin", "reset"} \ {client}
      BY <1>11 DEF ClientEnds, TypeOK
    <2>3. Up!Close \/ Up!Cut BY <2>1, <2>2 DEF Up!Close, Up!Cut
    <2> QED BY <2>3 DEF Up!Next
  <1>12. CASE UpstreamSends \/ UpstreamEnds
    BY <1>2, <1>12 DEF UpstreamSends, UpstreamEnds
  <1>13. CASE UNCHANGED vars
    BY <1>2, <1>13 DEF vars
  <1> QED
    BY <1>3, <1>4, <1>5, <1>6, <1>7, <1>8, <1>9, <1>10, <1>11, <1>12, <1>13
       DEF Next, Session, Tunnel

\* So does the direction from upstream to the client.
LEMMA DownStep ==
  ASSUME SessionInv, [Next]_vars
  PROVE  [Down!Next]_<<upSent, upEnd, downGot, eof.down>>
  <1> USE DEF SessionInv, peers, relay
  <1>1. downGot \in Nat /\ upSent \in Nat /\ downGot <= upSent
    BY DEF TypeOK
  <1>2. CASE Handshake \/ Dial \/ Control \/ ClientSends \/ ClientEnds
    <2>1. UNCHANGED <<upSent, upEnd, downGot, eof>>
      BY <1>2
         DEF Handshake, Detect, ProbeFails, Greeting, Request, Target, TargetUnread, Fixed,
             Strings, ReadHead, ReadFails, ReadPart,
             Dial, Resolve, ResolveFails, Forbid, Permit, Connect, ConnectFails, TimesOut,
             Listen, ListenFails, AcceptExpected, AcceptStranger,
             Control, Associate, ControlByte, ControlEnds, ClientSends, ClientEnds
    <2> QED BY <2>1
  <1>3. CASE Answer \/ Forward \/ CopyUp \/ EndUp \/ TunnelCloses
    <2>1. UNCHANGED <<upSent, upEnd, downGot>>
      BY <1>3 DEF Answer, Forward, CopyUp, EndUp, TunnelCloses
    <2>2. UNCHANGED eof.down
      BY <1>3 DEF Answer, Forward, CopyUp, EndUp, TunnelCloses, TypeOK
    <2> QED BY <2>1, <2>2
  <1>4. CASE ForwardFails
    <2>1. UNCHANGED <<upSent, upEnd, downGot>> /\ upEnd = "reset"
      BY <1>4 DEF ForwardFails
    <2>2. ~eof.down BY <1>4 DEF ForwardFails, Ends
    <2>3. eof.down' BY <1>4 DEF ForwardFails, TypeOK
    <2>4. Down!Eof BY <2>1, <2>2, <2>3 DEF Down!Eof
    <2> QED BY <2>4 DEF Down!Next
  <1>5. CASE CopyDown
    <2>1. UNCHANGED <<upSent, upEnd, eof>> BY <1>5 DEF CopyDown
    <2>2. ~eof.down BY <1>1, <1>5 DEF CopyDown, Ends
    <2>3. downGot' \in downGot + 1 .. upSent BY <1>1, <1>5 DEF CopyDown
    <2>4. Down!Deliver BY <2>1, <2>2, <2>3 DEF Down!Deliver
    <2> QED BY <2>4 DEF Down!Next
  <1>6. CASE EndDown
    <2>1. UNCHANGED <<upSent, upEnd, downGot>> BY <1>6 DEF EndDown
    <2>2. upEnd = "fin" /\ downGot = upSent /\ ~eof.down BY <1>6 DEF EndDown
    <2>3. eof.down' BY <1>6 DEF EndDown, TypeOK
    <2>4. Down!Eof BY <2>1, <2>2, <2>3 DEF Down!Eof
    <2> QED BY <2>4 DEF Down!Next
  <1>7. CASE TunnelFails
    <2>1. UNCHANGED <<upSent, upEnd, downGot>> BY <1>7 DEF TunnelFails
    <2>2. eof.down' = (eof.down \/ upEnd = "reset") BY <1>7 DEF TunnelFails
    <2>3. eof.down \in BOOLEAN BY DEF TypeOK
    <2>4. CASE upEnd = "reset" /\ ~eof.down
      <3>1. eof.down' BY <2>2, <2>4
      <3>2. Down!Eof BY <2>1, <2>4, <3>1 DEF Down!Eof
      <3> QED BY <3>2 DEF Down!Next
    <2>5. CASE ~(upEnd = "reset" /\ ~eof.down)
      <3>1. eof.down' = eof.down BY <2>2, <2>3, <2>5
      <3> QED BY <2>1, <3>1
    <2> QED BY <2>4, <2>5
  <1>8. CASE UpstreamSends
    <2>1. Down!Write BY <1>8 DEF UpstreamSends, Down!Write
    <2> QED BY <2>1 DEF Down!Next
  <1>9. CASE UpstreamEnds
    <2>1. UNCHANGED <<upSent, downGot, eof>> BY <1>9 DEF UpstreamEnds
    <2>2. upEnd \in {"open", "fin"} /\ upEnd' \in {"fin", "reset"} \ {upEnd}
      BY <1>9 DEF UpstreamEnds, TypeOK
    <2>3. Down!Close \/ Down!Cut BY <2>1, <2>2 DEF Down!Close, Down!Cut
    <2> QED BY <2>3 DEF Down!Next
  <1>10. CASE UNCHANGED vars
    BY <1>10 DEF vars
  <1> QED
    BY <1>2, <1>3, <1>4, <1>5, <1>6, <1>7, <1>8, <1>9, <1>10
       DEF Next, Session, Tunnel

\* A session of the TCP proxy carries bytes as CONNECT over HTTP/3 does, for any number of
\* bytes: both directions implement the byte pipe (server.rs:806-810, 881-891).
THEOREM SessionIsPipes == Spec => PipesImplemented
  <1>1. Init => Up!Init /\ Down!Init
    <2> SUFFICES ASSUME Init PROVE Up!Init /\ Down!Init
      OBVIOUS
    <2>1. PayloadSent = 0 BY HeadLenPositive DEF Init, PayloadSent
    <2> QED BY <2>1 DEF Init, Up!Init, Down!Init
  <1> QED
    BY <1>1, UpStep, DownStep, SessionInvariance, PTL
       DEF Spec, PipesImplemented, Up!Spec, Down!Spec
=============================================================================
