------------------------------ MODULE BytePipe ------------------------------
(***************************************************************************)
(* What one direction of a CONNECT tunnel promises (src/docs/QUIC.md,      *)
(* section 4, "a pure byte pipe"): the reader receives a prefix of what    *)
(* the writer sent, and sees the end of the stream only after all of it    *)
(* unless the writer was cut off.                                          *)
(***************************************************************************)
EXTENDS Integers

VARIABLES
  sent,    \* bytes written so far
  ending,  \* the writer's side: "open", "fin" or "reset"
  got,     \* bytes the reader has been given
  eof      \* the reader has been told that the stream has ended

Init == sent = 0 /\ ending = "open" /\ got = 0 /\ eof = FALSE

Write ==
  /\ ending = "open"
  /\ sent' = sent + 1
  /\ UNCHANGED <<ending, got, eof>>

Close ==
  /\ ending = "open"
  /\ ending' = "fin"
  /\ UNCHANGED <<sent, got, eof>>

\* The writer resets or is lost, perhaps before what it finished has arrived.
Cut ==
  /\ ending # "reset"
  /\ ending' = "reset"
  /\ UNCHANGED <<sent, got, eof>>

Deliver ==
  /\ ~eof
  /\ got' \in got + 1 .. sent
  /\ UNCHANGED <<sent, ending, eof>>

Eof ==
  /\ ~eof
  /\ (ending = "fin" /\ got = sent) \/ ending = "reset"
  /\ eof' = TRUE
  /\ UNCHANGED <<sent, ending, got>>

Next == Write \/ Close \/ Cut \/ Deliver \/ Eof

Spec == Init /\ [][Next]_<<sent, ending, got, eof>>
=============================================================================
