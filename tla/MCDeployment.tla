---------------------------- MODULE MCDeployment ---------------------------
\* Every combination of flags that differs in what is started; without arguments the
\* TCP proxy is.
EXTENDS Deployment

Shape(http, h3, complete, usable) ==
  [args |-> "plain", auto |-> FALSE,
   http |-> http, h3 |-> h3, complete |-> complete, usable |-> usable]
TcpOnly == Shape(TRUE, FALSE, FALSE, TRUE)
Both == Shape(TRUE, TRUE, TRUE, TRUE)
QuicOnly == Shape(FALSE, TRUE, TRUE, TRUE)

\* Nothing to serve, a flag missing, a file that does not parse.
Broken == {Shape(FALSE, FALSE, FALSE, TRUE), Shape(TRUE, TRUE, FALSE, TRUE),
           Shape(TRUE, TRUE, TRUE, FALSE)}

PlainFlags ==
  {[TcpOnly EXCEPT !.args = "none"]} \cup Broken
    \cup {[c EXCEPT !.auto = auto] : c \in {TcpOnly, Both, QuicOnly}, auto \in BOOLEAN}

Flags == PlainFlags \cup {[c EXCEPT !.args = "special"] : c \in {TcpOnly, Both}}
=============================================================================
