--------------------------- MODULE MCProxySession ---------------------------
(***************************************************************************)
(* Instances of ProxySession for TLC: a public and a special-purpose       *)
(* address, the public one given as a literal and a name that may resolve  *)
(* to either.                                                              *)
(***************************************************************************)
EXTENDS ProxySession, TLC

CONSTANTS public, local

Answers == ("literal" :> {public}) @@ ("name" :> {public, local})

Good == [proto : {"socks4", "socks5", "http"}, cmd : {"connect"}, form : {"ok"},
         dest : {"literal", "name"}]

Odd == [proto : {"socks5"}, cmd : {"bind"}, form : {"ok"}, dest : {"literal", "name"}]
  \cup [proto : {"socks5"}, cmd : {"udp", "other"}, form : {"ok"}, dest : {"literal"}]
  \cup [proto : {"socks5"}, cmd : {"connect"}, form : {"nomethod", "version", "reserved", "address"},
        dest : {"literal"}]
  \cup [proto : {"socks4"}, cmd : {"connect", "bind"}, form : {"address"}, dest : {"literal"}]
  \cup [proto : {"http", "other"}, cmd : {"connect"}, form : {"address"}, dest : {"literal"}]

Requests == Good \cup Odd
=============================================================================
