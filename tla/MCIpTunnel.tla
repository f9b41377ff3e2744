----------------------------- MODULE MCIpTunnel ----------------------------
\* Bytes of four bits: a varint of one byte holds 0 to 3, of two bytes 4 to 63, of
\* four bytes up to 16383.  The client's bytes are written out here, not by the codec.
EXTENDS IpTunnel

Lengths == [v \in {4, 6} |-> IF v = 4 THEN 1 ELSE 2]

Good == [scheme |-> "Bearer", decodes |-> TRUE, secret |-> "token"]
Creds == {Good, [Good EXCEPT !.scheme = "Basic"], [Good EXCEPT !.secret = "wrong"],
          [Good EXCEPT !.scheme = "other"],
          [Good EXCEPT !.scheme = "Basic", !.decodes = FALSE]}
Places == {<<"literal", "number">>, <<"bracketedname", "number">>, <<"empty", "number">>,
           <<"name", "text">>, <<"bracketed", "missing">>}
Protos == {"none", "connect-udp", "connect-ip", "websocket", "unknown"}

Request(method, proto, path, place, capsule, cred) ==
  [method |-> method, proto |-> proto, path |-> path, host |-> place[1], port |-> place[2],
   capsule |-> capsule, cred |-> cred]

\* Only CONNECT carries a :protocol; the ip template has no host.
MCRequests ==
  {Request("CONNECT", proto, path, place, capsule, cred) :
     proto \in Protos, path \in {"udp", "other"}, place \in Places,
     capsule \in BOOLEAN, cred \in Creds}
  \cup {Request("CONNECT", proto, "ip", <<"name", "missing">>, capsule, cred) :
          proto \in Protos, capsule \in BOOLEAN, cred \in Creds \ {[Good EXCEPT !.scheme = "Basic"]}}
  \cup {Request("GET", "none", path, <<"name", "missing">>, FALSE, Good) :
          path \in {"ip", "other"}}

\* Capsules of a client: type, length (in two bytes from 4 on), value; the IDs it asks for.
OneLong(idBytes, id) ==
  [wire |-> <<2, 4, Len(idBytes) + 3>> \o idBytes \o <<4, 9, 4>>, ids |-> <<id>>,
   broken |-> FALSE]
Two == [wire |-> <<2, 4, 9, 3, 4, 9, 4, 2, 6, 1, 2, 8>>, ids |-> <<3, 2>>, broken |-> FALSE]
Empty == [wire |-> <<2, 0>>, ids |-> <<>>, broken |-> TRUE]
BadPrefix == [wire |-> <<2, 4, 4, 1, 4, 9, 5>>, ids |-> <<>>, broken |-> TRUE]
Routes == [wire |-> <<3, 1, 9>>, ids |-> <<>>, broken |-> FALSE]
Unknown == [wire |-> <<4, 7, 1, 0>>, ids |-> <<>>, broken |-> FALSE]

MCScripts ==
  {<<OneLong(<<4, 1>>, 1), OneLong(<<4, 4>>, 4)>>,           \* 1 in two bytes; 4 needs them
   <<Two, Routes, Empty>>,
   <<Unknown, OneLong(<<7, 15>>, 63), BadPrefix>>}           \* 63 is the last two-byte ID

MCMessages ==
  {[wire |-> <<0, 9>>, context |-> 0, packet |-> <<9>>],
   [wire |-> <<4, 0, 9>>, context |-> 0, packet |-> <<9>>],   \* 0 written in two bytes
   [wire |-> <<1, 8>>, context |-> 1, packet |-> <<8>>],
   [wire |-> <<4>>, context |-> -1, packet |-> <<>>]}         \* cut short

MCAssigned ==
  {[version |-> 4, addr |-> <<9>>, prefix |-> 4], [version |-> 6, addr |-> <<1, 15>>, prefix |-> 8]}
=============================================================================
