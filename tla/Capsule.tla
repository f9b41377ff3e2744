------------------------------ MODULE Capsule ------------------------------
(***************************************************************************)
(* The capsule codec of src/src/capsule.rs: QUIC varints, the TLV framing  *)
(* of RFC 9297 and the values of the three CONNECT-IP capsules.            *)
(*                                                                         *)
(* A byte is a number below Base = 2^ByteBits, so that with small bytes    *)
(* every length class of a varint (1, 2, 4, 8 bytes) has its boundaries    *)
(* inside the integers of TLC.  Addresses are sequences of bytes.  A       *)
(* decoder answers [ok |-> FALSE] where the code answers None.             *)
(***************************************************************************)
EXTENDS Integers, Sequences, SequencesExt

CONSTANTS
  ByteBits,  \* bits of a byte: 8 in the program
  AddrLen    \* bytes of an address by IP version: 4 |-> 4, 6 |-> 16

ASSUME CodecAssumption ==
  /\ ByteBits \in Nat \ 0 .. 2   \* a version number fits a byte
  /\ AddrLen \in [{4, 6} -> Nat \ {0}]

Base == 2 ^ ByteBits
Quarter == Base \div 4     \* the two top bits of the first byte are the length class
Byte == 0 .. Base - 1
Bytes == Seq(Byte)

AddressAssign == 1
AddressRequest == 2
RouteAdvertisement == 3

None == [ok |-> FALSE]

(***************************************************************************)
(* Varints.                                                                *)
(***************************************************************************)
\* The weight of a byte that k bytes follow.
Power(k) == 2 ^ (ByteBits * k)

\* The values below are those of eight bytes without the bits of the class: 2^62.
VarintLimit == Quarter * Power(7)

\* The n low bytes of v, most significant first.
Digits(v, n) == [i \in 1 .. n |-> (v \div Power(n - i)) % Base]

\* The length class put_varint chooses: 2^class bytes.
Class(v) ==
  IF v < Quarter THEN 0 ELSE IF v < Quarter * Base THEN 1
                        ELSE IF v < Quarter * Power(3) THEN 2 ELSE 3

\* value | class bits: the bits of the class replace those of the value.
PutVarint(v) ==
  [Digits(v, 2 ^ Class(v)) EXCEPT ![1] = (@ % Quarter) + Class(v) * Quarter]

GetVarint(s) ==
  IF s = <<>> \/ Len(s) < 2 ^ (s[1] \div Quarter) THEN None
  ELSE LET n == 2 ^ (s[1] \div Quarter)
           shift(acc, b) == acc * Base + b
       IN [ok |-> TRUE,
           value |-> FoldLeft(shift, s[1] % Quarter, SubSeq(s, 2, n)),
           rest |-> SubSeq(s, n + 1, Len(s))]

(***************************************************************************)
(* Framing.                                                                *)
(***************************************************************************)
EncodeCapsule(typ, value) == PutVarint(typ) \o PutVarint(Len(value)) \o value

\* The first capsule of s and what follows it, None while it is incomplete.
SplitCapsule(s) ==
  LET t == GetVarint(s)
      l == IF t.ok THEN GetVarint(t.rest) ELSE None
  IN IF l.ok /\ (l.ok => Len(l.rest) >= l.value)
     THEN [ok |-> TRUE, typ |-> t.value,
           value |-> SubSeq(l.rest, 1, l.value),
           rest |-> SubSeq(l.rest, l.value + 1, Len(l.rest))]
     ELSE None

\* Faulty variant: the context is taken to be one byte, whatever its value.
StripFirstByte(s) == IF s = <<>> THEN None ELSE [ok |-> TRUE, packet |-> SubSeq(s, 2, Len(s))]

\* The packet of a datagram of context 0; other datagrams are dropped.
StripContextId(s) ==
  LET c == GetVarint(s)
  IN IF c.ok /\ (c.ok => c.value = 0) THEN [ok |-> TRUE, packet |-> c.rest] ELSE None

(***************************************************************************)
(* ADDRESS_ASSIGN and ADDRESS_REQUEST: entries [id, version, addr, prefix].*)
(***************************************************************************)
EncodeEntry(e) == PutVarint(e.id) \o <<e.version>> \o e.addr \o <<e.prefix>>
EncodeEntries(entries) == FlattenSeq([i \in DOMAIN entries |-> EncodeEntry(entries[i])])

\* The first entry of a value; its address has the length of its version and its
\* prefix is no longer than the address.
FirstEntry(s) ==
  LET c == GetVarint(s)
      version == IF c.ok /\ c.rest # <<>> THEN c.rest[1] ELSE 0
      n == IF version \in {4, 6} THEN AddrLen[version] ELSE 0
  IN IF n > 0 /\ Len(c.rest) >= n + 2 /\ c.rest[n + 2] <= n * ByteBits
     THEN [ok |-> TRUE,
           item |-> [id |-> c.value, version |-> version,
                     addr |-> SubSeq(c.rest, 2, n + 1), prefix |-> c.rest[n + 2]],
           rest |-> SubSeq(c.rest, n + 3, Len(c.rest))]
     ELSE None

\* decode_address_value: all entries, or None if any is malformed.
DecodeEntries[s \in Bytes] ==
  IF s = <<>> THEN [ok |-> TRUE, items |-> <<>>]
  ELSE LET first == FirstEntry(s)
           more == IF first.ok THEN DecodeEntries[first.rest] ELSE None
       IN IF more.ok THEN [ok |-> TRUE, items |-> <<first.item>> \o more.items]
                     ELSE None

EncodeAssign(entries) == EncodeCapsule(AddressAssign, EncodeEntries(entries))

(***************************************************************************)
(* ROUTE_ADVERTISEMENT: ranges [version, start, end, proto].               *)
(***************************************************************************)
EncodeRange(r) == <<r.version>> \o r.start \o r.end \o <<r.proto>>
EncodeRanges(ranges) == FlattenSeq([i \in DOMAIN ranges |-> EncodeRange(ranges[i])])

\* Addresses of one version compare as numbers.
Number(addr) == LET shift(acc, b) == acc * Base + b IN FoldLeft(shift, 0, addr)

FirstRange(s) ==
  LET n == IF s[1] \in {4, 6} THEN AddrLen[s[1]] ELSE 0
      r == [version |-> s[1], start |-> SubSeq(s, 2, n + 1),
            end |-> SubSeq(s, n + 2, 2 * n + 1), proto |-> s[2 * n + 2]]
  IN IF n > 0 /\ Len(s) >= 2 * n + 2 /\ Number(r.start) <= Number(r.end)
     THEN [ok |-> TRUE, item |-> r, rest |-> SubSeq(s, 2 * n + 3, Len(s))]
     ELSE None

DecodeRanges[s \in Bytes] ==
  IF s = <<>> THEN [ok |-> TRUE, items |-> <<>>]
  ELSE LET first == FirstRange(s)
           more == IF first.ok THEN DecodeRanges[first.rest] ELSE None
       IN IF more.ok THEN [ok |-> TRUE, items |-> <<first.item>> \o more.items]
                     ELSE None

EncodeRoutes(ranges) == EncodeCapsule(RouteAdvertisement, EncodeRanges(ranges))
=============================================================================
