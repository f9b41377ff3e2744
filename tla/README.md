# moon-toll-station: specification and proofs

TLA+ models of the proxy `auto-server` (TCP proxy for SOCKS4, SOCKS5 and HTTP
CONNECT; MASQUE server over HTTP/3), the TLC runs that check them, and TLAPS
proofs for every value of their constants. Paths are those of the repository:
`src/masque.rs` below is the file of that name in the crate.

## 1. Inventory

| Part | State it keeps | Operations | Correct when |
| --- | --- | --- | --- |
| CONNECT-IP address pool (`tun.rs:365-424`) | CIDR, two block cursors | `new`, `allocate` | blocks are inside the CIDR, never shared, none wasted |
| Tun gateway (`tun.rs:36-356`) | global `IP_FORWARD` (count, saved value); per device its rules and `managed_ip_forward`; the kernel's flag, firewall and links | `create`, `Drop`, `ensure_ip_forward`, `release_ip_forward` | a tunnel always has forwarding; the host is left as it was found |
| MASQUE connection (`masque.rs:243-466`, patched h3 `server/`) | routing table, datagram channels, h3's `ongoing_streams`, one task per request, the reader task | accept, resolve, spawn, route datagrams, remove routes, exit | no route lost or leaked, no request cut by GOAWAY, everything ends with the connection |
| CONNECT-UDP relay (`masque.rs:472-600`) | socket, channel, MTU bound | relay both ways, finish | follows the life of its stream |
| CONNECT-IP session (`masque.rs:617-876`) | device, addresses, capsule buffer, teardown channel | allocate, create, advertise, capsule reader, data plane | each request answered once and in order, packets whole and never too big, a broken capsule ends the tunnel |
| CONNECT and WebSocket (`masque.rs:1043-1203`) | two byte pumps on one task | connect, answer, pump, half-close | each direction is a byte pipe |
| Listeners (`masque.rs:154-238`, `server.rs:86-108`, joined in `lib.rs:49`) | endpoint, socket | bind, handshake, spawn | both serve again and again; a TCP listener that fails takes the other with it |
| Dispatch and validation (`masque.rs:305-457, 880-1039, 1248-1289`) | none | pure functions of a request | the arm and the validator it leads to agree, no tunnel without the token |
| Capsule codec (`capsule.rs`) | none | varints, TLV, address and route values | what the client wrote is what is read, and what it reads is what was meant |
| TCP proxy sessions (`server.rs`) | one task per client | SOCKS4, SOCKS5 and HTTP handshakes, BIND, tunnel | one reply per request, forbidden targets refused |
| SOCKS5 UDP relay (`server.rs:432-547`) | client address, target cache | relay, learn address, look up, end with the control connection | datagrams reach only permitted targets, one per destination; responses follow the last request |
| Auto-upgrade (`upgrade.rs`) | files on disk, running version | check, keep, rename, restart, exit | a crash leaves a working binary and a running service |
| Service (`service.rs`) | unit or init script, binary copy | install, enable, start, stop, uninstall | uninstall leaves nothing that runs or starts; the arguments reach the process |
| Configuration and start-up (`config.rs`, `lib.rs`) | flags | validate, run | what cannot serve ends at once, with an error |
| Logging, name resolution | none of their own | formatting; a library | not modelled |

How they interact: `run` (lib.rs) starts the TCP server and the MASQUE server in
one `try_join!` and the upgrade loop beside them. A MASQUE connection owns the
routing table; each datagram request puts a sender into it before its task is
spawned, the reader task sends through it, the task takes it out when its
handler has returned. A CONNECT-IP task locks the shared pool, then creates a
device; every device of the process shares `IP_FORWARD` and the kernel. The
upgrade loop ends the process, with everything above, by `exit(0)`. The init
system starts it from the unit or script `service install` wrote. A SOCKS5 UDP
association runs inside the TCP session that asked for it.

Hard behaviour: the refcount against concurrent creation and teardown with
commands that fail; the routing table under five kinds of writers; h3's count of
requests whose streams are split over tasks; half-close of two pumps; capsules
cut into pieces anywhere; one UDP socket for a client that migrates and all its
targets; process death; installations that fail half way; address arithmetic at
the ends of a pool. The whole list, line by line,
is `hazards` in `PROJECT.json`.

## 2. Modules

| Module | Models | State and actions against the code |
| --- | --- | --- |
| `IpPool` | `IpPool` of tun.rs | `blocks` is `v4_blocks`/`v6_blocks`; `PoolAllocate`, `PoolRefuse` are the two ways out of `allocate`. 32-bit wrap is `% AddrSpace`. `leases`, `refused` are history. |
| `TunGateway` | `TunDevice`, `IP_FORWARD`, the kernel, the allocation in `handle_ip_stream` | one action per command that `create` or `Drop` runs and per way it fails; `Ensure`/`Release` are one hold of the static mutex; `Kill` is the end of the process without destructors, `Toggle` the operator. |
| `ForwardLease` | abstract | what the refcount promises: the flag is on while somebody holds a lease, and the last holder restores it. |
| `MasqueConn` | `handle_connection`, the request tasks' lives, h3's request accounting | accept loop (`loop`, `cur`), reader (`reader`, `held`), one `task` and one `capsules` entry per stream (the capsule reader, `answering` while it is inside `send_data`), `routes`, `chan`, `ongoing`, `ended`. A step ends where a task awaits or lets go of the mutex. |
| `BytePipe` | abstract | one direction of a tunnel: the reader gets a prefix of what was sent, and an end of stream only after all of it unless the writer was cut off. |
| `TcpTunnel` | `tcp_connect_tunnel` and its two callers | `stage` and `reply` for the handler, `pump`, `hold`, `wait`, `got`, `eof` per direction; bytes are counted, not named. |
| `ProxySession` | `handle_client` and its three handlers, BIND, `tunnel` | `stage` is where the handler awaits; `arrived` and `consumed` count the parts of the handshake and the payload bytes, so what is read with the head is told from what follows; `replies` is what was written, `upGot` what upstream got. |
| `Upgrade` | `upgrade.rs`, and systemd with the unit of `service.rs` | `phase` is where `check_and_perform_upgrade` and its loop stand; `disk` is what the next start runs, `temps` the files beside it; a version is its number parts and the rank of its pre-release name. |
| `Socks5Udp` | the loop of `handle_socks5_udp_associate` | `client`, `cache` are `client_udp_addr`, `target_cache`; `relay` tells the `select!` from the lookup awaited inside its second arm. A datagram is its source, which may be anybody's, and what the parser makes of it; the socket is a set of them. `asker`, `reply` are history. |
| `Capsule` | `capsule.rs` | operators and recursive functions over sequences of bytes. The width of a byte and the length of an address are constants, so that TLC reaches every length class of a varint with small numbers. |
| `Dispatch` | the arms of `handle_connection`, the four validators, `check_proxy_auth`, `parse_target`, `parse_authority` | functions of a request; each validator is its list of checks with their statuses, in order. |
| `IpTunnel` | one request through `Dispatch` and then `handle_ip_stream`, with `Capsule` | `stage` is the next await before the two loops; `reader`, `received`, `pending` the capsule reader, which takes the client's bytes in pieces of any size and stays in `sending` until the client has taken an answer; `plane`, `held` the data plane between the size check and the send; `room` is `max_datagram_size` of the moment. |
| `Deployment` | `service.rs`, the init system, `run` of lib.rs and the two accept loops | `cmd` is the next step of the subcommand that runs; `unit` is on disk, `loaded` what the init system knows; `main`, `tcp`, `quic` are the process and where its listeners stand; `dying` is a killed process that still has its sockets, `clean` says that the last one exited with success. |

`IpTunnel` EXTENDS `Dispatch` and `Capsule` and composes them: requests go
through the dispatcher, the client's bytes and the answers through the codec.
`MasqueConn` and `IpTunnel` look at the same handler from two sides: the first
at its routes, its neighbours and h3, the second at what passes through it.

The `MC` modules give the constants that
a `.cfg` cannot. Definitions marked "Faulty variant" are plausible bugs; each
property is violated when one of them replaces the definition it imitates.

## 3. Runs

| Run | Question | Bounds |
| --- | --- | --- |
| `pool_cidrs` | are blocks disjoint on every pool; are they inside, and all used, where they can be? | 64 addresses and every CIDR among them: single addresses, pairs, the pools at the top, the whole space; IPv6 prefixes of 60 to 65 and 128. 36 allocations: past the end of every pool, and more than twice the blocks of the IPv4 space, so the cursor goes round. The arithmetic is uniform in the size. |
| `gateway_safety` | refcount, forwarding, rules, host and addresses under every interleaving and every failing command | 4 sessions, 3 blocks: one that comes first, one that leaves in between, one that stays, one that is refused |
| `gateway_restart` | does the refcount implement `ForwardLease`, do tunnels end, is the host restored? | 2 sessions, one death of the process, one change by the operator |
| `conn_safety` | routes and request accounting | 2 streams of every kind, one waiting datagram per channel: each hazard is between a request, another request and the connection's own tasks |
| `conn_live` | does everything end after a loss; does the end of a CONNECT-IP stream end its task? | 2 streams, one `udp` and one `ip`: the two kinds that own routes |
| `pipe` | refinement of `BytePipe` in both directions, no early close, half-close delivery, no lingering | 2 bytes each way, window of 1: full and empty buffers, partial writes and a queue behind them occur |
| `session` | one client of the TCP proxy: does it get one verdict, is the checked address the one used, is the payload intact and in order, does half-close work, does an abandoned session end? | 18 requests over the three protocols, an HTTP head that comes in three pieces, a name with a permitted and a blocked address, 2 payload bytes each way: one that comes with an HTTP head and one after it |
| `upgrade_crash` | is a version that was left ever run again, can a death leave an older or no binary, do temporary files pile up, does an accepted restart take effect? | versions 1, 1.0, 1.1-beta1, 1.1-rc1 and 1.1, two deaths or failed removals: longer and equal numbers, pre-releases and a stable version |
| `udp_relay` | is every payload sent to a checked and unchanging target, do responses follow the last whole request, does the association end with its control connection? | a client of two addresses and three other hosts, any of which sends any datagram; a name with two permitted answers and a blocked one, and a literal; two datagrams waiting. Lookup, migration and a target's datagram overlap in every order. |
| `ip_tunnel` | do dispatcher and validators agree, is each ADDRESS_REQUEST answered once and in order, do packets pass whole, is none too big, does a broken capsule end both tasks? | all forms of a request; three scripts of two or three capsules whose IDs and lengths sit on the boundaries of the varint classes, cut at every byte; bytes of 4 bits, a buffer limit of 16 bytes, which a piece may exceed; a path of 48 or 60, on which the device gets no MTU or one; one packet of the smallest and one of the largest size at a time |
| `service` | does an uninstallation leave nothing; does a wanted service serve again? | the three init systems; twelve sets of arguments: what is served, what is missing or does not parse, auto-upgrade or not, a `%` or `$` among them or not; two transient failures, upgrades or reboots: one may meet the restart after another |
| `service_args` (violation) | "Unquoted expansion of DAEMON_ARGS splits into the forwarded args" (service.rs:419) | a SysV host, the arguments without `%` and `$` |

The cfgs of these systems say `CHECK_DEADLOCK FALSE` because a host without
sessions, a lost connection, a closed tunnel, an ended association and a dead
process do stop.

The client's bytes, the requests and the datagrams in `MCIpTunnel` are written
out by hand and not by the encoders of `Capsule`, so a codec that is wrong in
the same way at both ends does not pass.

Fairness. tokio schedules a task that can go on, and `create`/`Drop` run synchronous
commands that return: those steps are weakly fair. What waits for a peer is not.

- `TunGateway`: a tunnel ends some time (the client leaves or QUIC's idle timeout
  fires).
- `MasqueConn`: a status, the 200, an answer to a capsule, a GOAWAY and the end of a
  stream wait for the client's flow-control credit, and a request waits for its
  headers; these steps are fair only once the connection is lost, when every send and
  read fails. `StreamEndStopsIp` therefore has a hypothesis, `AnswersTaken`: the capsule
  reader is not for ever inside `send_data` (`masque.rs:765`), where it cannot see the
  end of the stream. `LossDrains` has none.
- `IpTunnel`: the same of its answers, and nothing is assumed of the setup before the
  two loops. `EveryRequestAnswered` and `BrokenCapsuleEnds` have the hypothesis
  `AnswersTaken` of that module. `TearDown` is strongly fair against the device and the
  channel: `select!` picks at random among the arms that are ready. The reader's
  fairness is written as its meaning, "infinitely often it cannot go on or it goes on":
  no other action changes the reader's variables meanwhile, and TLC would otherwise
  enumerate every successor of `Recv` to evaluate ENABLED.
- `TcpTunnel`: a peer reads what waits for it; without that a blocked `write_all` never
  ends, in the code as in the model. `ProxySession` assumes the same of both peers, and
  that lookups and the timeouts of a handler come to an end; a silent client may stay
  for ever.
- `Upgrade`: the loop takes the steps it has begun and systemd runs the jobs it
  accepted; nobody needs to publish a release or to start the program by hand.
- `Socks5Udp`: a lookup ends by its own timeout, and the control arm, which may be ready
  while datagrams keep coming, is taken some time (strong fairness), again because
  `select!` picks at random.
- `Deployment`: systemd restarts what failed and the process goes on with its start.
  Nothing is assumed of a client: `ServesAgain` has the hypothesis `ClientsFinish`, that
  the accept loop is not for ever in the handshake or the setup of one
  (`masque.rs:202, 220`), and its conclusion excepts a process that has given up
  (section 5). Nobody needs to run a subcommand.

Sets are never symmetric where liveness is checked.

## 4. Proofs

TLAPS checks, for any value of the constants:

- `TunGatewayProofs`: `IInv` is inductive. The refcount alone is not: one must
  know who holds a reference (`HoldersPlaced`), that a held reference keeps the
  flag on (`ForwardWhileHeld`), which rules a session owns at each stage
  (`RulesSoFar`) and that the cursor is past every address in use
  (`CursorAhead`). From it: `TypeCorrect`, `RefcountCorrect`,
  `AddressesNeverShared`, `ForwardingKept` (if no operator flips the flag) and
  `LeaseImplemented`, the refinement of `ForwardLease`, deaths included.
  `HostInv` is inductive beside it and carries what the host is left with: which
  rules and failures a session can have at each stage (`CleanupPlaced`), how many
  copies of a rule there are against the devices that own one and the removals that
  failed (`RulesCovered`, an equation of cardinalities that a step changes on one
  session only), and who answers for the flag (`FlagAccounted`). From it:
  `RulesAlwaysAccounted`, `HostAlwaysRestored` and `RulesNeverTaken`. The first two
  say `kills = 0`, for a death does leave rules and the flag behind (section 5);
  `RulesNeverTaken` needs no such condition.
  `PoolInv` says that the leases are exactly the first `blocks` blocks; `PoolInside`,
  `PoolDisjoint` and `PoolExact` follow by the arithmetic of aligned blocks of four.
  They are about every CIDR, as `IpPool::new` accepts every one; what each property says
  of a pool depends on the pool, in its own statement. Blocks are disjoint on all of
  them, past the pool's end and through the wrap of the 32-bit sum, until the cursor has
  gone round the address space (`blocks <= AddrSpace \div 4`). No whole block is ever
  refused, and the addresses of whole blocks are inside. That there are no leases after
  the last whole block holds of an `Ordinary` pool: IPv6, or IPv4 of at least a /30 that
  ends below the top of the address space; the others do go on (section 5). The proofs
  stand in this module because `ClientsApart` composes the two components: the cursor
  never passes the pool's end (`CursorInPool`), no two tunnels hold one block
  (`AddressesNeverShared`), blocks have no address in common, so no two tunnels have,
  also after a death has put the cursor back.
- `MasqueConnProofs`: `IInv` adds to the four safety invariants where the accept
  loop stands (`LoopInv`), what a task and its capsule reader may own
  (`TaskInv`) and that only datagram requests own routes (`RouteInv`). One lemma
  per conjunct; `GracefulExit` rests on `OngoingWhileLive`, and
  `RouteWhileServing` on `GracefulExit`. Nothing is assumed but that `NoStream`
  is no stream.
- `TcpTunnelProofs`: `IInv` accounts for each byte (`Counted`), for silence
  before the 200 (`Quiet`) and for the reason each loop ended
  (`EndsExplained`). From it: `NoDirectionCut`, and `TunnelIsPipes`, the
  refinement of `BytePipe` in both directions, for any number of bytes and any
  window.

- `ProxySessionProofs`: `SessionInv` says how much of the client's stream has been
  read at each stage (`ConsumedFits`), that upstream has got what followed
  (`Delivered`), when an end may have been signalled (`Ends`) and that upstream is
  chosen after the check (`UpstreamChosen`). From it: `CheckedIsUsed`,
  `PayloadKept`, `SessionTypes` and `SessionIsPipes`, the refinement of `BytePipe`
  in both directions. `Talk` adds what a client has been told at each stage (`Told`):
  all of it as long as it has not reset the connection, an earlier part after that.
  From it: `AnsweredOnce`, which is `RepliesFit`.
- `UpgradeProofs`: `is_newer_version` is irreflexive and transitive on versions of
  any length (`NewerIrreflexive`, `NewerTransitive`, by the first part that
  differs). `UpgradeInv` says that everything that ran is older than what runs
  (`RanOlder`), which a start preserves because the disk is never older than the
  process. From it: `NeverRunsBack`, `DiskNeverOlder`, `TempsStayBounded`,
  `UpgradeTypes`.
- `Socks5UdpProofs`: the cache holds only checked targets (`CachePermitted`) and
  everything forwarded went to what it holds now (`ForwardedCached`), which needs
  that a host being looked up is not cached (`AskedUncached`): an entry is never
  replaced. From it: `TargetsPermitted`, `TargetsPinned`, `ResponsesFollow`,
  `RelayTypes`, whoever sends which datagram.
- `IpTunnelProofs`: `TunnelInv` relates the MTU to the room it was made for, and
  that to the room of the moment while the path has not shrunk (`SizesFit`). From
  it `PacketsFit`, for any rooms and any overheads with `QuarterId <= Overhead`.
  `AnswerFits` says where a status can have come from; `ValidatorsAgree` reads the
  four lists of checks. From them `DispatchAlwaysAgrees`, for any requests of the
  forms `RequestAssumption` names. It assumes `HasToken`, which `--enable h3` cannot
  do without (`lib.rs:39`, `masque.rs:147`). One clause is what the code does where
  QUIC.md says otherwise: connect-udp on the path of CONNECT-IP is never answered 501.
  `PacketsKept` rests on `GetVarintExtends`: a varint that is whole is read the same
  whatever follows it, so a packet of any length comes out as it went in, with the
  Context ID in any of its encodings. `MessageAssumption` says what a datagram is.
  `AllAnswered` has the inductive invariant `SaysInv /\ StreamInv`: the buffer always
  starts at a capsule the client wrote (`AtCapsule`), and what has been said is what
  is owed for the capsules before it (`Taken`). Its lemmas carry the stream:
  `SplitExtends` (what follows a whole capsule does not change it), `FirstWaiting`
  (a whole capsule at the front of the buffer is the client's next one, and a piece
  of it is not a capsule), `FlattenStep` (a concatenation grows by one part). The
  library's induction takes an operator, so `Induct` does it on sets, by the least
  element of a set of naturals that holds a counterexample. Assumed of the client:
  `ScriptAssumption`, that each entry of a script is one whole capsule, rightly
  classified; and of the server `AnswerAssumption`, that the pool's prefixes fit its
  addresses and that IDs and lengths fit a varint. `OneAddressAssigned` needs neither.
  That the client reads what the server encoded is proved as well, for bytes of any
  width from three bits and addresses of any length. `VarintRoundTrip` takes the fold of
  `get_varint` apart into steps, one for each byte (`ValueSteps`), and finds in each the
  value without its lower digits (`ValueBack`). `DecodeEntries` and `DecodeRanges` are
  recursive functions on sequences of any length: `DecoderExists` builds them from
  decoders of ever longer bytes, since an item takes at least one byte (`EntryShrinks`,
  `RangeShrinks`), and `ItemsRead` adds one item at a time. `AssignRoundTrip` and
  `RoutesRoundTrip` put the parts together.
- `DeploymentProofs`: an uninstallation is followed step by step (`Progress`), and
  `Managed` says that only a service the init system wants runs. From it
  `UninstallLeavesNothing`, for any flags and any number of faults, upgrades and
  reboots.

Only model-checked: liveness, because fairness and ENABLED are outside the prover
(`ForwardLease`, `BytePipe` and their refinements are safety properties and proved).
Every safety invariant that a run checks is the statement of a theorem.

## 5. What the code does otherwise than it says

The violation run `service_args` shows one of these: on a SysV or OpenRC host
the script calls the program with arguments that still have their quotes, and it
exits at once (`service.rs:182, 192, 419`). The others were met while modelling.
The models have the behaviour; no property states its absence, because the code
makes no attempt at it:

- `exit(0)` of the upgrade loop runs no destructor, so live tunnels leave rules
  and the flag behind (`upgrade.rs:260`), where `tun.rs:84` says "so the host is
  left exactly as we found it". After a failed `systemctl` that `exit(0)` also ends
  a service whose unit restarts it on failure only (`service.rs:140`), where
  `upgrade.rs:257` expects a restart;
- a CONNECT-UDP task never reads its request stream and outlives it
  (`masque.rs:534`), where `masque.rs:469` says "for the lifetime of the stream";
- a stream cut before its headers stays in `ongoing_streams`, so `accept` does not
  return `None` after a GOAWAY (`server/connection.rs:213`), where line 121 of that
  file says it will "when [...] all requests have been completed";
- a stream that has opened and sent no headers keeps all later requests waiting
  (`masque.rs:296`), a client in its QUIC handshake all later clients
  (`masque.rs:202`), and one that keeps its connection alive but grants no streams does
  so for as long as it likes (`masque.rs:220`);
- the data plane of CONNECT-IP ends on a device error or a failed send and leaves
  the control stream open (`masque.rs:833-842`), where `masque.rs:718` calls the
  stream "the tunnel's lifetime"; a path that shrinks between the size check and
  the send ends the tunnel, where QUIC.md:241 says an oversized packet never does.
  `NothingTooBig` speaks of a path that has not shrunk;
- the capsule reader waits inside `send_data` for the client's credit
  (`masque.rs:765`): one that asks for an address and takes nothing keeps the reader
  there, and neither a broken capsule nor the end of the stream ends the tunnel before
  the connection is lost, where `masque.rs:718` has the stream's end tear it down;
- a CONNECT-UDP request on the path of CONNECT-IP is answered 400, as a malformed
  target of the udp arm, and not 501 as QUIC.md:462-463 says; the check that would
  (`masque.rs:958-960`, announced at 946-949) is never reached. `DispatchAgrees` states
  what is answered;
- a client's datagram is told from an upstream's by its first bytes and not by its
  source (`server.rs:491-502`). The comment argues for QUIC, whose packets fail the test;
  a whole request of a target or of a stranger makes its sender the client, and
  responses go there until the client sends again. `RepliesFollowRequests` says that and
  no more;
- a pool of a /31 or /32 that ends an aligned block of four yields that block, part of
  which is outside the CIDR, and a pool that ends at the top of the address space is never
  exhausted and goes on at 0.0.0.0 (`tun.rs:387-397`), where QUIC.md:397 has each client's
  block come from the CIDR;
- the MASQUE server's `run` returns `Ok` when its endpoint accepts no more
  (`masque.rs:198, 237`). `try_join!` ends at an error only, so the TCP proxy goes on
  without it, and a process without a TCP proxy exits with success, which
  `Restart=on-failure` (`service.rs:140`) leaves as it is; `ServesAgain` excepts both;
- `systemd_quote` escapes `\` and `"` (`service.rs:152-154`) but not `%` and `$`, which
  systemd expands or refuses in `ExecStart`: a token that holds one does not reach the
  process as it was given. In `Deployment` such arguments may or may not parse, and
  `ServesAgain` does not speak of them;
- the upgrade compares its own `CARGO_PKG_VERSION` (`upgrade.rs:156`) with the name of a
  release's tag. `Upgrade` takes a binary to be the version of its tag, which only the
  release workflow sees to: a binary older than its tag would be fetched again at every
  tick, and `NeverBack` says nothing of it;
- an IPv6 pool longer than /64 is refused when the first client asks
  (`tun.rs:405`), not at start-up (QUIC.md:401-402);
- a block is never given back (`tun.rs:398`): 503 after as many sessions as
  blocks, of which the default /15 has 32,768 and not "~131,072" (QUIC.md:400);
- a device that found forwarding on never gives its reference back, so a later
  `ensure_ip_forward` trusts a flag that may be off (`tun.rs:286, 333`);
- nothing turns IPv6 forwarding on (`tun.rs:183, 318-342`), where QUIC.md:424
  names both flags;
- a TCP client whose first segment is a piece of "CONNECT " is turned away
  (`server.rs:244`), one whose connection attempt or BIND times out gets no
  reply (`server.rs:367, 408`), and the 405 of `server.rs:774` cannot happen;
- a connection attempt that times out is answered by nothing
  (`masque.rs:1129`), where QUIC.md:625 says 502;
- `join!` waits for both directions although its comment says "or either errors"
  (`masque.rs:1200-1201`) and QUIC.md:635-636 says "whichever ends first triggers the
  counterpart's close": after a reset by the client the tunnel stays until the target
  acts;
- QUIC.md:585 answers 501 to `websocket`, the code serves it (`masque.rs:400`);
- `uninstall` keeps the copy at `--bin-path`, the pidfile and the log
  (`service.rs:351-379`), where `config.rs:220` says "clean up all files"; it
  ignores a `stop` that fails, which a script cut off by a failed installation
  always does, and `UninstallCleans` speaks of histories without such a failure; a relative `--bin-path` is resolved for the copy and not for
  `ExecStart` (`service.rs:241, 281-287`).

## 6. Not modelled, and why

- Logging and formatting: no property is about them.
- clap's parsing, rustls, quinn, the resolver and copy_bidirectional: libraries,
  present as steps that succeed, fail or take time.
- The frames, QPACK and client side of the patched h3: vendored protocol code. What
  the server relies on, its count of ongoing requests, is in `MasqueConn`.
- The relay loop of CONNECT-UDP beyond its lifecycle: its size check and Context
  IDs are those of `IpTunnel`, line for line, on packets that no MTU bounds and
  that may therefore be dropped.
- Payloads of `MasqueConn`, `Socks5Udp` and `TcpTunnel`: who gets them and in which
  order is modelled, what is in them is not.
- A download and the unpacking of a release: one step of `Upgrade` that fails or
  gives the binary.
- Timeouts as times: a timer may fire whenever it runs.
- Two subcommands of `service` at once, and what an init system does beyond
  starting, stopping and restarting the process.
