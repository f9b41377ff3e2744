------------------------------- MODULE IpPool -------------------------------
(***************************************************************************)
(* The CONNECT-IP address pool of src/src/tun.rs: IpPool::new parses the   *)
(* --ip-pool CIDR, IpPool::allocate hands one block of it to each session  *)
(* and advances a cursor that nothing ever moves back.                     *)
(*                                                                         *)
(* An IPv4 address is a number below AddrSpace (2^32 in the program) and   *)
(* IPv4 arithmetic wraps there, as it does in the release build.  An IPv6  *)
(* pool is abstracted to the index of its first /64: inside a /64 the code *)
(* always takes addresses 1 and 2.                                         *)
(***************************************************************************)
EXTENDS Integers, FiniteSets

CONSTANTS
  AddrSpace,    \* number of IPv4 addresses
  Pools4,       \* IPv4 pools: records [network, size]
  Pools6,       \* IPv6 pools: records [network, prefix]
  MaxBlocks     \* bound of the model: allocations made by one run

\* A CIDR block is aligned to its own size, a power of two, and lies inside the space.
\* SpaceAssumption and PoolAssumption are what a parsed IpNet guarantees.
ASSUME SpaceAssumption == AddrSpace \in Nat /\ AddrSpace > 4 /\ AddrSpace % 4 = 0

ASSUME PoolAssumption ==
  /\ \A p \in Pools4 : /\ p.network \in Nat
                       /\ p.size \in Nat \ {0}
                       /\ p.network + p.size <= AddrSpace
                       /\ p.network % p.size = 0
                       /\ p.size \in {1, 2} \/ (p.size % 4 = 0 /\ p.network % 4 = 0)
  /\ \A p \in Pools6 : p.network \in Nat /\ p.prefix \in 0..128
  /\ MaxBlocks \in Nat

VARIABLES
  pool,       \* IpPool.net: [family, network, size or prefix]
  blocks,     \* IpPool.v4_blocks or v6_blocks, the one of the pool's family
  leases,     \* history: every (block, proxy, client) handed out
  refused     \* history: allocate has answered with an error

poolVars == <<pool, blocks, leases, refused>>

(***************************************************************************)
(* IPv4 blocks.                                                            *)
(***************************************************************************)
AlignedNetwork(p) == p.network - (p.network % 4)        \* network & !3

\* Faulty variant: consecutive blocks are one address apart.
Base4Dense(p, block) == AlignedNetwork(p) + block

\* base_aligned.wrapping_add((block as u32) * 4); the product wraps as well.
Base4(p, block) ==
  (AlignedNetwork(p) + ((block * 4) % AddrSpace)) % AddrSpace

Broadcast(p) == p.network + p.size - 1

\* Faulty variants: only the first address of the block is compared with the end
\* of the pool; the last block is kept back.
Exhausted4Late(p, block) == Base4(p, block) > Broadcast(p) + 1
Exhausted4Early(p, block) == Base4(p, block) + 4 > Broadcast(p)

Exhausted4(p, block) == Base4(p, block) + 3 > Broadcast(p)

(***************************************************************************)
(* IPv6 blocks: an address is <<index of its /64, interface identifier>>.  *)
(***************************************************************************)
Narrow(p) == p.prefix > 64

Exhausted6(p, block) == block >= 2 ^ (64 - p.prefix)

\* The (proxy, client) pair of a block.
Pair(p, block) ==
  IF p.family = "v4"
  THEN [block |-> block, proxy |-> Base4(p, block) + 1, client |-> Base4(p, block) + 2]
  ELSE [block |-> block, proxy |-> <<p.network + block, 1>>,
                         client |-> <<p.network + block, 2>>]

Refuses(p, block) ==
  \/ p.family = "v4" /\ Exhausted4(p, block)
  \/ p.family = "v6" /\ (~Narrow(p) => Exhausted6(p, block))

-----------------------------------------------------------------------------
\* IpPool::new accepts every CIDR that parses; it does not look at the prefix.
Nets ==
  {[family |-> "v4", network |-> p.network, size |-> p.size] : p \in Pools4}
    \cup {[family |-> "v6", network |-> p.network, prefix |-> p.prefix] : p \in Pools6}

PoolInit ==
  /\ pool \in Nets
  /\ blocks = 0
  /\ leases = {}
  /\ refused = FALSE

\* IpPool::allocate, the success path.
PoolAllocate ==
  /\ blocks < MaxBlocks
  /\ ~Refuses(pool, blocks)
  /\ leases' = leases \cup {Pair(pool, blocks)}
  /\ blocks' = blocks + 1
  /\ UNCHANGED <<pool, refused>>

\* IpPool::allocate, the bail! paths: the cursor stays where it is.
PoolRefuse ==
  /\ Refuses(pool, blocks)
  /\ refused' = TRUE
  /\ UNCHANGED <<pool, blocks, leases>>

PoolNext == PoolAllocate \/ PoolRefuse

PoolSpec == PoolInit /\ [][PoolNext]_poolVars

-----------------------------------------------------------------------------
\* The number of sessions a pool can serve before it is used up.
Capacity(p) == IF p.family = "v4" THEN p.size \div 4
               ELSE IF Narrow(p) THEN 0 ELSE 2 ^ (64 - p.prefix)

\* The addresses of the configured CIDR.
Contains(p, a) ==
  IF p.family = "v4" THEN a \in p.network .. Broadcast(p)
                     ELSE a[1] \in p.network .. p.network + Capacity(p) - 1

Addresses(l) == {l.proxy, l.client}

\* Types of the variables.
PoolTypeOK ==
  /\ pool.family \in {"v4", "v6"}
  /\ blocks \in 0 .. MaxBlocks
  /\ \A l \in leases : l.block \in 0 .. MaxBlocks - 1
  /\ refused \in BOOLEAN

\* The pools whose end the test of exhaustion finds: those of IPv6, and those of IPv4
\* of at least a /30 that stop short of the top of the address space.  On the others
\* allocate goes on after the last whole block, if there is one.
Ordinary(p) == p.family = "v4" => (p.size >= 4 /\ p.network + p.size < AddrSpace)

\* Every address handed out belongs to the CIDR the operator configured with --ip-pool
\* (docs/QUIC.md:397).  On a pool that is not ordinary this holds of its whole blocks.
InsidePool ==
  \A l \in leases : (Ordinary(pool) \/ l.block < Capacity(pool)) =>
                     \A a \in Addresses(l) : Contains(pool, a)

\* Two sessions never own a common address, "allocations never collide" (masque.rs:189),
\* and the two ends of one session differ: on every pool, also past its end and through
\* the wrap to 0.0.0.0, until the cursor has gone round the whole address space.
LeasesDisjoint ==
  (pool.family = "v4" => blocks <= AddrSpace \div 4) =>
    /\ \A l, m \in leases : l.block # m.block => Addresses(l) \cap Addresses(m) = {}
    /\ \A l \in leases : l.proxy # l.client

\* allocate never refuses while a whole block is left, whatever the pool, and on an
\* ordinary pool it refuses when none is: every block is used, and used once.
ExactCapacity ==
  /\ Cardinality(leases) = blocks
  /\ refused => blocks >= Capacity(pool)
  /\ Ordinary(pool) => blocks <= Capacity(pool)

\* The inductive invariant of TunGatewayProofs: the leases are those of the blocks below
\* the cursor.
PoolInv ==
  /\ pool \in Nets
  /\ blocks \in Nat
  /\ leases = {Pair(pool, b) : b \in 0 .. blocks - 1}
  /\ IsFiniteSet(leases)
  /\ ExactCapacity
=============================================================================
