------------------------------- MODULE Mpool -------------------------------
(***************************************************************************)
(* The allocator of the DMA memory pool (mpool.c): a list of the blocks    *)
(* that are allocated, in the order of their addresses, between an empty   *)
(* block at the start of the pool and one at its end.  Each operation      *)
(* holds the pool's lock from start to end.  A list element that cannot be *)
(* allocated leaves the pool as it was; mpool_create without memory (it    *)
(* then keeps the lock) is left out.                                       *)
(***************************************************************************)
EXTENDS Integers, Sequences, FiniteSets, SequencesExt

CONSTANTS
    Line,        \* BCM_CACHE_LINE_BYTES
    Bases,       \* where a pool may start
    PoolSizes,   \* and its size
    Sizes        \* sizes that are asked for

ASSUME PoolAssumption ==
    /\ Line \in Nat \ {0} /\ Bases \subseteq Nat /\ Sizes \subseteq Nat
    /\ \A s \in PoolSizes : s \in Nat /\ s >= Line

VARIABLES
    nodes,       \* the list, head and tail included; empty without a pool
    held         \* ghost: blocks that callers have, with the size they asked for

poolvars == <<nodes, held>>

Node(a, n) == [address |-> a, size |-> n]
End(b) == b.address + b.size

\* The next multiple of the cache line size.
RoundUp(n) == n + ((Line - (n % Line)) % Line)

\* The largest multiple that is not above n.
RoundDown(n) == n - (n % Line)

\* Mutant: the block's own size is not taken off.
GapsFromStart(n) == {k \in 1 .. Len(nodes) - 1 : nodes[k + 1].address - nodes[k].address >= n}

\* Gaps between a block and the next that have room for n bytes.
Gaps(n) == {k \in 1 .. Len(nodes) - 1 : nodes[k + 1].address - End(nodes[k]) >= n}

-----------------------------------------------------------------------------
PoolInit == nodes = <<>> /\ held = {}

\* mpool_create: the pool starts and ends at a cache line.
Create(base, size) ==
    LET b == RoundUp(base) IN
    /\ nodes' = <<Node(b, 0), Node(b + RoundDown(size - (b - base)), 0)>>
    /\ UNCHANGED held

\* Mutant: the size is rounded for the address only.
AllocUnrounded(n) ==
    LET gaps == Gaps(RoundUp(n))
        k == Min(gaps)
    IN
    /\ n > 0 /\ gaps # {}
    /\ nodes' = InsertAt(nodes, k + 1, Node(End(nodes[k]), n))
    /\ held' = held \cup {Node(End(nodes[k]), n)}

\* mpool_alloc: the first gap with room for the size.  The empty sizes are left out:
\* blocks of no bytes share their address with the next block.
Alloc(n) ==
    LET gaps == Gaps(RoundUp(n))
        k == Min(gaps)
    IN
    /\ n > 0 /\ gaps # {}
    /\ nodes' = InsertAt(nodes, k + 1, Node(End(nodes[k]), RoundUp(n)))
    /\ held' = held \cup {Node(End(nodes[k]), n)}

\* mpool_free of a block that a caller has: the first list element at its address,
\* the head aside.
Free(b) ==
    LET at == {k \in 2 .. Len(nodes) : nodes[k].address = b.address} IN
    /\ nodes' = IF at = {} THEN nodes ELSE RemoveAt(nodes, Min(at))
    /\ held' = held \ {b}

\* mpool_destroy: what callers still have is lost with the list.
Destroy ==
    /\ nodes' = <<>>
    /\ held' = {}

PoolNext ==
    \/ nodes = <<>> /\ \E b \in Bases, s \in PoolSizes : Create(b, s)
    \/ \E n \in Sizes : Alloc(n)
    \/ \E b \in held : Free(b)
    \/ nodes # <<>> /\ Destroy

PoolSpec == PoolInit /\ [][PoolNext]_poolvars

-----------------------------------------------------------------------------
\* List elements other than head and tail.
Inner == {nodes[k] : k \in 2 .. Len(nodes) - 1}

PoolTypeOK ==
    /\ nodes \in Seq([address : Int, size : Nat])
    /\ held \subseteq [address : Int, size : Nat]

\* Blocks that callers have start at a cache line, lie between the ends of the pool and
\* share no cache line with each other, for the size asked of mpool_alloc rounded up.
BlocksApart ==
    /\ \A b \in held :
         /\ b.address % Line = 0
         /\ nodes # <<>> /\ nodes[1].address <= b.address
         /\ End(b) <= nodes[Len(nodes)].address
    /\ \A b, c \in held : b # c =>
         \/ b.address + RoundUp(b.size) <= c.address
         \/ c.address + RoundUp(c.size) <= b.address

\* The list has the blocks that callers have and no other: mpool_free gave back what was
\* freed, at its size, and nothing else.
NothingLost == Inner = {Node(b.address, RoundUp(b.size)) : b \in held}
=============================================================================
