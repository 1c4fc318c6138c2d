-------------------------- MODULE DmaMemoryProofs --------------------------
(***************************************************************************)
(* Proofs about the kernel BDE's DMA memory.  First the pool (Mpool): for  *)
(* any line size, any pool and any sequence of allocations and frees, the  *)
(* blocks that callers have stay apart and the list is exactly what they   *)
(* have.  Then the memory it lies in (DmaMemory): whatever blocks the page *)
(* allocator hands out, the search finds the largest run among them, and   *)
(* what the module took from the system is what it has.                    *)
(***************************************************************************)
EXTENDS DmaMemory, SequenceTheorems, FiniteSetTheorems, TLAPS

-----------------------------------------------------------------------------
(* Lists with an element put in or taken out, first positions.             *)

\* Positions of a list of which there are some have a first one.
LEMMA FirstPosition ==
    ASSUME NEW T \in SUBSET Nat, T # {}
    PROVE  Min(T) \in T /\ \A y \in T : Min(T) <= y
<1>1. PICK x \in T : \A y \in T : <<y, x>> \notin OpToRel(<, Nat)
    BY WFMin, NatLessThanWellFounded, Zenon
<1>2. \A y \in T : ~(y < x)
    BY <1>1, Zenon DEF OpToRel
<1>3. \A y \in T : x <= y
    BY <1>2
<1> QED BY <1>3 DEF Min

\* The elements of a list with e inserted at position k.
LEMMA InsertFacts ==
    ASSUME NEW S, NEW s \in Seq(S), NEW k \in 1 .. Len(s) + 1, NEW e \in S
    PROVE  /\ InsertAt(s, k, e) \in Seq(S)
           /\ Len(InsertAt(s, k, e)) = Len(s) + 1
           /\ \A j \in 1 .. Len(s) + 1 :
                 InsertAt(s, k, e)[j] = IF j < k THEN s[j] ELSE IF j = k THEN e ELSE s[j - 1]
<1> DEFINE a == SubSeq(s, 1, k - 1)
           b == SubSeq(s, k, Len(s))
<1>1. a \in Seq(S) /\ Len(a) = k - 1 /\ \A j \in 1 .. k - 1 : a[j] = s[j]
    OBVIOUS
<1>2. b \in Seq(S) /\ Len(b) = Len(s) - k + 1 /\ \A j \in 1 .. Len(b) : b[j] = s[k + j - 1]
    OBVIOUS
<1> HIDE DEF a, b
<1>3. /\ a \o <<e>> \in Seq(S) /\ Len(a \o <<e>>) = k
      /\ \A j \in 1 .. k : (a \o <<e>>)[j] = IF j < k THEN s[j] ELSE e
    BY <1>1, ConcatProperties
<1>4. InsertAt(s, k, e) = (a \o <<e>>) \o b
    BY DEF InsertAt, a, b
<1> QED BY <1>2, <1>3, <1>4, ConcatProperties

\* The elements of a list without the one at position k.
LEMMA RemoveFacts ==
    ASSUME NEW S, NEW s \in Seq(S), NEW k \in 1 .. Len(s)
    PROVE  /\ RemoveAt(s, k) \in Seq(S)
           /\ Len(RemoveAt(s, k)) = Len(s) - 1
           /\ \A j \in 1 .. Len(s) - 1 :
                 RemoveAt(s, k)[j] = IF j < k THEN s[j] ELSE s[j + 1]
<1> DEFINE a == SubSeq(s, 1, k - 1)
           b == SubSeq(s, k + 1, Len(s))
<1>1. a \in Seq(S) /\ Len(a) = k - 1 /\ \A j \in 1 .. k - 1 : a[j] = s[j]
    OBVIOUS
<1>2. b \in Seq(S) /\ Len(b) = Len(s) - k /\ \A j \in 1 .. Len(s) - k : b[j] = s[k + j]
    OBVIOUS
<1> HIDE DEF a, b
<1>3. RemoveAt(s, k) = a \o b
    BY DEF RemoveAt, a, b
<1> QED BY <1>1, <1>2, <1>3, ConcatProperties

-----------------------------------------------------------------------------
(* The list.                                                               *)

Blk == [address : Int, size : Nat]

\* The parts of the inductive invariant: what a block of a caller needs is a list that is
\* in order (no block reaches into the next), aligned, has no empty block inside, and has
\* one element for each block of a caller.
Ordered ==
    /\ nodes = <<>> \/ Len(nodes) >= 2
    /\ \A i, j \in 1 .. Len(nodes) : i < j => End(nodes[i]) <= nodes[j].address
    /\ \A i \in 2 .. Len(nodes) - 1 : nodes[i].size > 0

AlignedList ==
    \A i \in 1 .. Len(nodes) : nodes[i].address % Line = 0 /\ nodes[i].size % Line = 0

OnePerAddress == \A b, c \in held : b.address = c.address => b = c

PoolInv == PoolTypeOK /\ Ordered /\ AlignedList /\ OnePerAddress /\ NothingLost

-----------------------------------------------------------------------------
(* Cache lines.                                                            *)

\* Division by the cache line size, as arithmetic uses it.
LEMMA Multiple ==
    /\ \A q \in Int : (Line * q) % Line = 0
    /\ \A x \in Int : /\ x % Line \in 0 .. Line - 1
                      /\ \E q \in Int : x = Line * q + (x % Line)
<1>1. ASSUME NEW q \in Int PROVE (Line * q) % Line = 0
  BY PoolAssumption, Z3
<1>2. ASSUME NEW x \in Int
      PROVE  /\ x % Line \in 0 .. Line - 1 /\ x \div Line \in Int
             /\ x = Line * (x \div Line) + (x % Line)
  BY PoolAssumption, Z3
<1>3. QED
  BY <1>1, <1>2

\* Sums of multiples of the cache line size are multiples.
LEMMA AlignedSum ==
    ASSUME NEW x \in Int, NEW y \in Int, x % Line = 0, y % Line = 0
    PROVE  (x + y) % Line = 0
<1>0. Line \in Int
  BY PoolAssumption
<1>1. PICK p \in Int : x = Line * p
  <2>1. PICK p \in Int : x = Line * p + 0
    BY Multiple
  <2>2. QED
    BY <1>0, <2>1
<1>2. PICK q \in Int : y = Line * q
  <2>1. PICK q \in Int : y = Line * q + 0
    BY Multiple
  <2>2. QED
    BY <1>0, <2>1
<1>3. x + y = Line * (p + q)
  BY <1>0, <1>1, <1>2, Z3
<1>4. QED
  BY <1>3, Multiple

\* A size rounded up is a multiple, not smaller, and less than a line larger.
LEMMA RoundedUp ==
    ASSUME NEW n \in Int
    PROVE  /\ RoundUp(n) \in Int /\ RoundUp(n) >= n /\ RoundUp(n) < n + Line
           /\ RoundUp(n) % Line = 0
<1>0. Line \in Nat \ {0}
  BY PoolAssumption
<1>1. PICK q \in Int : n = Line * q + (n % Line)
  BY Multiple
<1>2. n % Line \in 0 .. Line - 1
  BY Multiple
<1>3. CASE n % Line = 0
  <2>1. (Line - (n % Line)) % Line = 0
    <3>1. Line = Line * 1
      BY <1>0
    <3>2. QED
      BY <3>1, Multiple, <1>3, <1>0
  <2>2. QED
    BY <1>0, <2>1, <1>3 DEF RoundUp
<1>4. CASE n % Line # 0
  <2>1. (Line - (n % Line)) % Line = Line - (n % Line)
    BY <1>2, <1>4, <1>0
  <2>2. n + (Line - (n % Line)) = Line * (q + 1)
    BY <1>1, <1>2, <1>0, Z3
  <2>3. RoundUp(n) = Line * (q + 1)
    BY <2>1, <2>2 DEF RoundUp
  <2>4. RoundUp(n) % Line = 0
    BY <2>3, Multiple
  <2>5. RoundUp(n) = n + (Line - (n % Line))
    BY <2>1 DEF RoundUp
  <2>6. QED
    BY <2>4, <2>5, <1>0, <1>2, <1>4
<1>5. QED
  BY <1>3, <1>4

\* A size rounded down is a multiple and still a size.
LEMMA RoundedDown ==
    ASSUME NEW n \in Nat
    PROVE  RoundDown(n) \in Nat /\ RoundDown(n) <= n /\ RoundDown(n) % Line = 0
<1>0. Line \in Nat \ {0}
  BY PoolAssumption
<1>1. PICK q \in Int : n = Line * q + (n % Line)
  BY Multiple
<1>2. n % Line \in 0 .. Line - 1
  BY Multiple
<1>3. RoundDown(n) = Line * q
  BY <1>0, <1>1, <1>2, Z3 DEF RoundDown
<1>4. Line * q >= 0
  <2>1. Line * q > -Line
    BY <1>0, <1>1, <1>2, Z3
  <2>2. q > -1
    BY <1>0, <2>1, Z3
  <2>3. QED
    BY <1>0, <2>2, Z3
<1>5. RoundDown(n) % Line = 0
  BY <1>3, Multiple
<1>6. QED
  BY <1>0, <1>2, <1>3, <1>4, <1>5 DEF RoundDown

-----------------------------------------------------------------------------
(* The list.                                                               *)

\* Two blocks inside the list never have one address.
LEMMA OneBlockPerAddress ==
    ASSUME PoolTypeOK, Ordered,
           NEW i \in 2 .. Len(nodes) - 1, NEW j \in 2 .. Len(nodes) - 1,
           nodes[i].address = nodes[j].address
    PROVE  i = j
<1>1. nodes \in Seq(Blk) /\ Len(nodes) \in Nat
  BY LenProperties DEF PoolTypeOK, Blk
<1>2. i \in 1 .. Len(nodes) /\ j \in 1 .. Len(nodes)
  BY <1>1
<1>3. nodes[i] \in Blk /\ nodes[j] \in Blk
  BY <1>1, <1>2, ElementOfSeq
<1>4. nodes[i].size > 0 /\ nodes[j].size > 0
  BY DEF Ordered
<1>5. ~(i < j) /\ ~(j < i)
  <2>1. i < j => End(nodes[i]) <= nodes[j].address
    BY <1>2 DEF Ordered
  <2>2. j < i => End(nodes[j]) <= nodes[i].address
    BY <1>2 DEF Ordered
  <2>3. QED
    BY <1>3, <1>4, <2>1, <2>2 DEF End, Blk
<1>6. QED
  BY <1>5

\* Head and tail of the list stay.
EndsKept ==
    /\ nodes # <<>> /\ nodes' # <<>>
    /\ nodes'[1] = nodes[1] /\ nodes'[Len(nodes')] = nodes[Len(nodes)]

\* mpool_create makes a pool that is in order.
LEMMA CreateStep ==
    ASSUME PoolInv, nodes = <<>>, NEW base \in Nat, NEW size \in Nat, size >= Line,
           Create(base, size)
    PROVE  PoolInv'
<1> DEFINE b == RoundUp(base)
           t == b + RoundDown(size - (b - base))
<1>1. base \in Int /\ size \in Int /\ size >= Line
  OBVIOUS
<1>2. b \in Int /\ b >= base /\ b < base + Line /\ b % Line = 0
  BY <1>1, RoundedUp
<1>3. size - (b - base) \in Nat
  BY <1>1, <1>2, PoolAssumption
<1>4. t \in Int /\ t >= b /\ t % Line = 0
  <2> DEFINE e == RoundDown(size - (b - base))
  <2>1. e \in Nat /\ e % Line = 0
    BY <1>3, RoundedDown
  <2> HIDE DEF e
  <2>2. (b + e) % Line = 0
    BY <1>2, <2>1, AlignedSum
  <2>3. b + e \in Int /\ b + e >= b
    BY <1>2, <2>1
  <2>4. QED
    BY <2>2, <2>3 DEF e
<1>5. nodes' = <<Node(b, 0), Node(t, 0)>> /\ held' = held
  BY DEF Create
<1> HIDE DEF b, t
<1>6. /\ Node(b, 0) \in Blk /\ Node(t, 0) \in Blk
      /\ Node(b, 0).address = b /\ Node(t, 0).address = t
      /\ Node(b, 0).size = 0 /\ Node(t, 0).size = 0
  BY <1>2, <1>4 DEF Node, Blk
<1>7. /\ nodes' \in Seq(Blk) /\ Len(nodes') = 2
      /\ nodes'[1] = Node(b, 0) /\ nodes'[2] = Node(t, 0)
  BY <1>5, <1>6
<1>8. PoolTypeOK'
  BY <1>5, <1>7 DEF PoolInv, PoolTypeOK, Blk
<1>9. Ordered'
  BY <1>2, <1>4, <1>6, <1>7 DEF Ordered, End
<1>10. AlignedList'
  <2>1. 0 % Line = 0
    BY PoolAssumption, Multiple
  <2>2. QED
    BY <1>2, <1>4, <1>6, <1>7, <2>1 DEF AlignedList
<1>11. OnePerAddress' /\ NothingLost'
  <2>1. Inner' = {}
    BY <1>7 DEF Inner
  <2>2. Inner = {}
    BY DEF Inner
  <2>3. held = {}
    BY <2>2 DEF PoolInv, NothingLost
  <2>4. QED
    BY <1>5, <2>1, <2>3 DEF OnePerAddress, NothingLost
<1>12. QED
  BY <1>8, <1>9, <1>10, <1>11 DEF PoolInv

\* mpool_alloc inserts a block into a gap with room for it.
LEMMA AllocStep ==
    ASSUME PoolInv, NEW n \in Sizes, Alloc(n)
    PROVE  PoolInv' /\ EndsKept
<1> DEFINE r == RoundUp(n)
           k == Min(Gaps(r))
           a == End(nodes[k])
           L == Len(nodes)
<1>1. /\ n \in Nat /\ n > 0
      /\ r \in Nat /\ r >= n /\ r > 0 /\ r % Line = 0
  <2>1. n \in Nat /\ n > 0
    BY PoolAssumption DEF Alloc
  <2>2. QED
    BY <2>1, RoundedUp
<1>2. /\ nodes \in Seq(Blk) /\ held \subseteq Blk /\ L \in Nat
      /\ \A i \in 1 .. L : nodes[i] \in Blk
  BY ElementOfSeq, LenProperties DEF PoolInv, PoolTypeOK, Blk
<1>3. k \in 1 .. L - 1 /\ nodes[k + 1].address - a >= r
  <2>1. Gaps(r) \in SUBSET (1 .. L - 1) /\ Gaps(r) # {}
    BY DEF Gaps, Alloc
  <2>2. \A T \in SUBSET (1 .. L - 1) : T \in SUBSET Nat
    BY <1>2
  <2>3. \A T \in SUBSET (1 .. L - 1) : T # {} => Min(T) \in T
    <3> HIDE DEF L
    <3>1. QED
      BY <2>2, FirstPosition
  <2>4. k \in Gaps(r)
    BY <2>1, <2>3
  <2>5. QED
    BY <2>4 DEF Gaps
<1>4. /\ nodes' = InsertAt(nodes, k + 1, Node(a, r))
      /\ held' = held \cup {Node(a, n)}
  BY DEF Alloc
<1> HIDE DEF r, k
\* The order and alignment of the list, for the positions it has.
<1>18. \A i \in 1 .. L : nodes[i].address % Line = 0 /\ nodes[i].size % Line = 0
  <2>1. AlignedList
    BY DEF PoolInv
  <2>2. QED
    BY <2>1, Zenon DEF AlignedList
<1>0. \A i, j \in 1 .. L : i < j => End(nodes[i]) <= nodes[j].address
  BY DEF PoolInv, Ordered
<1>5. a \in Int /\ a % Line = 0 /\ a >= nodes[k].address
      /\ (k >= 2 => a > nodes[k].address)
  <2>1. /\ nodes[k].address \in Int /\ nodes[k].size \in Nat
        /\ nodes[k].address % Line = 0 /\ nodes[k].size % Line = 0
    <3>1. k \in 1 .. L
      BY <1>2, <1>3
    <3>2. nodes[k] \in Blk
      BY <1>2, <3>1
    <3>3. nodes[k].address % Line = 0 /\ nodes[k].size % Line = 0
      BY <1>18, <3>1
    <3>4. QED
      BY <3>2, <3>3 DEF Blk
  <2>2. (nodes[k].address + nodes[k].size) % Line = 0
    <3> DEFINE x == nodes[k].address
               y == nodes[k].size
    <3>1. x \in Int /\ y \in Int /\ x % Line = 0 /\ y % Line = 0
      BY <2>1
    <3> HIDE DEF x, y
    <3>2. (x + y) % Line = 0
      BY <3>1, AlignedSum
    <3>3. QED
      BY <3>2 DEF x, y
  <2>3. k >= 2 => nodes[k].size > 0
    BY <1>2, <1>3 DEF PoolInv, Ordered
  <2>4. QED
    BY <2>1, <2>2, <2>3 DEF End
<1> HIDE DEF a
<1>6. /\ Node(a, r) \in Blk /\ Node(a, r).address = a /\ Node(a, r).size = r
      /\ Node(a, n) \in Blk /\ Node(a, n).address = a /\ Node(a, n).size = n
      /\ End(Node(a, r)) = a + r
  BY <1>1, <1>5 DEF Node, Blk, End
<1>7. /\ nodes' \in Seq(Blk) /\ Len(nodes') = L + 1
      /\ \A j \in 1 .. L + 1 :
            nodes'[j] = IF j < k + 1 THEN nodes[j]
                        ELSE IF j = k + 1 THEN Node(a, r) ELSE nodes[j - 1]
  <2>1. k + 1 \in 1 .. Len(nodes) + 1
    BY <1>2, <1>3
  <2>2. /\ InsertAt(nodes, k + 1, Node(a, r)) \in Seq(Blk)
        /\ Len(InsertAt(nodes, k + 1, Node(a, r))) = Len(nodes) + 1
        /\ \A j \in 1 .. Len(nodes) + 1 :
              InsertAt(nodes, k + 1, Node(a, r))[j] =
                 IF j < k + 1 THEN nodes[j]
                 ELSE IF j = k + 1 THEN Node(a, r) ELSE nodes[j - 1]
    <3> DEFINE q == k + 1
               e == Node(a, r)
    <3>1. nodes \in Seq(Blk) /\ e \in Blk /\ q \in 1 .. Len(nodes) + 1
      BY <1>2, <1>6, <2>1
    <3> HIDE DEF q, e
    <3>2. /\ InsertAt(nodes, q, e) \in Seq(Blk)
          /\ Len(InsertAt(nodes, q, e)) = Len(nodes) + 1
          /\ \A j \in 1 .. Len(nodes) + 1 :
                InsertAt(nodes, q, e)[j] =
                   IF j < q THEN nodes[j] ELSE IF j = q THEN e ELSE nodes[j - 1]
      <4> HIDE DEF L
      <4>1. \A S : \A s \in Seq(S) : \A z \in 1 .. Len(s) + 1 : \A d \in S :
              /\ InsertAt(s, z, d) \in Seq(S)
              /\ Len(InsertAt(s, z, d)) = Len(s) + 1
              /\ \A j \in 1 .. Len(s) + 1 :
                    InsertAt(s, z, d)[j] =
                       IF j < z THEN s[j] ELSE IF j = z THEN d ELSE s[j - 1]
        BY InsertFacts, Zenon
      <4>2. \A z \in 1 .. Len(nodes) + 1 : \A d \in Blk :
              /\ InsertAt(nodes, z, d) \in Seq(Blk)
              /\ Len(InsertAt(nodes, z, d)) = Len(nodes) + 1
              /\ \A j \in 1 .. Len(nodes) + 1 :
                    InsertAt(nodes, z, d)[j] =
                       IF j < z THEN nodes[j] ELSE IF j = z THEN d ELSE nodes[j - 1]
        BY <3>1, <4>1
      <4>3. QED
        BY <3>1, <4>2
    <3>3. QED
      BY <3>2 DEF q, e
  <2>3. QED
    BY <1>4, <2>2
\* Blocks before the gap end where the new one starts, those behind it start at its end.
<1>8. /\ \A i \in 1 .. k : End(nodes[i]) <= a
      /\ \A i \in k + 1 .. L : nodes[i].address >= a + r
  <2>1. \A i \in 1 .. L : /\ nodes[i].address \in Int /\ nodes[i].size \in Nat
                         /\ End(nodes[i]) = nodes[i].address + nodes[i].size
    BY <1>2 DEF Blk, End
  <2>2. ASSUME NEW i \in 1 .. k PROVE End(nodes[i]) <= a
    <3>1. CASE i = k
      BY <3>1, <1>3, <2>1, <1>2 DEF a
    <3>2. CASE i < k
      <4>0. i \in 1 .. L /\ k \in 1 .. L
        BY <1>2, <1>3
      <4>1. End(nodes[i]) <= nodes[k].address
        BY <1>0, <4>0, <3>2
      <4>2. End(nodes[i]) \in Int /\ nodes[k].address \in Int
        BY <2>1, <4>0
      <4>3. QED
        BY <1>5, <4>1, <4>2
    <3>3. QED
      BY <1>3, <3>1, <3>2
  <2>3. ASSUME NEW i \in k + 1 .. L PROVE nodes[i].address >= a + r
    <3>1. nodes[k + 1].address >= a + r
      BY <1>1, <1>2, <1>3, <1>5, <2>1
    <3>2. CASE i = k + 1
      BY <3>1, <3>2
    <3>3. CASE i > k + 1
      <4>0. k + 1 \in 1 .. L /\ i \in 1 .. L
        BY <1>2, <1>3
      <4>1. End(nodes[k + 1]) <= nodes[i].address
        BY <1>0, <4>0, <3>3
      <4>2. /\ nodes[i].address \in Int /\ nodes[k + 1].address \in Int
            /\ End(nodes[k + 1]) \in Int /\ End(nodes[k + 1]) >= nodes[k + 1].address
        BY <2>1, <4>0
      <4>3. QED
        BY <1>1, <1>5, <3>1, <4>1, <4>2
    <3>4. QED
      BY <1>3, <3>2, <3>3
  <2>4. QED
    BY <2>2, <2>3
<1>9. PoolTypeOK'
  BY <1>2, <1>4, <1>6, <1>7 DEF PoolTypeOK, Blk
<1>10. Ordered'
  <2>1. Len(nodes') >= 2
    BY <1>2, <1>3, <1>7
  <2>2. ASSUME NEW i \in 1 .. L + 1, NEW j \in 1 .. L + 1, i < j
        PROVE  End(nodes'[i]) <= nodes'[j].address
    <3>1. CASE j < k + 1
      <4>1. i \in 1 .. L /\ j \in 1 .. L
        BY <1>2, <1>3, <2>2, <3>1
      <4>2. nodes'[i] = nodes[i] /\ nodes'[j] = nodes[j]
        BY <1>3, <1>7, <2>2, <3>1
      <4>3. QED
        BY <1>0, <2>2, <4>1, <4>2
    <3>2. CASE j = k + 1
      <4>1. i \in 1 .. k /\ nodes'[i] = nodes[i] /\ nodes'[j] = Node(a, r)
        BY <1>3, <1>7, <2>2, <3>2
      <4>2. QED
        BY <1>6, <1>8, <4>1
    <3>3. CASE j > k + 1 /\ i = k + 1
      <4>1. /\ j - 1 \in k + 1 .. L
            /\ nodes'[i] = Node(a, r) /\ nodes'[j] = nodes[j - 1]
        BY <1>2, <1>3, <1>7, <3>3
      <4>2. nodes[j - 1].address >= a + r
        BY <1>8, <4>1
      <4>3. j - 1 \in 1 .. L
        BY <1>2, <1>3, <4>1
      <4>4. nodes[j - 1].address \in Int
        BY <1>2, <4>3 DEF Blk
      <4>5. QED
        BY <1>1, <1>5, <1>6, <4>1, <4>2, <4>4
    <3>4. CASE j > k + 1 /\ i < k + 1
      <4>1. i \in 1 .. L /\ j - 1 \in 1 .. L /\ i < j - 1
        BY <1>2, <1>3, <3>4
      <4>2. End(nodes[i]) <= nodes[j - 1].address
        BY <1>0, <4>1
      <4>3. nodes'[i] = nodes[i] /\ nodes'[j] = nodes[j - 1]
        BY <1>3, <1>7, <3>4
      <4>4. QED
        BY <4>2, <4>3
    <3>5. CASE j > k + 1 /\ i > k + 1
      <4>1. i - 1 \in 1 .. L /\ j - 1 \in 1 .. L /\ i - 1 < j - 1
        BY <1>2, <1>3, <2>2, <3>5
      <4>2. End(nodes[i - 1]) <= nodes[j - 1].address
        BY <1>0, <4>1
      <4>3. nodes'[i] = nodes[i - 1] /\ nodes'[j] = nodes[j - 1]
        BY <1>3, <1>7, <3>5
      <4>4. QED
        BY <4>2, <4>3
    <3>6. QED
      BY <1>3, <3>1, <3>2, <3>3, <3>4, <3>5
  <2>3. ASSUME NEW i \in 2 .. L PROVE nodes'[i].size > 0
    <3>1. CASE i = k + 1
      BY <1>1, <1>2, <1>3, <1>6, <1>7, <3>1
    <3>2. CASE i < k + 1
      <4>1. i \in 2 .. L - 1
        BY <1>2, <1>3, <3>2
      <4>2. nodes[i].size > 0
        BY <4>1 DEF PoolInv, Ordered
      <4>3. QED
        BY <1>7, <1>3, <3>2, <4>2
    <3>3. CASE i > k + 1
      <4>1. i - 1 \in 2 .. L - 1
        BY <1>2, <1>3, <3>3
      <4>2. nodes[i - 1].size > 0
        BY <4>1 DEF PoolInv, Ordered
      <4>3. QED
        BY <1>7, <1>3, <3>3, <4>2
    <3>4. QED
      BY <1>3, <3>1, <3>2, <3>3
  <2>4. QED
    BY <1>2, <1>7, <2>1, <2>2, <2>3 DEF Ordered
<1>11. AlignedList'
  <2>1. ASSUME NEW i \in 1 .. L + 1
        PROVE  nodes'[i].address % Line = 0 /\ nodes'[i].size % Line = 0
    <3>1. CASE i = k + 1
      BY <1>1, <1>5, <1>6, <1>7, <3>1
    <3>2. CASE i # k + 1
      <4>1. PICK j \in 1 .. L : nodes'[i] = nodes[j]
        <5>1. CASE i < k + 1
          <6>1. i \in 1 .. L /\ nodes'[i] = nodes[i]
            BY <1>2, <1>3, <1>7, <5>1
          <6>2. QED
            BY <6>1
        <5>2. CASE i > k + 1
          <6>1. i - 1 \in 1 .. L /\ nodes'[i] = nodes[i - 1]
            BY <1>2, <1>3, <1>7, <5>2
          <6>2. QED
            BY <6>1
        <5>3. QED
          BY <1>3, <3>2, <5>1, <5>2
      <4>2. nodes[j].address % Line = 0 /\ nodes[j].size % Line = 0
        BY <1>18, <4>1
      <4>3. QED
        BY <4>1, <4>2
    <3>3. QED
      BY <3>1, <3>2
  <2>2. QED
    BY <1>7, <2>1 DEF AlignedList
\* No caller has a block at the address of the new one.
<1>12. \A b \in held : b.address # a
  <2> SUFFICES ASSUME NEW b \in held, b.address = a PROVE FALSE
    OBVIOUS
  <2>1. PICK i \in 2 .. L - 1 : nodes[i] = Node(b.address, RoundUp(b.size))
    <3>1. Node(b.address, RoundUp(b.size)) \in Inner
      BY DEF PoolInv, NothingLost
    <3>2. QED
      BY <3>1 DEF Inner
  <2>2. nodes[i].address = a /\ nodes[i].size \in Nat /\ nodes[i].size > 0
    <3>1. nodes[i] \in Blk /\ nodes[i].address = b.address
      BY <1>2, <2>1 DEF Node
    <3>2. nodes[i].size > 0
      BY <2>1 DEF PoolInv, Ordered
    <3>3. QED
      BY <3>1, <3>2 DEF Blk
  <2>3. i > k
    <3>1. CASE i < k
      <4>1. i \in 1 .. L /\ k \in 1 .. L
        BY <1>2, <1>3
      <4>2. End(nodes[i]) <= nodes[k].address
        BY <1>0, <3>1, <4>1
      <4>3. nodes[i].address + nodes[i].size <= nodes[k].address
        BY <4>2 DEF End
      <4>4. nodes[k].address \in Int
        BY <1>2, <4>1 DEF Blk
      <4>5. QED
        BY <1>5, <2>2, <4>3, <4>4
    <3>2. CASE i = k
      BY <1>5, <2>2, <3>2
    <3>3. QED
      BY <1>2, <1>3, <3>1, <3>2
  <2>4. QED
    BY <1>1, <1>2, <1>3, <1>5, <1>8, <2>2, <2>3
<1>13. OnePerAddress'
  BY <1>4, <1>6, <1>12 DEF PoolInv, OnePerAddress
<1>14. Inner' = Inner \cup {Node(a, r)}
  <2>1. ASSUME NEW x \in Inner' PROVE x \in Inner \cup {Node(a, r)}
    <3>1. PICK i \in 2 .. L : x = nodes'[i]
      BY <1>2, <1>7 DEF Inner
    <3>2. CASE i < k + 1
      BY <1>2, <1>3, <1>7, <3>1, <3>2 DEF Inner
    <3>3. CASE i = k + 1
      BY <1>2, <1>3, <1>7, <3>1, <3>3
    <3>4. CASE i > k + 1
      <4>1. i - 1 \in 2 .. L - 1 /\ x = nodes[i - 1]
        BY <1>2, <1>3, <1>7, <3>1, <3>4
      <4>2. QED
        BY <4>1 DEF Inner
    <3>5. QED
      BY <1>3, <3>2, <3>3, <3>4
  <2>2. Node(a, r) \in Inner'
    <3>1. k + 1 \in 2 .. L /\ nodes'[k + 1] = Node(a, r)
      BY <1>2, <1>3, <1>7
    <3>2. QED
      BY <1>2, <1>7, <3>1 DEF Inner
  <2>3. ASSUME NEW x \in Inner PROVE x \in Inner'
    <3>1. PICK i \in 2 .. L - 1 : x = nodes[i]
      BY DEF Inner
    <3>2. PICK j \in 2 .. L : x = nodes'[j]
      <4>1. CASE i < k + 1
        BY <1>2, <1>3, <1>7, <3>1, <4>1
      <4>2. CASE i >= k + 1
        <5>1. i + 1 \in 2 .. L /\ nodes'[i + 1] = nodes[i]
          BY <1>2, <1>3, <1>7, <4>2
        <5>2. QED
          BY <3>1, <5>1
      <4>3. QED
        BY <1>3, <4>1, <4>2
    <3>3. QED
      BY <1>2, <1>7, <3>2 DEF Inner
  <2>4. QED
    BY <2>1, <2>2, <2>3
<1>15. NothingLost'
  <2>1. Node(a, r) = Node(Node(a, n).address, RoundUp(Node(a, n).size))
    BY <1>6 DEF r
  <2>2. QED
    BY <1>4, <1>14, <2>1 DEF PoolInv, NothingLost
<1>16. EndsKept
  <2>1. nodes' # <<>> /\ nodes # <<>>
    BY <1>2, <1>3, <1>7
  <2>2. nodes'[1] = nodes[1]
    BY <1>2, <1>3, <1>7
  <2>3. nodes'[L + 1] = nodes[L]
    BY <1>2, <1>3, <1>7
  <2>4. QED
    BY <1>7, <2>1, <2>2, <2>3 DEF EndsKept
<1>17. QED
  BY <1>9, <1>10, <1>11, <1>13, <1>15, <1>16 DEF PoolInv

\* mpool_free finds the block in the list and takes exactly this element off.
LEMMA FreeStep ==
    ASSUME PoolInv, NEW b \in held, Free(b)
    PROVE  PoolInv' /\ EndsKept
<1> DEFINE L == Len(nodes)
           at == {j \in 2 .. Len(nodes) : nodes[j].address = b.address}
           k == Min(at)
           x == Node(b.address, RoundUp(b.size))
<1>1. /\ nodes \in Seq(Blk) /\ held \subseteq Blk /\ L \in Nat
      /\ \A i \in 1 .. L : nodes[i] \in Blk
  BY ElementOfSeq, LenProperties DEF PoolInv, PoolTypeOK, Blk
<1>2. /\ nodes' = IF at = {} THEN nodes ELSE RemoveAt(nodes, k)
      /\ held' = held \ {b}
  BY DEF Free
<1>3. PICK m \in 2 .. L - 1 : nodes[m] = x
  <2>1. x \in Inner
    BY DEF PoolInv, NothingLost
  <2>2. QED
    BY <2>1 DEF Inner
<1>4. m \in at
  BY <1>1, <1>3 DEF Node
<1>5. k \in at /\ k <= m
  <2>1. at \in SUBSET (2 .. L)
    OBVIOUS
  <2>2. \A T \in SUBSET (2 .. L) : T \in SUBSET Nat
    BY <1>1
  <2>3. \A T \in SUBSET (2 .. L) : T # {} => Min(T) \in T /\ \A y \in T : Min(T) <= y
    <3> HIDE DEF L
    <3>1. QED
      BY <2>2, FirstPosition
  <2>4. QED
    BY <2>1, <2>3, <1>4
<1>6. k \in 2 .. L - 1 /\ nodes[k].address = nodes[m].address
  BY <1>1, <1>3, <1>4, <1>5
<1>7. nodes[k] = x
  <2> HIDE DEF k
  <2>1. k \in 2 .. Len(nodes) - 1 /\ m \in 2 .. Len(nodes) - 1
    BY <1>3, <1>6
  <2>2. k = m
    BY <1>6, <2>1, OneBlockPerAddress DEF PoolInv
  <2>3. QED
    BY <1>3, <2>2
<1>8. nodes' = RemoveAt(nodes, k)
  BY <1>2, <1>4
<1> HIDE DEF at, k, x
<1>9. /\ nodes' \in Seq(Blk) /\ Len(nodes') = L - 1
      /\ \A j \in 1 .. L - 1 : nodes'[j] = IF j < k THEN nodes[j] ELSE nodes[j + 1]
  <2>1. k \in 1 .. Len(nodes)
    BY <1>1, <1>6
  <2>2. QED
    BY <1>1, <1>8, <2>1, RemoveFacts
\* The element that a position of the new list has, as one of the old list.
<1> DEFINE old(j) == IF j < k THEN j ELSE j + 1
<1>10. \A j \in 1 .. L - 1 :
          /\ old(j) \in 1 .. L /\ old(j) # k /\ nodes'[j] = nodes[old(j)]
          /\ j \in 2 .. L - 2 => old(j) \in 2 .. L - 1
          /\ \A i \in 1 .. L - 1 : i < j => old(i) < old(j)
  BY <1>1, <1>6, <1>9
<1>11. \A i \in 1 .. L : i # k =>
          \E j \in 1 .. L - 1 : old(j) = i /\ (i \in 2 .. L - 1 => j \in 2 .. L - 2)
  <2> SUFFICES ASSUME NEW i \in 1 .. L, i # k
               PROVE  \E j \in 1 .. L - 1 : old(j) = i /\ (i \in 2 .. L - 1 => j \in 2 .. L - 2)
    OBVIOUS
  <2>1. CASE i < k
    <3>1. i \in 1 .. L - 1 /\ old(i) = i /\ (i \in 2 .. L - 1 => i \in 2 .. L - 2)
      BY <1>1, <1>6, <2>1
    <3>2. QED
      BY <3>1
  <2>2. CASE i > k
    <3>1. /\ i - 1 \in 1 .. L - 1 /\ old(i - 1) = i
          /\ (i \in 2 .. L - 1 => i - 1 \in 2 .. L - 2)
      BY <1>1, <1>6, <2>2
    <3>2. QED
      BY <3>1
  <2>3. QED
    BY <1>6, <2>1, <2>2
<1> HIDE DEF old
<1>12. PoolTypeOK'
  BY <1>1, <1>2, <1>9 DEF PoolTypeOK, Blk
<1>13. Ordered'
  <2>1. Len(nodes') >= 2
    BY <1>1, <1>6, <1>9
  <2>2. ASSUME NEW i \in 1 .. L - 1, NEW j \in 1 .. L - 1, i < j
        PROVE  End(nodes'[i]) <= nodes'[j].address
    <3>1. old(i) \in 1 .. L /\ old(j) \in 1 .. L /\ old(i) < old(j)
      BY <1>10, <2>2
    <3>2. End(nodes[old(i)]) <= nodes[old(j)].address
      BY <3>1 DEF PoolInv, Ordered
    <3>3. QED
      BY <1>10, <3>2
  <2>3. ASSUME NEW i \in 2 .. L - 2 PROVE nodes'[i].size > 0
    <3>1. i \in 1 .. L - 1
      BY <1>1
    <3>2. old(i) \in 2 .. L - 1 /\ nodes'[i] = nodes[old(i)]
      BY <1>10, <3>1
    <3>3. nodes[old(i)].size > 0
      BY <3>2 DEF PoolInv, Ordered
    <3>4. QED
      BY <3>2, <3>3
  <2>4. QED
    BY <1>1, <1>9, <2>1, <2>2, <2>3 DEF Ordered
<1>14. AlignedList'
  <2>1. ASSUME NEW i \in 1 .. L - 1
        PROVE  nodes'[i].address % Line = 0 /\ nodes'[i].size % Line = 0
    <3>1. old(i) \in 1 .. L /\ nodes'[i] = nodes[old(i)]
      BY <1>10
    <3>2. QED
      BY <3>1 DEF PoolInv, AlignedList
  <2>2. QED
    BY <1>9, <2>1 DEF AlignedList
<1>15. OnePerAddress'
  BY <1>2 DEF PoolInv, OnePerAddress
<1>16. Inner' = Inner \ {x}
  <2>1. ASSUME NEW y \in Inner' PROVE y \in Inner /\ y # x
    <3>1. PICK j \in 2 .. L - 2 : y = nodes'[j]
      BY <1>1, <1>9 DEF Inner
    <3>2. j \in 1 .. L - 1
      BY <1>1
    <3>3. old(j) \in 2 .. L - 1 /\ old(j) # k /\ y = nodes[old(j)]
      BY <1>10, <3>1, <3>2
    <3>4. nodes[old(j)].address # nodes[k].address
      <4>1. old(j) \in 2 .. Len(nodes) - 1 /\ k \in 2 .. Len(nodes) - 1
        BY <1>6, <3>3
      <4>2. QED
        BY <3>3, <4>1, OneBlockPerAddress DEF PoolInv
    <3>5. QED
      BY <1>7, <3>3, <3>4 DEF Inner
  <2>2. ASSUME NEW y \in Inner, y # x PROVE y \in Inner'
    <3>1. PICK i \in 2 .. L - 1 : y = nodes[i]
      BY DEF Inner
    <3>2. i # k /\ i \in 1 .. L
      BY <1>1, <1>7, <2>2, <3>1
    <3>3. PICK j \in 1 .. L - 1 : old(j) = i /\ j \in 2 .. L - 2
      BY <1>11, <3>2
    <3>4. y = nodes'[j]
      BY <1>10, <3>1, <3>3
    <3>5. j \in 2 .. Len(nodes') - 1
      BY <1>1, <1>9, <3>3
    <3>6. QED
      BY <3>4, <3>5 DEF Inner
  <2>3. QED
    BY <2>1, <2>2
<1>17. NothingLost'
  <2> DEFINE elem(c) == Node(c.address, RoundUp(c.size))
  <2>1. Inner = {elem(c) : c \in held}
    BY DEF PoolInv, NothingLost
  <2>2. \A c \in held : c # b => elem(c) # x
    BY DEF PoolInv, OnePerAddress, Node, x
  <2>3. x = elem(b)
    BY DEF x
  <2> HIDE DEF elem
  <2>4. Inner' = {elem(c) : c \in held'}
    BY <1>2, <1>16, <2>1, <2>2, <2>3
  <2>5. QED
    BY <2>4 DEF NothingLost, elem
<1>18. EndsKept
  <2>1. nodes' # <<>> /\ nodes # <<>>
    BY <1>1, <1>6, <1>9
  <2>2. nodes'[1] = nodes[1]
    BY <1>1, <1>6, <1>9
  <2>3. nodes'[L - 1] = nodes[L]
    BY <1>1, <1>6, <1>9
  <2>4. QED
    BY <1>9, <2>1, <2>2, <2>3 DEF EndsKept
<1>19. QED
  BY <1>12, <1>13, <1>14, <1>15, <1>17, <1>18 DEF PoolInv

\* The empty pool.
LEMMA EmptyPool ==
    nodes = <<>> /\ held = {} => PoolInv
<1> SUFFICES ASSUME nodes = <<>>, held = {} PROVE PoolInv
  OBVIOUS
<1>1. Len(nodes) = 0 /\ PoolTypeOK
  BY DEF PoolTypeOK
<1>2. Ordered /\ AlignedList
  BY <1>1 DEF Ordered, AlignedList
<1>3. Inner = {}
  BY <1>1 DEF Inner
<1>4. QED
  BY <1>1, <1>2, <1>3 DEF PoolInv, OnePerAddress, NothingLost

-----------------------------------------------------------------------------
(* The invariant.                                                          *)

\* mpool_destroy leaves an empty pool.
LEMMA DestroyStep ==
    ASSUME Destroy
    PROVE  PoolInv'
<1>1. nodes' = <<>> /\ held' = {}
  BY DEF Destroy
<1>2. Len(nodes') = 0 /\ PoolTypeOK'
  BY <1>1 DEF PoolTypeOK
<1>3. Inner' = {}
  BY <1>2 DEF Inner
<1>4. QED
  BY <1>1, <1>2, <1>3 DEF PoolInv, Ordered, AlignedList, OnePerAddress, NothingLost

\* The invariant is about the list and the blocks of callers alone.
LEMMA PoolStutter ==
    ASSUME PoolInv, UNCHANGED poolvars
    PROVE  PoolInv'
BY DEF poolvars, PoolInv, PoolTypeOK, Ordered, AlignedList, OnePerAddress, NothingLost, Inner

\* PoolInv is inductive.
LEMMA PoolInvariant == PoolSpec => []PoolInv
<1>1. PoolInit => PoolInv
  BY EmptyPool DEF PoolInit
<1>2. PoolInv /\ [PoolNext]_poolvars => PoolInv'
  <2> SUFFICES ASSUME PoolInv, [PoolNext]_poolvars PROVE PoolInv'
    OBVIOUS
  <2>1. ASSUME nodes = <<>>, NEW c \in Bases, NEW s \in PoolSizes, Create(c, s)
        PROVE  PoolInv'
    <3>1. c \in Nat /\ s \in Nat /\ s >= Line
      BY PoolAssumption
    <3>2. QED
      BY <2>1, <3>1, CreateStep
  <2>2. ASSUME NEW n \in Sizes, Alloc(n) PROVE PoolInv'
    BY <2>2, AllocStep
  <2>3. ASSUME NEW b \in held, Free(b) PROVE PoolInv'
    BY <2>3, FreeStep
  <2>4. ASSUME Destroy PROVE PoolInv'
    BY <2>4, DestroyStep
  <2>5. ASSUME UNCHANGED poolvars PROVE PoolInv'
    BY <2>5, PoolStutter
  <2>6. QED
    BY <2>1, <2>2, <2>3, <2>4, <2>5 DEF PoolNext
<1>3. QED
  BY <1>1, <1>2, PTL DEF PoolSpec

\* Every element of the list that a caller has a block for.
LEMMA BlocksOfList ==
    ASSUME PoolInv, NEW b \in held
    PROVE  /\ b \in Blk /\ RoundUp(b.size) \in Int /\ RoundUp(b.size) >= b.size
           /\ \E i \in 2 .. Len(nodes) - 1 :
                 /\ nodes[i].address = b.address /\ nodes[i].size = RoundUp(b.size)
                 /\ End(nodes[i]) = b.address + RoundUp(b.size)
<1>1. b \in Blk /\ b.size \in Int
  BY DEF PoolInv, PoolTypeOK, Blk
<1>2. RoundUp(b.size) \in Int /\ RoundUp(b.size) >= b.size
  BY <1>1, RoundedUp
<1>3. Node(b.address, RoundUp(b.size)) \in Inner
  BY DEF PoolInv, NothingLost
<1>4. PICK i \in 2 .. Len(nodes) - 1 : nodes[i] = Node(b.address, RoundUp(b.size))
  BY <1>3 DEF Inner
<1>5. /\ nodes[i].address = b.address /\ nodes[i].size = RoundUp(b.size)
      /\ End(nodes[i]) = b.address + RoundUp(b.size)
  BY <1>4 DEF Node, End
<1>6. QED
  BY <1>1, <1>2, <1>5

\* A list in order and aligned, with one element for each block, keeps blocks apart.
LEMMA ApartInPool == PoolInv => BlocksApart
<1> SUFFICES ASSUME PoolInv PROVE BlocksApart
  OBVIOUS
<1> DEFINE L == Len(nodes)
<1>0. nodes \in Seq(Blk) /\ L \in Nat
  BY LenProperties DEF PoolInv, PoolTypeOK, Blk
<1>1. \A i \in 1 .. L : nodes[i] \in Blk /\ End(nodes[i]) = nodes[i].address + nodes[i].size
  BY <1>0, ElementOfSeq DEF End
<1>2. \A i, j \in 1 .. L : i < j => End(nodes[i]) <= nodes[j].address
  BY DEF PoolInv, Ordered
<1>3. ASSUME NEW b \in held
      PROVE  /\ b.address % Line = 0
             /\ nodes # <<>> /\ nodes[1].address <= b.address
             /\ End(b) <= nodes[Len(nodes)].address
  <2>1. PICK i \in 2 .. L - 1 :
           /\ nodes[i].address = b.address /\ nodes[i].size = RoundUp(b.size)
           /\ End(nodes[i]) = b.address + RoundUp(b.size)
    BY BlocksOfList
  <2>2. i \in 1 .. L /\ 1 \in 1 .. L /\ L \in 1 .. L /\ 1 < i /\ i < L
    BY <1>0
  <2>3. nodes[i].address % Line = 0
    BY <2>2 DEF PoolInv, AlignedList
  <2>4. nodes # <<>>
    BY <2>2
  <2>5. End(nodes[1]) <= nodes[i].address /\ End(nodes[i]) <= nodes[L].address
    BY <1>2, <2>2
  <2>6. nodes[1] \in Blk /\ nodes[L] \in Blk /\ End(nodes[1]) = nodes[1].address + nodes[1].size
    BY <1>1, <2>2
  <2>7. b \in Blk /\ RoundUp(b.size) \in Int /\ RoundUp(b.size) >= b.size
    BY BlocksOfList
  <2>8. nodes[1].address <= b.address
    BY <2>1, <2>5, <2>6, <2>7 DEF Blk
  <2>9. End(b) <= nodes[L].address
    BY <2>1, <2>5, <2>6, <2>7 DEF Blk, End
  <2>10. QED
    BY <2>1, <2>3, <2>4, <2>8, <2>9
<1>4. ASSUME NEW b \in held, NEW c \in held, b # c
      PROVE  \/ b.address + RoundUp(b.size) <= c.address
             \/ c.address + RoundUp(c.size) <= b.address
  <2>1. PICK i \in 2 .. L - 1 :
           /\ nodes[i].address = b.address /\ nodes[i].size = RoundUp(b.size)
           /\ End(nodes[i]) = b.address + RoundUp(b.size)
    BY BlocksOfList
  <2>2. PICK j \in 2 .. L - 1 :
           /\ nodes[j].address = c.address /\ nodes[j].size = RoundUp(c.size)
           /\ End(nodes[j]) = c.address + RoundUp(c.size)
    BY BlocksOfList
  <2>3. i # j
    BY <1>4, <2>1, <2>2 DEF PoolInv, OnePerAddress
  <2>4. i \in 1 .. L /\ j \in 1 .. L /\ (i < j \/ j < i)
    BY <1>0, <2>3
  <2>5. QED
    BY <1>2, <2>1, <2>2, <2>4
<1>5. QED
  BY <1>3, <1>4 DEF BlocksApart

\* Blocks that callers of mpool_alloc have never overlap, whatever is allocated and freed
\* in whatever order: they are aligned, inside the pool, and share no cache line.
THEOREM BlocksApartCorrect == PoolSpec => []BlocksApart
<1>1. PoolInv => BlocksApart
  BY ApartInPool
<1>2. QED
  BY <1>1, PoolInvariant, PTL

\* The pool's list is what callers have: mpool_free gives back what was freed, at its
\* size, and nothing else.
THEOREM NothingLostCorrect == PoolSpec => []NothingLost
<1>1. PoolInv => NothingLost
  BY DEF PoolInv
<1>2. QED
  BY <1>1, PoolInvariant, PTL

-----------------------------------------------------------------------------
(* The memory of the pool: the inductive invariant.                        *)

Searching == pc \in {"find", "scan", "grow", "more", "release"}
Tagged == pc \in {"scan", "grow", "more", "release"}

\* Blocks have their tags, the indices of the search stay on them, and no block was
\* handed out twice.
SearchTypeOK ==
    /\ pc \in {"idle", "map", "pool"} \/ Searching
    /\ pages \subseteq Blocks
    /\ blk_ptr \in Seq(Blocks \cup {0})
    /\ Range(blk_ptr) \ {0} \subseteq pages
    /\ \A x, y \in 1 .. Len(blk_ptr) : blk_ptr[x] = blk_ptr[y] => x = y \/ blk_ptr[x] = 0
    /\ Tagged => tag \in Seq(0 .. 3) /\ Len(tag) = Len(blk_ptr)
    /\ seg_begin \in Blocks \cup {0} /\ seg_size \in 0 .. ReqBlocks
    /\ Searching => blk_ptr # <<>>
    /\ ~Searching => blk_ptr = <<>>
    /\ pc = "scan" => blk \in 1 .. Len(blk_ptr) + 1
    /\ pc = "grow" => /\ blk \in 1 .. Len(blk_ptr) /\ look \in blk + 1 .. Len(blk_ptr) + 1
                      /\ found \in BOOLEAN

WithTag(t) == {blk_ptr[x] : x \in {y \in 1 .. Len(blk_ptr) : tag[y] = t}}

\* The segment that is being put together: its blocks, and those that were looked at in
\* this round and found to be away from it.
Segment ==
    pc = "grow" =>
        /\ begin \in Nat /\ end \in Nat /\ begin < end /\ end - begin <= ReqBlocks
        /\ WithTag(Current) = Run(begin, end - begin)
        /\ tag[blk] = Current
        /\ ~found => \A y \in blk + 1 .. look - 1 : tag[y] = Untagged => ~Adjacent(blk_ptr[y])

Settled(x) == tag[x] \in {Discarded, Largest}

\* Blocks up to blk are in a segment, and none is in an unfinished one between two.
Passed ==
    /\ pc \in {"scan", "grow"} => \A x \in 1 .. blk - 1 : tag[x] # Untagged
    /\ pc = "scan" => \A x \in 1 .. Len(blk_ptr) : tag[x] # Current

\* Finished segments too small for the request have no neighbours, ...
Closed ==
    pc \in {"scan", "grow"} /\ seg_size < ReqBlocks =>
        \A x, y \in 1 .. Len(blk_ptr) :
            Settled(x) /\ (blk_ptr[y] = blk_ptr[x] + 1 \/ blk_ptr[x] = blk_ptr[y] + 1) => Settled(y)

\* ... so a run of blocks through one of them is not larger than the largest so far.
Covered ==
    pc \in {"scan", "grow"} /\ seg_size < ReqBlocks =>
        \A x \in 1 .. Len(blk_ptr) : Settled(x) =>
            \A n \in 1 .. ReqBlocks, a \in Blocks :
                Run(a, n) \subseteq Range(blk_ptr) /\ blk_ptr[x] \in Run(a, n) => n <= seg_size

\* The search goes on until the segment is whole.
Whole ==
    /\ pc \in {"find", "grow", "more"} => seg_size < ReqBlocks
    /\ pc \in {"scan", "release"} /\ seg_size >= ReqBlocks =>
          seg_size = ReqBlocks /\ WithTag(Largest) = Run(seg_begin, seg_size)
    /\ pc = "more" =>
          \A n \in 1 .. ReqBlocks, a \in Blocks : Run(a, n) \subseteq Range(blk_ptr) => n <= seg_size

SearchInv == SearchTypeOK /\ Segment /\ Passed /\ Closed /\ Covered /\ Whole

\* With one block at least, address 0 is never taken for memory.
NotZero ==
    FirstBlockGiven =>
        /\ Searching => blk_ptr[1] # 0
        /\ pc \in {"scan", "grow"} /\ blk > 1 => seg_size >= 1
        /\ Tagged => 0 \notin WithTag(Largest)

\* There is a pool only between allocations, at both ends of the memory.
PoolPlaced ==
    /\ pc # "idle" => nodes = <<>>
    /\ nodes # <<>> => /\ vbase # 0 /\ nodes[1].address = vbase * BlockBytes
                       /\ nodes[Len(nodes)].address = (vbase + ReqBlocks) * BlockBytes
    /\ vbase \in Nat
    /\ Searching => vbase = 0
    /\ pc \in {"map", "pool"} => vbase # 0
    /\ PoolInv

\* What the module has at any time: the blocks of the search, or those of its memory, and
\* the mappings of that.
Balanced ==
    /\ Searching => pages = Range(blk_ptr) \ {0} /\ reserved = {} /\ dma_seg = {}
    /\ ~Searching => /\ pages = (IF vbase = 0 THEN {} ELSE Run(vbase, ReqBlocks))
                     /\ reserved = pages /\ dma_seg = pages
    /\ maps = (IF pc \in {"idle", "pool"} /\ vbase # 0
                 THEN {<<d, pbase>> : d \in 1 .. NumDevices} ELSE {})

-----------------------------------------------------------------------------
(* The search: what each of its steps does to the invariant.               *)

\* What the page allocator hands out are new blocks, behind those there are.
LEMMA NewBlocks ==
    ASSUME SearchTypeOK, NEW n \in Nat, AllocBlocks(n)
    PROVE  /\ pages' \subseteq Blocks
           /\ blk_ptr' \in Seq(Blocks \cup {0}) /\ Len(blk_ptr') = Len(blk_ptr) + n
           /\ \A x \in 1 .. Len(blk_ptr) : blk_ptr'[x] = blk_ptr[x]
           /\ Range(blk_ptr') \ {0} \subseteq pages'
           /\ Range(blk_ptr) \ {0} = pages => Range(blk_ptr') \ {0} = pages'
           /\ \A x, y \in 1 .. Len(blk_ptr') :
                 blk_ptr'[x] = blk_ptr'[y] => x = y \/ blk_ptr'[x] = 0
           /\ FirstBlockGiven /\ blk_ptr = <<>> /\ n > 0 => blk_ptr'[1] # 0
<1> DEFINE S == Blocks \cup {0}
           L == Len(blk_ptr)
<1>1. blk_ptr \in Seq(S) /\ L \in Nat /\ DOMAIN blk_ptr = 1 .. L /\ \A x \in 1 .. L : blk_ptr[x] \in S
  BY LenProperties, ElementOfSeq DEF SearchTypeOK
<1>0. PICK g \in 0 .. n : \E given \in [1 .. g -> Blocks \ pages] :
        /\ IsInjective(given)
        /\ FirstBlockGiven /\ blk_ptr = <<>> => Len(given) > 0
        /\ blk_ptr' = blk_ptr \o given \o [x \in 1 .. n - Len(given) |-> 0]
        /\ pages' = pages \cup Range(given)
  BY DEF AllocBlocks
<1>2. PICK given \in [1 .. g -> Blocks \ pages] :
        /\ IsInjective(given)
        /\ FirstBlockGiven /\ blk_ptr = <<>> => Len(given) > 0
        /\ blk_ptr' = blk_ptr \o given \o [x \in 1 .. n - Len(given) |-> 0]
        /\ pages' = pages \cup Range(given)
  BY <1>0
<1>3. g \in Nat /\ n - g \in Nat /\ DOMAIN given = 1 .. g
  BY <1>2
<1>4. given \in Seq(S) /\ Len(given) = g
  BY <1>2, <1>3
<1> DEFINE rest == [x \in 1 .. n - Len(given) |-> 0]
<1>5. rest \in Seq(S) /\ Len(rest) = n - g /\ \A x \in 1 .. n - g : rest[x] = 0
  BY <1>3, <1>4
<1>6. blk_ptr' = (blk_ptr \o given) \o rest
  BY <1>2
<1> HIDE DEF rest
<1>7. /\ blk_ptr \o given \in Seq(S) /\ Len(blk_ptr \o given) = L + g
      /\ \A x \in 1 .. L + g : (blk_ptr \o given)[x] = IF x <= L THEN blk_ptr[x] ELSE given[x - L]
  BY <1>1, <1>3, <1>4, ConcatProperties
<1>8. /\ blk_ptr' \in Seq(S) /\ Len(blk_ptr') = L + n
      /\ \A x \in 1 .. L + n : blk_ptr'[x] = IF x <= L + g THEN (blk_ptr \o given)[x] ELSE rest[x - (L + g)]
  <2> DEFINE q == blk_ptr \o given
  <2>1. q \in Seq(S) /\ Len(q) = L + g /\ blk_ptr' = q \o rest
    BY <1>6, <1>7
  <2> HIDE DEF q
  <2>2. /\ q \o rest \in Seq(S) /\ Len(q \o rest) = Len(q) + Len(rest)
        /\ \A x \in 1 .. Len(q) + Len(rest) :
              (q \o rest)[x] = IF x <= Len(q) THEN q[x] ELSE rest[x - Len(q)]
    BY <1>5, <2>1, ConcatProperties
  <2>3. Len(q) + Len(rest) = L + n
    BY <1>1, <1>3, <1>5, <2>1
  <2>4. QED
    BY <2>1, <2>2, <2>3 DEF q
<1>9. \A x \in 1 .. L : blk_ptr'[x] = blk_ptr[x]
  BY <1>1, <1>3, <1>7, <1>8
<1>10. \A x \in L + 1 .. L + g : x - L \in 1 .. g /\ blk_ptr'[x] = given[x - L]
  BY <1>1, <1>3, <1>7, <1>8
<1>11. \A x \in L + g + 1 .. L + n : blk_ptr'[x] = 0
  <2> SUFFICES ASSUME NEW x \in L + g + 1 .. L + n PROVE blk_ptr'[x] = 0
    OBVIOUS
  <2>1. x \in 1 .. L + n /\ ~(x <= L + g) /\ x - (L + g) \in 1 .. n - g
    BY <1>1, <1>3
  <2>2. QED
    BY <1>5, <1>8, <2>1
<1>12. DOMAIN blk_ptr' = 1 .. L + n
  BY <1>8, LenProperties
<1>13. \A x \in 1 .. L + n : x \in 1 .. L \/ x \in L + 1 .. L + g \/ x \in L + g + 1 .. L + n
  BY <1>1, <1>3
<1>14. Range(blk_ptr) \ {0} \subseteq pages
  BY DEF SearchTypeOK
<1>15. \A x \in 1 .. L : blk_ptr[x] = 0 \/ blk_ptr[x] \in pages
  BY <1>1, <1>14 DEF Range
<1>16. \A z \in 1 .. g : given[z] \in Blocks /\ given[z] \notin pages /\ given[z] \in pages' /\ given[z] # 0
  BY <1>2, <1>3, MemoryAssumption DEF Range
<1>17. Range(blk_ptr') \ {0} \subseteq pages'
  <2> SUFFICES ASSUME NEW x \in 1 .. L + n, blk_ptr'[x] # 0 PROVE blk_ptr'[x] \in pages'
    BY <1>12 DEF Range
  <2>1. x \in 1 .. L => blk_ptr'[x] \in pages'
    BY <1>2, <1>9, <1>15
  <2>2. x \in L + 1 .. L + g => blk_ptr'[x] \in pages'
    BY <1>10, <1>16
  <2>3. QED
    BY <1>11, <1>13, <2>1, <2>2
<1>18. ASSUME Range(blk_ptr) \ {0} = pages PROVE pages' \subseteq Range(blk_ptr') \ {0}
  <2> SUFFICES ASSUME NEW a \in pages' PROVE a # 0 /\ \E x \in 1 .. L + n : a = blk_ptr'[x]
    BY <1>12 DEF Range
  <2>1. CASE a \in pages
    <3>1. a # 0 /\ \E x \in 1 .. L : a = blk_ptr[x]
      BY <1>1, <1>18, <2>1 DEF Range
    <3>2. PICK x \in 1 .. L : a = blk_ptr[x]
      BY <3>1
    <3>3. x \in 1 .. L + n /\ a = blk_ptr'[x]
      BY <1>1, <1>9, <3>2
    <3>4. QED
      BY <3>1, <3>3
  <2>2. CASE a \in Range(given)
    <3>1. PICK z \in 1 .. g : a = given[z]
      BY <1>3, <2>2 DEF Range
    <3>2. L + z \in 1 .. L + n /\ L + z \in L + 1 .. L + g /\ (L + z) - L = z
      BY <1>1, <1>3
    <3>3. a = blk_ptr'[L + z]
      BY <1>10, <3>1, <3>2
    <3>4. QED
      BY <1>16, <3>1, <3>2, <3>3
  <2>3. QED
    BY <1>2, <2>1, <2>2
<1>19. ASSUME NEW x \in 1 .. L + n, NEW y \in 1 .. L + n, blk_ptr'[x] = blk_ptr'[y], blk_ptr'[x] # 0
       PROVE  x = y
  <2>1. CASE x \in 1 .. L /\ y \in 1 .. L
    BY <1>9, <1>19, <2>1 DEF SearchTypeOK
  <2>2. CASE x \in L + 1 .. L + g /\ y \in L + 1 .. L + g
    <3>1. x - L \in 1 .. g /\ y - L \in 1 .. g /\ given[x - L] = given[y - L]
      BY <1>10, <1>19, <2>2
    <3>2. x - L = y - L
      BY <1>2, <1>3, <3>1 DEF IsInjective
    <3>3. QED
      BY <1>1, <3>2
  <2>3. x \in 1 .. L => blk_ptr'[x] \in pages
    BY <1>9, <1>15, <1>19
  <2>4. y \in 1 .. L => blk_ptr'[y] \in pages
    BY <1>9, <1>15, <1>19
  <2>5. x \in L + 1 .. L + g => blk_ptr'[x] \notin pages
    BY <1>10, <1>16
  <2>6. y \in L + 1 .. L + g => blk_ptr'[y] \notin pages
    BY <1>10, <1>16
  <2>7. QED
    BY <1>11, <1>13, <1>19, <2>1, <2>2, <2>3, <2>4, <2>5, <2>6
<1>20. FirstBlockGiven /\ blk_ptr = <<>> /\ n > 0 => blk_ptr'[1] # 0
  <2> SUFFICES ASSUME FirstBlockGiven, blk_ptr = <<>> PROVE blk_ptr'[1] # 0
    OBVIOUS
  <2>1. g > 0 /\ L = 0
    BY <1>2, <1>4
  <2>2. 1 \in L + 1 .. L + g
    BY <1>3, <2>1
  <2>3. QED
    BY <1>10, <1>16, <2>2
<1>21. pages' \subseteq Blocks
  <2>1. Range(given) \subseteq Blocks
    BY <1>3, <1>16 DEF Range
  <2>2. QED
    BY <1>2, <2>1 DEF SearchTypeOK
<1>22. QED
  BY <1>8, <1>9, <1>17, <1>18, <1>19, <1>20, <1>21

\* A step that ends where there is no search, and forgets the blocks.
LEMMA NoSearch ==
    ASSUME SearchInv, pc' \in {"idle", "map", "pool"}, blk_ptr' = <<>>, pages' \subseteq pages,
           seg_begin' \in Blocks \cup {0}, seg_size' \in 0 .. ReqBlocks
    PROVE  SearchInv'
<1>1. blk_ptr' \in Seq(Blocks \cup {0}) /\ Len(blk_ptr') = 0 /\ Range(blk_ptr') = {}
  BY DEF Range
<1>2. SearchTypeOK'
  BY <1>1 DEF SearchInv, SearchTypeOK, Searching, Tagged
<1>3. Segment' /\ Passed' /\ Closed' /\ Covered' /\ Whole'
  BY DEF Segment, Passed, Closed, Covered, Whole
<1>4. QED
  BY <1>2, <1>3 DEF SearchInv

\* The first blocks: nothing was searched yet.
LEMMA BeginSearches == SearchInv /\ Begin => SearchInv'
<1> SUFFICES ASSUME SearchInv, Begin PROVE SearchInv'
  OBVIOUS
<1>1. /\ pc = "idle" /\ pc' = "find" /\ AllocBlocks(ReqBlocks)
      /\ seg_begin' = 0 /\ seg_size' = 0
  BY DEF Begin
<1>2. ReqBlocks \in Nat /\ ReqBlocks > 0
  BY MemoryAssumption
<1>3. /\ pages' \subseteq Blocks
      /\ blk_ptr' \in Seq(Blocks \cup {0}) /\ Len(blk_ptr') = Len(blk_ptr) + ReqBlocks
      /\ Range(blk_ptr') \ {0} \subseteq pages'
      /\ \A x, y \in 1 .. Len(blk_ptr') :
            blk_ptr'[x] = blk_ptr'[y] => x = y \/ blk_ptr'[x] = 0
  BY <1>1, <1>2, NewBlocks DEF SearchInv
<1>4. blk_ptr' # <<>>
  <2>1. Len(blk_ptr) \in Nat
    BY LenProperties DEF SearchInv, SearchTypeOK
  <2>2. QED
    BY <1>2, <1>3, <2>1
<1>5. SearchTypeOK'
  BY <1>1, <1>2, <1>3, <1>4 DEF SearchTypeOK, Searching, Tagged
<1>6. Segment' /\ Passed' /\ Closed' /\ Covered'
  BY <1>1 DEF Segment, Passed, Closed, Covered
<1>7. Whole'
  BY <1>1, <1>2 DEF Whole
<1>8. QED
  BY <1>5, <1>6, <1>7 DEF SearchInv

\* Tags are cleared: no segment is finished that the invariant would speak of.
LEMMA FindSearches == SearchInv /\ FindLargest => SearchInv'
<1> SUFFICES ASSUME SearchInv, FindLargest PROVE SearchInv'
  OBVIOUS
<1> DEFINE L == Len(blk_ptr)
<1>1. /\ pc = "find" /\ pc' = "scan" /\ blk' = 1
      /\ tag' = [x \in 1 .. L |-> Untagged]
      /\ UNCHANGED <<pages, blk_ptr, seg_begin, seg_size>>
  BY DEF FindLargest, memory
<1>2. L \in Nat
  BY LenProperties DEF SearchInv, SearchTypeOK
<1>3. tag' \in Seq(0 .. 3) /\ Len(tag') = L /\ \A x \in 1 .. L : tag'[x] = 0
  BY <1>1, <1>2 DEF Untagged
<1>4. SearchTypeOK'
  BY <1>1, <1>2, <1>3 DEF SearchInv, SearchTypeOK, Searching, Tagged
<1>5. Segment'
  BY <1>1 DEF Segment
<1>6. Passed'
  BY <1>1, <1>3 DEF Passed, Current
<1>7. Closed' /\ Covered'
  BY <1>1, <1>3 DEF Closed, Covered, Settled, Discarded, Largest
<1>8. Whole'
  BY <1>1, MemoryAssumption DEF SearchInv, SearchTypeOK, Whole
<1>9. QED
  BY <1>4, <1>5, <1>6, <1>7, <1>8 DEF SearchInv

\* A block of a finished segment is passed.
LEMMA PassSearches == SearchInv /\ PassBlock => SearchInv'
<1> SUFFICES ASSUME SearchInv, PassBlock PROVE SearchInv'
  OBVIOUS
<1> DEFINE L == Len(blk_ptr)
<1>1. /\ pc = "scan" /\ pc' = "scan" /\ blk' = blk + 1 /\ tag[blk] # Untagged
      /\ blk <= L /\ seg_size < ReqBlocks
      /\ UNCHANGED <<pages, blk_ptr, tag, seg_begin, seg_size>>
  BY DEF PassBlock, dseg, Scanning
<1>2. L \in Nat /\ blk \in 1 .. L + 1
  BY <1>1, LenProperties DEF SearchInv, SearchTypeOK
<1>3. SearchTypeOK'
  BY <1>1, <1>2 DEF SearchInv, SearchTypeOK, Searching, Tagged
<1>4. Segment'
  BY <1>1 DEF Segment
<1>5. Passed'
  <2>1. \A x \in 1 .. blk' - 1 : x \in 1 .. blk - 1 \/ x = blk
    BY <1>1, <1>2
  <2>2. QED
    BY <1>1, <2>1 DEF SearchInv, Passed
<1>6. Closed' /\ Covered'
  BY <1>1 DEF SearchInv, Closed, Covered, Settled
<1>7. Whole'
  BY <1>1 DEF SearchInv, Whole, WithTag
<1>8. QED
  BY <1>3, <1>4, <1>5, <1>6, <1>7 DEF SearchInv

\* Blocks and tags by their positions.  Address 0 and the blocks never adjoin.
LEMMA Positions ==
    ASSUME SearchTypeOK
    PROVE  /\ Len(blk_ptr) \in Nat /\ DOMAIN blk_ptr = 1 .. Len(blk_ptr)
           /\ \A x \in 1 .. Len(blk_ptr) : blk_ptr[x] \in Nat /\ (blk_ptr[x] = 0 \/ blk_ptr[x] > 1)
           /\ Range(blk_ptr) = {blk_ptr[x] : x \in 1 .. Len(blk_ptr)}
           /\ Tagged => tag \in [1 .. Len(blk_ptr) -> 0 .. 3]
<1>1. blk_ptr \in Seq(Blocks \cup {0})
  BY DEF SearchTypeOK
<1>2. Len(blk_ptr) \in Nat /\ DOMAIN blk_ptr = 1 .. Len(blk_ptr)
  BY <1>1, LenProperties
<1>3. \A x \in 1 .. Len(blk_ptr) : blk_ptr[x] \in Blocks \cup {0}
  BY <1>1, ElementOfSeq
<1>4. \A x \in 1 .. Len(blk_ptr) : blk_ptr[x] \in Nat /\ (blk_ptr[x] = 0 \/ blk_ptr[x] > 1)
  BY <1>3, MemoryAssumption
<1>5. ASSUME Tagged PROVE tag \in [1 .. Len(blk_ptr) -> 0 .. 3]
  <2>1. tag \in Seq(0 .. 3) /\ Len(tag) = Len(blk_ptr)
    BY <1>5 DEF SearchTypeOK
  <2>2. QED
    BY <2>1, LenProperties
<1>6. QED
  BY <1>2, <1>4, <1>5 DEF Range

\* A list of tags for the blocks.
LEMMA TagList ==
    ASSUME NEW n \in Nat, NEW t \in [1 .. n -> 0 .. 3]
    PROVE  t \in Seq(0 .. 3) /\ Len(t) = n
OBVIOUS

\* A segment of one block.
LEMMA StartSearches == SearchInv /\ StartSegment => SearchInv'
<1> SUFFICES ASSUME SearchInv, StartSegment PROVE SearchInv'
  OBVIOUS
<1> DEFINE L == Len(blk_ptr)
<1>1. /\ pc = "scan" /\ pc' = "grow" /\ tag[blk] = Untagged
      /\ blk <= L /\ seg_size < ReqBlocks
      /\ begin' = blk_ptr[blk] /\ end' = blk_ptr[blk] + 1
      /\ tag' = [tag EXCEPT ![blk] = Current]
      /\ found' = FALSE /\ look' = blk + 1
      /\ UNCHANGED <<pages, blk_ptr, seg_begin, seg_size, blk>>
  BY DEF StartSegment, Scanning
<1>2. /\ L \in Nat /\ blk \in 1 .. L /\ tag \in [1 .. L -> 0 .. 3]
      /\ \A x \in 1 .. L : blk_ptr[x] \in Nat
  <2>1. Tagged
    BY <1>1 DEF Tagged
  <2>2. blk \in 1 .. L + 1
    BY <1>1 DEF SearchInv, SearchTypeOK
  <2>3. QED
    BY <1>1, <2>1, <2>2, Positions DEF SearchInv
<1>3. /\ tag' \in [1 .. L -> 0 .. 3] /\ tag'[blk] = 3
      /\ \A x \in 1 .. L : x # blk => tag'[x] = tag[x]
  BY <1>1, <1>2 DEF Current
<1>4. tag' \in Seq(0 .. 3) /\ Len(tag') = L
  BY <1>2, <1>3, TagList
<1>5. SearchTypeOK'
  <2>1. SearchTypeOK /\ Searching' /\ Tagged' /\ ~(pc' \in {"idle", "map", "pool"}) /\ pc' # "scan"
    BY <1>1 DEF SearchInv, Searching, Tagged
  <2>2. blk_ptr' # <<>>
    BY <1>1, <2>1 DEF SearchTypeOK, Searching
  <2>3. /\ blk' \in 1 .. Len(blk_ptr') /\ look' \in blk' + 1 .. Len(blk_ptr') + 1
        /\ found' \in BOOLEAN
    <3>1. found' = FALSE /\ look' = blk + 1 /\ blk' = blk /\ Len(blk_ptr') = L
      BY <1>1
    <3>2. look' \in blk + 1 .. L + 1
      BY <1>2, <3>1
    <3>3. QED
      BY <1>2, <3>1, <3>2
  <2>4. QED
    BY <1>1, <1>4, <2>1, <2>2, <2>3 DEF SearchTypeOK
<1>6. \A x \in 1 .. L : tag[x] # 3
  BY <1>1 DEF SearchInv, Passed, Current
<1>7. Segment'
  <2>1. {y \in 1 .. L : tag'[y] = 3} = {blk}
    BY <1>2, <1>3, <1>6
  <2>2. WithTag(3)' = {blk_ptr[blk]}
    BY <1>1, <2>1 DEF WithTag
  <2>3. Run(begin', end' - begin') = {blk_ptr[blk]}
    BY <1>1, <1>2 DEF Run
  <2>4. /\ begin' \in Nat /\ end' \in Nat /\ begin' < end' /\ end' - begin' <= ReqBlocks
        /\ blk + 1 .. look' - 1 = {}
    BY <1>1, <1>2, MemoryAssumption
  <2>5. QED
    BY <1>1, <1>3, <2>2, <2>3, <2>4 DEF Segment, Current
<1>8. Passed'
  <2>1. \A x \in 1 .. blk - 1 : tag'[x] = tag[x]
    BY <1>2, <1>3
  <2>2. QED
    BY <1>1, <2>1 DEF SearchInv, Passed
<1>9. \A x \in 1 .. L : Settled(x)' <=> Settled(x)
  BY <1>1, <1>3 DEF Settled, Discarded, Largest, Untagged
<1>10. Closed'
  BY <1>1, <1>9 DEF SearchInv, Closed
<1>11. Covered'
  BY <1>1, <1>9 DEF SearchInv, Covered
<1>12. Whole'
  BY <1>1 DEF SearchInv, Whole
<1>13. QED
  BY <1>5, <1>7, <1>8, <1>10, <1>11, <1>12 DEF SearchInv

\* Another round: the segment stays, and nothing was looked at.
LEMMA AgainSearches == SearchInv /\ LookAgain => SearchInv'
<1> SUFFICES ASSUME SearchInv, LookAgain PROVE SearchInv'
  OBVIOUS
<1> DEFINE L == Len(blk_ptr)
<1>1. /\ pc = "grow" /\ pc' = "grow" /\ found' = FALSE /\ look' = blk + 1
      /\ UNCHANGED <<pages, blk_ptr, tag, seg_begin, seg_size, blk, begin, end>>
  BY DEF LookAgain, dseg
<1>2. L \in Nat /\ blk \in 1 .. L
  BY <1>1, LenProperties DEF SearchInv, SearchTypeOK
<1>3. SearchTypeOK'
  <2>1. SearchTypeOK /\ Searching' /\ Tagged' /\ ~(pc' \in {"idle", "map", "pool"}) /\ pc' # "scan"
    BY <1>1 DEF SearchInv, Searching, Tagged
  <2>2. blk_ptr' # <<>>
    BY <1>1, <2>1 DEF SearchTypeOK, Searching
  <2>3. /\ blk' \in 1 .. Len(blk_ptr') /\ look' \in blk' + 1 .. Len(blk_ptr') + 1
        /\ found' \in BOOLEAN
    <3>1. found' = FALSE /\ look' = blk + 1 /\ blk' = blk /\ Len(blk_ptr') = L
      BY <1>1
    <3>2. look' \in blk + 1 .. L + 1
      BY <1>2, <3>1
    <3>3. QED
      BY <1>2, <3>1, <3>2
  <2>4. tag' \in Seq(0 .. 3) /\ Len(tag') = L
    BY <1>1 DEF SearchInv, SearchTypeOK, Tagged
  <2>5. QED
    BY <1>1, <2>1, <2>2, <2>3, <2>4 DEF SearchTypeOK
<1>4. Segment'
  <2>1. blk + 1 .. look' - 1 = {}
    BY <1>1, <1>2
  <2>2. QED
    BY <1>1, <2>1 DEF SearchInv, Segment, WithTag
<1>5. Passed' /\ Closed' /\ Covered' /\ Whole'
  BY <1>1 DEF SearchInv, Passed, Closed, Covered, Settled, Whole
<1>6. QED
  BY <1>3, <1>4, <1>5 DEF SearchInv

\* A block next to the segment makes it one longer at that end; any other is away from it.
LEMMA LookSearches == SearchInv /\ Look => SearchInv'
<1> SUFFICES ASSUME SearchInv, Look PROVE SearchInv'
  OBVIOUS
<1> DEFINE L == Len(blk_ptr)
           a == blk_ptr[look]
<1>1. /\ pc = "grow" /\ pc' = "grow" /\ look' = look + 1
      /\ look <= L /\ end - begin < ReqBlocks
      /\ UNCHANGED <<pages, blk_ptr, seg_begin, seg_size, blk>>
  BY DEF Look, Looking
<1>2. /\ L \in Nat /\ blk \in 1 .. L /\ look \in blk + 1 .. L + 1 /\ found \in BOOLEAN
      /\ tag \in [1 .. L -> 0 .. 3] /\ \A x \in 1 .. L : blk_ptr[x] \in Nat
  <2>1. Tagged
    BY <1>1 DEF Tagged
  <2>2. blk \in 1 .. L /\ look \in blk + 1 .. L + 1 /\ found \in BOOLEAN
    BY <1>1 DEF SearchInv, SearchTypeOK
  <2>3. QED
    BY <2>1, <2>2, Positions DEF SearchInv
<1>3. look \in 1 .. L /\ look # blk /\ a \in Nat
  BY <1>1, <1>2
<1>4. /\ begin \in Nat /\ end \in Nat /\ begin < end /\ end - begin <= ReqBlocks
      /\ WithTag(3) = Run(begin, end - begin) /\ tag[blk] = 3
      /\ ~found => \A y \in blk + 1 .. look - 1 : tag[y] = Untagged => ~Adjacent(blk_ptr[y])
  BY <1>1 DEF SearchInv, Segment, Current
<1>5. CASE tag[look] = Untagged /\ Adjacent(a)
  <2>1. /\ begin' = IF a = begin - 1 THEN a ELSE begin
        /\ end' = IF a = begin - 1 THEN end ELSE end + 1
        /\ tag' = [tag EXCEPT ![look] = Current] /\ found' = TRUE
    BY <1>5 DEF Look
  <2>2. /\ tag' \in [1 .. L -> 0 .. 3] /\ tag'[look] = 3
        /\ \A x \in 1 .. L : x # look => tag'[x] = tag[x]
    BY <1>2, <1>3, <2>1 DEF Current
  <2>3. tag' \in Seq(0 .. 3) /\ Len(tag') = L
    BY <1>2, <2>2, TagList
  <2>4. SearchTypeOK'
    BY <1>1, <1>2, <2>1, <2>3 DEF SearchInv, SearchTypeOK, Searching, Tagged
  <2>5. WithTag(3)' = Run(begin, end - begin) \cup {a}
    <3>1. {y \in 1 .. L : tag'[y] = 3} = {y \in 1 .. L : tag[y] = 3} \cup {look}
      BY <1>3, <2>2
    <3>2. WithTag(3)' = WithTag(3) \cup {a}
      BY <1>1, <3>1 DEF WithTag
    <3>3. QED
      BY <1>4, <3>2
  <2>6. /\ begin' \in Nat /\ end' \in Nat /\ begin' < end' /\ end' - begin' <= ReqBlocks
        /\ Run(begin', end' - begin') = Run(begin, end - begin) \cup {a}
    <3>1. CASE a = begin - 1
      <4>1. begin' = begin - 1 /\ end' = end
        BY <2>1, <3>1
      <4>2. /\ begin' \in Nat /\ end' \in Nat /\ begin' < end' /\ end' - begin' <= ReqBlocks
        BY <1>1, <1>3, <1>4, <3>1, <4>1, MemoryAssumption
      <4>3. Run(begin', end' - begin') = begin - 1 .. end - 1 /\ Run(begin, end - begin) = begin .. end - 1
        BY <1>4, <4>1 DEF Run
      <4>4. QED
        BY <1>4, <3>1, <4>2, <4>3
    <3>2. CASE a # begin - 1
      <4>1. begin' = begin /\ end' = end + 1 /\ a = end
        BY <1>5, <2>1, <3>2 DEF Adjacent
      <4>2. /\ begin' \in Nat /\ end' \in Nat /\ begin' < end' /\ end' - begin' <= ReqBlocks
        BY <1>1, <1>4, <4>1, MemoryAssumption
      <4>3. Run(begin', end' - begin') = begin .. end /\ Run(begin, end - begin) = begin .. end - 1
        BY <1>4, <4>1 DEF Run
      <4>4. QED
        BY <1>4, <4>1, <4>2, <4>3
    <3>3. QED
      BY <3>1, <3>2
  <2>7. Segment'
    <3>1. tag'[blk] = 3
      BY <1>2, <1>3, <1>4, <2>2
    <3>2. QED
      BY <1>1, <2>1, <2>5, <2>6, <3>1 DEF Segment, Current
  <2>8. Passed'
    <3>1. \A x \in 1 .. blk - 1 : x \in 1 .. L /\ x # look
      BY <1>2
    <3>2. QED
      BY <1>1, <2>2, <3>1 DEF SearchInv, Passed
  <2>9. \A x \in 1 .. L : Settled(x)' <=> Settled(x)
    BY <1>5, <2>2 DEF Settled, Discarded, Largest, Untagged
  <2>10. Closed'
    BY <1>1, <2>9 DEF SearchInv, Closed
  <2>11. Covered'
    BY <1>1, <2>9 DEF SearchInv, Covered
  <2>12. Whole'
    BY <1>1 DEF SearchInv, Whole
  <2>13. QED
    BY <2>4, <2>7, <2>8, <2>10, <2>11, <2>12 DEF SearchInv
<1>6. CASE ~(tag[look] = Untagged /\ Adjacent(a))
  <2>1. UNCHANGED <<begin, end, tag, found>>
    BY <1>6 DEF Look
  <2>2. SearchTypeOK'
    BY <1>1, <1>2, <2>1 DEF SearchInv, SearchTypeOK, Searching, Tagged
  <2>3. Segment'
    <3>1. ~found => \A y \in blk + 1 .. look' - 1 : tag[y] = Untagged => ~Adjacent(blk_ptr[y])
      <4>1. \A y \in blk + 1 .. look' - 1 : y \in blk + 1 .. look - 1 \/ y = look
        BY <1>1, <1>2
      <4>2. QED
        BY <1>4, <1>6, <4>1
    <3>2. \A y \in 1 .. L : Adjacent(blk_ptr[y])' <=> Adjacent(blk_ptr[y])
      BY <1>1, <2>1 DEF Adjacent
    <3>3. WithTag(3)' = WithTag(3) /\ Run(begin, end - begin)' = Run(begin, end - begin)
      BY <1>1, <2>1 DEF WithTag
    <3>4. blk + 1 .. look' - 1 \subseteq 1 .. L
      BY <1>1, <1>2
    <3>5. ~found' => \A y \in blk + 1 .. look' - 1 : tag'[y] = Untagged => ~Adjacent(blk_ptr[y])'
      BY <2>1, <3>1, <3>2, <3>4
    <3>6. QED
      BY <1>1, <1>4, <2>1, <3>3, <3>5 DEF Segment, Current
  <2>4. Passed' /\ Closed' /\ Covered' /\ Whole'
    BY <1>1, <2>1 DEF SearchInv, Passed, Closed, Covered, Settled, Whole
  <2>5. QED
    BY <2>2, <2>3, <2>4 DEF SearchInv
<1>7. QED
  BY <1>5, <1>6

\* A segment that is complete and still too small has no neighbours at all.
LEMMA NoNeighbours ==
    ASSUME SearchInv, pc = "grow", ~Looking, ~found, end - begin < ReqBlocks
    PROVE  \A y \in 1 .. Len(blk_ptr) : blk_ptr[y] # begin - 1 /\ blk_ptr[y] # end
<1> DEFINE L == Len(blk_ptr)
<1>1. /\ L \in Nat /\ blk \in 1 .. L /\ look \in blk + 1 .. L + 1
      /\ tag \in [1 .. L -> 0 .. 3] /\ \A x \in 1 .. L : blk_ptr[x] \in Nat
  <2>1. Tagged
    BY DEF Tagged
  <2>2. blk \in 1 .. L /\ look \in blk + 1 .. L + 1
    BY DEF SearchInv, SearchTypeOK
  <2>3. QED
    BY <2>1, <2>2, Positions DEF SearchInv
<1>2. /\ begin \in Nat /\ end \in Nat /\ begin < end
      /\ WithTag(3) = begin .. end - 1 /\ tag[blk] = 3
      /\ \A y \in blk + 1 .. look - 1 : tag[y] = Untagged => ~Adjacent(blk_ptr[y])
  <2>1. /\ begin \in Nat /\ end \in Nat /\ begin < end
        /\ WithTag(3) = Run(begin, end - begin) /\ tag[blk] = 3
        /\ \A y \in blk + 1 .. look - 1 : tag[y] = Untagged => ~Adjacent(blk_ptr[y])
    BY DEF SearchInv, Segment, Current
  <2>2. Run(begin, end - begin) = begin .. end - 1
    BY <2>1 DEF Run
  <2>3. QED
    BY <2>1, <2>2
<1>3. look = L + 1
  BY <1>1 DEF Looking
<1> SUFFICES ASSUME NEW y \in 1 .. L, blk_ptr[y] = begin - 1 \/ blk_ptr[y] = end PROVE FALSE
  OBVIOUS
<1>4. tag[y] # 0
  <2> SUFFICES ASSUME tag[y] = 0 PROVE FALSE
    OBVIOUS
  <2>1. \A x \in 1 .. blk - 1 : tag[x] # 0
    BY DEF SearchInv, Passed, Untagged
  <2>2. y \in blk + 1 .. look - 1
    BY <1>1, <1>2, <1>3, <2>1
  <2>3. ~Adjacent(blk_ptr[y])
    BY <1>2, <2>2 DEF Untagged
  <2>4. QED
    BY <2>3 DEF Adjacent
<1>5. tag[y] # 3
  <2> SUFFICES ASSUME tag[y] = 3 PROVE FALSE
    OBVIOUS
  <2>1. blk_ptr[y] \in WithTag(3)
    BY DEF WithTag
  <2>2. blk_ptr[y] \in begin .. end - 1
    BY <1>2, <2>1
  <2>3. QED
    BY <1>2, <2>2
<1>6. Settled(y)
  BY <1>1, <1>4, <1>5 DEF Settled, Discarded, Largest
<1>7. ASSUME NEW v \in begin .. end - 1, v = blk_ptr[y] + 1 \/ blk_ptr[y] = v + 1 PROVE FALSE
  <2>1. v \in WithTag(3)
    BY <1>2
  <2>2. PICK x \in 1 .. L : tag[x] = 3 /\ blk_ptr[x] = v
    BY <2>1 DEF WithTag
  <2>3. seg_size < ReqBlocks
    BY DEF SearchInv, Whole
  <2>4. Settled(x)
    BY <1>6, <1>7, <2>2, <2>3 DEF SearchInv, Closed
  <2>5. QED
    BY <2>2, <2>4 DEF Settled, Discarded, Largest
<1>8. CASE blk_ptr[y] = begin - 1
  <2>1. begin \in begin .. end - 1 /\ begin = blk_ptr[y] + 1
    BY <1>2, <1>8
  <2>2. QED
    BY <1>7, <2>1
<1>9. CASE blk_ptr[y] = end
  <2>1. end - 1 \in begin .. end - 1 /\ blk_ptr[y] = (end - 1) + 1
    BY <1>2, <1>9
  <2>2. QED
    BY <1>7, <2>1
<1>10. QED
  BY <1>8, <1>9

\* The segment ends and is the largest, or is not larger than the largest.
LEMMA EndSearches == SearchInv /\ EndSegment => SearchInv'
<1> SUFFICES ASSUME SearchInv, EndSegment PROVE SearchInv'
  OBVIOUS
<1> DEFINE L == Len(blk_ptr)
           n == end - begin
<1>1. /\ pc = "grow" /\ pc' = "scan" /\ ~Looking /\ ~found /\ blk' = blk + 1
      /\ UNCHANGED <<pages, blk_ptr>>
  BY DEF EndSegment
<1>2. /\ L \in Nat /\ blk \in 1 .. L /\ tag \in [1 .. L -> 0 .. 3] /\ DOMAIN tag = 1 .. L
      /\ \A x \in 1 .. L : blk_ptr[x] \in Nat /\ (blk_ptr[x] = 0 \/ blk_ptr[x] > 1)
      /\ seg_size \in 0 .. ReqBlocks /\ ReqBlocks \in Nat /\ seg_size < ReqBlocks
  <2>1. Tagged
    BY <1>1 DEF Tagged
  <2>2. blk \in 1 .. L /\ seg_size \in 0 .. ReqBlocks
    BY <1>1 DEF SearchInv, SearchTypeOK
  <2>3. seg_size < ReqBlocks
    BY <1>1 DEF SearchInv, Whole
  <2>4. QED
    BY <2>1, <2>2, <2>3, Positions, MemoryAssumption DEF SearchInv
<1>3. /\ begin \in Nat /\ end \in Nat /\ begin < end /\ n <= ReqBlocks
      /\ WithTag(3) = Run(begin, n) /\ tag[blk] = 3
  BY <1>1 DEF SearchInv, Segment, Current
<1>4. Run(begin, n) = begin .. end - 1 /\ n \in 1 .. ReqBlocks
  BY <1>2, <1>3 DEF Run
<1>5. /\ tag' \in [1 .. L -> 0 .. 3] /\ \A x \in 1 .. L : tag'[x] # 3
      /\ \A x \in 1 .. L : tag'[x] = 0 <=> tag[x] = 0
      /\ n > seg_size => \A x \in 1 .. L : tag'[x] = 2 <=> tag[x] = 3
      /\ n > seg_size => seg_begin' = begin /\ seg_size' = n
      /\ ~(n > seg_size) => seg_begin' = seg_begin /\ seg_size' = seg_size
  <2>1. CASE n > seg_size
    <3>1. /\ seg_begin' = begin /\ seg_size' = n
          /\ tag' = [x \in 1 .. L |-> CASE tag[x] = 3 -> 2 [] tag[x] = 2 -> 1 [] OTHER -> tag[x]]
      BY <1>2, <2>1 DEF EndSegment, Current, Largest, Discarded
    <3>2. \A x \in 1 .. L :
             /\ tag[x] = 3 => tag'[x] = 2
             /\ tag[x] = 2 => tag'[x] = 1
             /\ tag[x] # 3 /\ tag[x] # 2 => tag'[x] = tag[x]
      BY <3>1
    <3>3. tag' \in [1 .. L -> 0 .. 3]
      BY <1>2, <3>1
    <3>4. QED
      BY <1>2, <2>1, <3>1, <3>2, <3>3
  <2>2. CASE ~(n > seg_size)
    <3>1. /\ seg_begin' = seg_begin /\ seg_size' = seg_size
          /\ tag' = [x \in 1 .. L |-> IF tag[x] = 3 THEN 1 ELSE tag[x]]
      BY <1>2, <2>2 DEF EndSegment, Current, Largest, Discarded
    <3>2. tag' \in [1 .. L -> 0 .. 3]
      BY <1>2, <3>1
    <3>3. QED
      BY <1>2, <2>2, <3>1, <3>2
  <2>3. QED
    BY <2>1, <2>2
<1>6. /\ seg_size' \in 0 .. ReqBlocks /\ seg_size' >= seg_size /\ seg_size' >= n
      /\ seg_size' = n \/ seg_size' < ReqBlocks
  BY <1>2, <1>4, <1>5
<1>7. \A x \in 1 .. L : Settled(x)' <=> (Settled(x) \/ tag[x] = 3)
  BY <1>2, <1>5 DEF Settled, Discarded, Largest
<1>8. seg_size' < ReqBlocks => \A y \in 1 .. L : blk_ptr[y] # begin - 1 /\ blk_ptr[y] # end
  <2>1. seg_size' < ReqBlocks => end - begin < ReqBlocks
    BY <1>2, <1>3, <1>6
  <2>2. QED
    BY <1>1, <2>1, NoNeighbours
<1>9. \A x \in 1 .. L : tag[x] = 3 => blk_ptr[x] \in begin .. end - 1
  BY <1>3, <1>4 DEF WithTag
<1>10. \A v \in begin .. end - 1 : \E x \in 1 .. L : tag[x] = 3 /\ blk_ptr[x] = v
  BY <1>3, <1>4 DEF WithTag
<1>11. SearchTypeOK'
  <2>1. SearchTypeOK /\ Searching' /\ Tagged' /\ ~(pc' \in {"idle", "map", "pool"}) /\ pc' # "grow"
    BY <1>1 DEF SearchInv, Searching, Tagged
  <2>2. blk_ptr' # <<>>
    BY <1>1, <2>1 DEF SearchTypeOK, Searching
  <2>3. begin \in Blocks \cup {0}
    <3>1. PICK x \in 1 .. L : blk_ptr[x] = begin
      BY <1>3, <1>10
    <3>2. blk_ptr \in Seq(Blocks \cup {0})
      BY <2>1 DEF SearchTypeOK
    <3>3. QED
      BY <3>1, <3>2, ElementOfSeq
  <2>4. seg_begin' \in Blocks \cup {0}
    BY <1>5, <2>1, <2>3 DEF SearchTypeOK
  <2>5. tag' \in Seq(0 .. 3) /\ Len(tag') = L
    BY <1>2, <1>5, TagList
  <2>6. blk' \in 1 .. L + 1
    BY <1>1, <1>2
  <2>7. QED
    BY <1>1, <1>6, <2>1, <2>2, <2>4, <2>5, <2>6 DEF SearchTypeOK
<1>12. Segment'
  BY <1>1 DEF Segment
<1>13. Passed'
  <2>1. \A x \in 1 .. blk' - 1 : x \in 1 .. L /\ (x \in 1 .. blk - 1 \/ x = blk)
    BY <1>1, <1>2
  <2>2. \A x \in 1 .. blk - 1 : tag[x] # 0
    BY <1>1 DEF SearchInv, Passed, Untagged
  <2>3. \A x \in 1 .. blk' - 1 : tag'[x] # 0
    BY <1>3, <1>5, <2>1, <2>2
  <2>4. QED
    BY <1>1, <1>5, <2>3 DEF Passed, Untagged, Current
<1>14. Closed'
  <2> SUFFICES ASSUME seg_size' < ReqBlocks, NEW x \in 1 .. L, NEW y \in 1 .. L, Settled(x)',
                      blk_ptr[y] = blk_ptr[x] + 1 \/ blk_ptr[x] = blk_ptr[y] + 1
               PROVE  Settled(y)'
    BY <1>1 DEF Closed
  <2>1. CASE Settled(x)
    <3>1. Settled(y)
      BY <1>1, <1>2, <2>1 DEF SearchInv, Closed
    <3>2. QED
      BY <1>7, <3>1
  <2>2. CASE tag[x] = 3
    <3>1. blk_ptr[x] \in begin .. end - 1
      BY <1>9, <2>2
    <3>2. blk_ptr[y] \in begin .. end - 1
      <4>1. blk_ptr[y] # begin - 1 /\ blk_ptr[y] # end
        BY <1>8
      <4>2. blk_ptr[y] \in Nat /\ blk_ptr[x] \in Nat
        BY <1>2
      <4>3. QED
        BY <1>3, <3>1, <4>1, <4>2
    <3>3. PICK z \in 1 .. L : tag[z] = 3 /\ blk_ptr[z] = blk_ptr[y]
      BY <1>10, <3>2
    <3>4. z = y \/ blk_ptr[z] = 0
      BY <3>3 DEF SearchInv, SearchTypeOK
    <3>5. blk_ptr[y] # 0
      BY <1>2
    <3>6. QED
      BY <1>7, <3>3, <3>4, <3>5
  <2>3. QED
    BY <1>7, <2>1, <2>2
<1>15. Covered'
  <2> SUFFICES ASSUME seg_size' < ReqBlocks, NEW x \in 1 .. L, Settled(x)',
                      NEW m \in 1 .. ReqBlocks, NEW a \in Blocks,
                      Run(a, m) \subseteq Range(blk_ptr), blk_ptr[x] \in Run(a, m)
               PROVE  m <= seg_size'
    BY <1>1 DEF Covered, Run
  <2>1. CASE Settled(x)
    <3>1. m <= seg_size
      BY <1>1, <1>2, <2>1 DEF SearchInv, Covered
    <3>2. QED
      BY <1>2, <1>6, <3>1
  <2>2. CASE tag[x] = 3
    <3>1. blk_ptr[x] \in begin .. end - 1
      BY <1>9, <2>2
    <3>2. a \in Nat /\ m \in Nat /\ Run(a, m) = a .. a + m - 1
      BY <1>2, MemoryAssumption DEF Run
    <3>3. begin - 1 \notin Range(blk_ptr) /\ end \notin Range(blk_ptr)
      <4>1. Range(blk_ptr) = {blk_ptr[y] : y \in 1 .. L}
        BY Positions DEF SearchInv
      <4>2. QED
        BY <1>8, <4>1
    <3>4. begin - 1 \notin a .. a + m - 1 /\ end \notin a .. a + m - 1
      BY <3>2, <3>3
    <3>5. blk_ptr[x] \in a .. a + m - 1
      BY <3>2
    <3>6. a >= begin /\ a + m <= end
      BY <1>3, <3>1, <3>2, <3>4, <3>5
    <3>7. QED
      BY <1>2, <1>3, <1>6, <3>2, <3>6
  <2>3. QED
    BY <1>7, <2>1, <2>2
<1>16. Whole'
  <2> SUFFICES ASSUME seg_size' >= ReqBlocks
               PROVE  seg_size' = ReqBlocks /\ WithTag(2)' = Run(seg_begin', seg_size')
    BY <1>1 DEF Whole, Largest
  <2>1. seg_size' = ReqBlocks /\ n > seg_size
    BY <1>2, <1>5, <1>6
  <2>2. {y \in 1 .. L : tag'[y] = 2} = {y \in 1 .. L : tag[y] = 3}
    BY <1>5, <2>1
  <2>3. WithTag(2)' = WithTag(3)
    BY <1>1, <2>2 DEF WithTag
  <2>4. Run(seg_begin', seg_size') = Run(begin, n)
    BY <1>5, <2>1
  <2>5. QED
    BY <1>3, <2>1, <2>3, <2>4
<1>17. QED
  BY <1>11, <1>12, <1>13, <1>14, <1>15, <1>16 DEF SearchInv

\* The search ends at a whole segment, or has passed every block.
LEMMA ScanEnds == SearchInv /\ EndScan => SearchInv'
<1> SUFFICES ASSUME SearchInv, EndScan PROVE SearchInv'
  OBVIOUS
<1> DEFINE L == Len(blk_ptr)
<1>1. /\ pc = "scan" /\ ~Scanning
      /\ UNCHANGED <<pages, blk_ptr, tag, seg_begin, seg_size>>
      /\ seg_size >= ReqBlocks => pc' = "release"
      /\ ~(seg_size >= ReqBlocks) => pc' = "more"
  BY DEF EndScan, dseg
<1>2. /\ L \in Nat /\ blk \in 1 .. L + 1 /\ tag \in [1 .. L -> 0 .. 3]
      /\ seg_size \in 0 .. ReqBlocks /\ ReqBlocks \in Nat
  <2>1. Tagged
    BY <1>1 DEF Tagged
  <2>2. blk \in 1 .. L + 1 /\ seg_size \in 0 .. ReqBlocks
    BY <1>1 DEF SearchInv, SearchTypeOK
  <2>3. QED
    BY <2>1, <2>2, Positions, MemoryAssumption DEF SearchInv
<1>3. pc' \in {"release", "more"}
  BY <1>1
<1>4. SearchTypeOK'
  <2>1. /\ SearchTypeOK /\ Searching /\ Tagged /\ Searching' /\ Tagged'
        /\ ~(pc' \in {"idle", "map", "pool"}) /\ pc' # "grow" /\ pc' # "scan"
    BY <1>1, <1>3 DEF SearchInv, Searching, Tagged
  <2>2. QED
    BY <1>1, <2>1 DEF SearchTypeOK
<1>5. Segment' /\ Passed' /\ Closed' /\ Covered'
  BY <1>3 DEF Segment, Passed, Closed, Covered
<1>6. Whole'
  <2>1. CASE seg_size >= ReqBlocks
    <3>1. seg_size = ReqBlocks /\ WithTag(Largest) = Run(seg_begin, seg_size)
      BY <1>1, <2>1 DEF SearchInv, Whole
    <3>2. QED
      BY <1>1, <2>1, <3>1 DEF Whole, WithTag
  <2>2. CASE ~(seg_size >= ReqBlocks)
    <3>1. blk = L + 1 /\ seg_size < ReqBlocks
      BY <1>1, <1>2, <2>2 DEF Scanning
    <3>2. \A x \in 1 .. L : Settled(x)
      <4>1. \A x \in 1 .. L : tag[x] # 0 /\ tag[x] # 3
        BY <1>1, <1>2, <3>1 DEF SearchInv, Passed, Untagged, Current
      <4>2. QED
        BY <1>2, <4>1 DEF Settled, Discarded, Largest
    <3>3. ASSUME NEW m \in 1 .. ReqBlocks, NEW a \in Blocks, Run(a, m) \subseteq Range(blk_ptr)
          PROVE  m <= seg_size
      <4>1. a \in Run(a, m)
        BY MemoryAssumption DEF Run
      <4>2. PICK x \in 1 .. L : a = blk_ptr[x]
        <5>1. Range(blk_ptr) = {blk_ptr[x] : x \in 1 .. L}
          BY Positions DEF SearchInv
        <5>2. QED
          BY <3>3, <4>1, <5>1
      <4>3. QED
        BY <1>1, <3>1, <3>2, <3>3, <4>1, <4>2 DEF SearchInv, Covered
    <3>4. pc' = "more" /\ seg_size' < ReqBlocks
      BY <1>1, <2>2, <3>1
    <3>5. \A m \in 1 .. ReqBlocks, a \in Blocks :
             Run(a, m) \subseteq Range(blk_ptr') => m <= seg_size'
      BY <1>1, <3>3
    <3>6. QED
      BY <3>4, <3>5 DEF Whole, Run
  <2>3. QED
    BY <2>1, <2>2
<1>7. QED
  BY <1>4, <1>5, <1>6 DEF SearchInv

\* More blocks, or none: the tags of those there are stay.
LEMMA MoreFacts ==
    ASSUME SearchInv, MoreMemory
    PROVE  /\ pc = "more" /\ pc' \in {"release", "find"}
           /\ UNCHANGED <<seg_begin, seg_size>>
           /\ tag' = tag \o [x \in 1 .. Len(blk_ptr') - Len(blk_ptr) |-> Untagged]
           /\ \/ UNCHANGED <<blk_ptr, pages>>
              \/ AllocBlocks(MoreBlocks)
BY DEF MoreMemory

\* Those of new blocks are clear.
LEMMA MoreTags ==
    ASSUME SearchInv, MoreMemory
    PROVE  /\ Len(blk_ptr) \in Nat /\ Len(blk_ptr') \in Nat /\ Len(blk_ptr') >= Len(blk_ptr)
           /\ \A x \in 1 .. Len(blk_ptr) : blk_ptr'[x] = blk_ptr[x] /\ tag'[x] = tag[x]
           /\ \A x \in Len(blk_ptr) + 1 .. Len(blk_ptr') : tag'[x] = Untagged
           /\ tag' \in Seq(0 .. 3) /\ Len(tag') = Len(blk_ptr')
<1> DEFINE L == Len(blk_ptr)
           M == Len(blk_ptr')
           rest == [x \in 1 .. M - L |-> Untagged]
<1>1. L \in Nat /\ tag \in Seq(0 .. 3) /\ Len(tag) = L
  <2>1. Tagged
    BY MoreFacts DEF Tagged
  <2>2. QED
    BY <2>1, LenProperties DEF SearchInv, SearchTypeOK
<1>2. M \in Nat /\ M >= L /\ \A x \in 1 .. L : blk_ptr'[x] = blk_ptr[x]
  <2>1. CASE UNCHANGED <<blk_ptr, pages>>
    BY <1>1, <2>1
  <2>2. CASE AllocBlocks(MoreBlocks)
    <3>1. MoreBlocks \in Nat
      BY MemoryAssumption
    <3>2. M = L + MoreBlocks /\ \A x \in 1 .. L : blk_ptr'[x] = blk_ptr[x]
      BY <2>2, <3>1, NewBlocks DEF SearchInv
    <3>3. QED
      BY <1>1, <3>1, <3>2
  <2>3. QED
    BY <2>1, <2>2, MoreFacts
<1>3. tag' = tag \o rest
  BY MoreFacts
<1>4. rest \in Seq(0 .. 3) /\ Len(rest) = M - L /\ \A x \in 1 .. M - L : rest[x] = 0
  BY <1>1, <1>2 DEF Untagged
<1> HIDE DEF L, M, rest
<1>5. /\ tag' \in Seq(0 .. 3) /\ Len(tag') = L + (M - L)
      /\ \A x \in 1 .. L + (M - L) : tag'[x] = IF x <= L THEN tag[x] ELSE rest[x - L]
  BY <1>1, <1>3, <1>4, ConcatProperties
<1>6. Len(tag') = M /\ \A x \in 1 .. L : tag'[x] = tag[x]
  BY <1>1, <1>2, <1>5
<1>7. \A x \in L + 1 .. M : tag'[x] = 0
  <2> SUFFICES ASSUME NEW x \in L + 1 .. M PROVE tag'[x] = 0
    OBVIOUS
  <2>1. x \in 1 .. L + (M - L) /\ ~(x <= L) /\ x - L \in 1 .. M - L
    BY <1>1, <1>2
  <2>2. QED
    BY <1>4, <1>5, <2>1
<1>8. QED
  BY <1>1, <1>2, <1>5, <1>6, <1>7 DEF L, M, Untagged

\* The search begins anew on more blocks, or is given up.
LEMMA MoreSearches == SearchInv /\ MoreMemory => SearchInv'
<1> SUFFICES ASSUME SearchInv, MoreMemory PROVE SearchInv'
  OBVIOUS
<1>1. /\ pc = "more" /\ pc' \in {"release", "find"}
      /\ UNCHANGED <<seg_begin, seg_size>>
      /\ UNCHANGED <<blk_ptr, pages>> \/ AllocBlocks(MoreBlocks)
  BY MoreFacts
<1>2. tag' \in Seq(0 .. 3) /\ Len(tag') = Len(blk_ptr')
  BY MoreTags
<1>3. /\ pages' \subseteq Blocks /\ blk_ptr' \in Seq(Blocks \cup {0})
      /\ Range(blk_ptr') \ {0} \subseteq pages'
      /\ \A x, y \in 1 .. Len(blk_ptr') :
            blk_ptr'[x] = blk_ptr'[y] => x = y \/ blk_ptr'[x] = 0
  <2>1. CASE UNCHANGED <<blk_ptr, pages>>
    BY <2>1 DEF SearchInv, SearchTypeOK
  <2>2. CASE AllocBlocks(MoreBlocks)
    <3>1. MoreBlocks \in Nat
      BY MemoryAssumption
    <3>2. QED
      BY <2>2, <3>1, NewBlocks DEF SearchInv
  <2>3. QED
    BY <1>1, <2>1, <2>2
<1>4. blk_ptr' # <<>>
  <2>1. blk_ptr # <<>> /\ blk_ptr \in Seq(Blocks \cup {0})
    BY <1>1 DEF SearchInv, SearchTypeOK, Searching
  <2>2. Len(blk_ptr) \in Nat \ {0}
    BY <2>1, EmptySeq
  <2>3. Len(blk_ptr') > 0
    BY <2>2, MoreTags
  <2>4. QED
    BY <2>3
<1>5. SearchTypeOK'
  <2>1. /\ SearchTypeOK /\ Searching' /\ ~(pc' \in {"idle", "map", "pool"})
        /\ pc' # "grow" /\ pc' # "scan"
    BY <1>1 DEF SearchInv, Searching
  <2>2. QED
    BY <1>1, <1>2, <1>3, <1>4, <2>1 DEF SearchTypeOK
<1>6. Segment' /\ Passed' /\ Closed' /\ Covered'
  BY <1>1 DEF Segment, Passed, Closed, Covered
<1>7. Whole'
  <2>1. seg_size' < ReqBlocks /\ seg_size' \in 0 .. ReqBlocks /\ ReqBlocks \in Nat
    BY <1>1, MemoryAssumption DEF SearchInv, SearchTypeOK, Whole
  <2>2. QED
    BY <1>1, <2>1 DEF Whole
<1>8. QED
  BY <1>5, <1>6, <1>7 DEF SearchInv

\* The segment is taken, or everything is given back: no search is left.
LEMMA ReleaseSearches == SearchInv /\ Release => SearchInv'
<1> SUFFICES ASSUME SearchInv, Release PROVE SearchInv'
  OBVIOUS
<1>1. /\ pc' \in {"idle", "map"} /\ pages' \subseteq pages
      /\ blk_ptr' = <<>> /\ seg_begin' = 0 /\ seg_size' = 0
  BY DEF Release
<1>2. 0 \in 0 .. ReqBlocks
  BY MemoryAssumption
<1>3. QED
  BY <1>1, <1>2, NoSearch

\* The steps outside of the search.
LEMMA OthersSearch ==
    SearchInv /\ (Map \/ MakePool \/ Salloc \/ Sfree \/ Reload) => SearchInv'
<1> SUFFICES ASSUME SearchInv, Map \/ MakePool \/ Salloc \/ Sfree \/ Reload PROVE SearchInv'
  OBVIOUS
<1>1. /\ pc \in {"idle", "map", "pool"} /\ pc' \in {"idle", "map", "pool"}
      /\ UNCHANGED dseg /\ pages' \subseteq pages
  <2>1. CASE Map
    BY <2>1 DEF Map, PgCleanup
  <2>2. CASE MakePool
    BY <2>2 DEF MakePool
  <2>3. CASE Salloc
    BY <2>3 DEF Salloc
  <2>4. CASE Sfree
    BY <2>4 DEF Sfree
  <2>5. CASE Reload
    BY <2>5 DEF Reload, PgCleanup
  <2>6. QED
    BY <2>1, <2>2, <2>3, <2>4, <2>5
<1>2. blk_ptr' = <<>> /\ seg_begin' \in Blocks \cup {0} /\ seg_size' \in 0 .. ReqBlocks
  BY <1>1 DEF dseg, SearchInv, SearchTypeOK, Searching
<1>3. QED
  BY <1>1, <1>2, NoSearch

\* Nothing happens.
LEMMA SearchStutter == SearchInv /\ UNCHANGED vars => SearchInv'
BY DEF vars, dseg, locals, SearchInv, SearchTypeOK, Searching, Tagged, Segment, WithTag, Adjacent,
       Passed, Closed, Settled, Covered, Whole

\* SearchInv is inductive.
LEMMA SearchInvariant == Spec => []SearchInv
<1>1. Init => SearchInv
  <2> SUFFICES ASSUME Init PROVE SearchInv
    OBVIOUS
  <2>1. pc = "idle" /\ pages = {} /\ blk_ptr = <<>> /\ seg_begin = 0 /\ seg_size = 0
    BY DEF Init
  <2>2. blk_ptr \in Seq(Blocks \cup {0}) /\ Len(blk_ptr) = 0 /\ Range(blk_ptr) = {}
    BY <2>1 DEF Range
  <2>3. SearchTypeOK
    BY <2>1, <2>2, MemoryAssumption DEF SearchTypeOK, Searching, Tagged
  <2>4. Segment /\ Passed /\ Closed /\ Covered /\ Whole
    BY <2>1 DEF Segment, Passed, Closed, Covered, Whole
  <2>5. QED
    BY <2>3, <2>4 DEF SearchInv
<1>2. SearchInv /\ [Next]_vars => SearchInv'
  BY BeginSearches, FindSearches, PassSearches, StartSearches, LookSearches, AgainSearches,
     EndSearches, ScanEnds, MoreSearches, ReleaseSearches, OthersSearch, SearchStutter DEF Next
<1>3. QED
  BY <1>1, <1>2, PTL DEF Spec

\* _find_largest_segment finds the largest run of adjacent blocks there is, whatever blocks
\* the page allocator handed out, in whatever order, and however many calls it takes; the
\* blocks of a whole segment are those that will be kept.
THEOREM LargestFoundCorrect == Spec => []LargestFound
<1>1. SearchInv => LargestFound
  <2> SUFFICES ASSUME SearchInv PROVE LargestFound
    OBVIOUS
  <2>1. ASSUME pc = "release", seg_size >= ReqBlocks PROVE Kept = Run(seg_begin, seg_size)
    <3>1. tag \in Seq(0 .. 3) /\ Len(tag) = Len(blk_ptr)
      BY <2>1 DEF SearchInv, SearchTypeOK, Tagged
    <3>2. DOMAIN tag = 1 .. Len(blk_ptr)
      BY <3>1, LenProperties
    <3>3. Kept = WithTag(Largest)
      BY <3>2 DEF Kept, WithTag
    <3>4. QED
      BY <2>1, <3>3 DEF SearchInv, Whole
  <2>2. QED
    BY <2>1 DEF SearchInv, Whole, LargestFound
<1>2. QED
  BY <1>1, SearchInvariant, PTL

-----------------------------------------------------------------------------
(* The pool in the memory.                                                 *)

\* The steps of the search leave the pool, the memory and the mappings alone.
LEMMA SearchAlone ==
    ASSUME SearchInv,
           FindLargest \/ PassBlock \/ StartSegment \/ Look \/ LookAgain \/ EndSegment \/ EndScan
    PROVE  /\ UNCHANGED <<poolvars, memory, pages, blk_ptr>>
           /\ pc \in {"find", "scan", "grow"} /\ pc' \in {"scan", "grow", "more", "release"}
BY DEF FindLargest, PassBlock, StartSegment, Look, LookAgain, EndSegment, EndScan, dseg

\* A pool that starts and ends at cache lines has all of its memory.
LEMMA CreateEnds ==
    ASSUME NEW base \in Nat, NEW size \in Nat, base % Line = 0, size % Line = 0, Create(base, size)
    PROVE  /\ nodes' # <<>> /\ nodes'[1].address = base
           /\ nodes'[Len(nodes')].address = base + size
<1>1. \A x \in Nat : x % Line = 0 => RoundUp(x) = x /\ RoundDown(x) = x
  <2> SUFFICES ASSUME NEW x \in Nat, x % Line = 0 PROVE RoundUp(x) = x /\ RoundDown(x) = x
    OBVIOUS
  <2>1. Line \in Nat \ {0}
    BY PoolAssumption
  <2>2. (Line * 1) % Line = 0
    BY Multiple
  <2>3. Line - (x % Line) = Line * 1
    BY <2>1
  <2>4. (Line - (x % Line)) % Line = 0
    BY <2>2, <2>3
  <2>5. QED
    BY <2>4 DEF RoundUp, RoundDown
<1>2. RoundUp(base) = base /\ size - (base - base) = size /\ RoundDown(size) = size
  BY <1>1
<1>3. nodes' = <<Node(base, 0), Node(base + size, 0)>>
  BY <1>2 DEF Create
<1>4. QED
  BY <1>3 DEF Node

\* Blocks are multiples of the cache line.
LEMMA BlockLines ==
    /\ BlockBytes \in Nat \ {0} /\ Line \in Nat \ {0} /\ BlockBytes >= Line
    /\ \E q \in Int : BlockBytes = Line * q
<1>1. BlockBytes \in Nat \ {0} /\ BlockBytes % Line = 0 /\ Line \in Nat \ {0}
  BY PoolAssumption, MemoryAssumption
<1>2. \A x \in Int : \E q \in Int : x = Line * q + (x % Line)
  BY Multiple, Zenon
<1>3. BlockBytes \in Int
  BY <1>1
<1>4. PICK q \in Int : BlockBytes = Line * q + (BlockBytes % Line)
  BY <1>2, <1>3, Zenon
<1>5. BlockBytes = Line * q
  BY <1>1, <1>4
<1>6. q >= 1
  BY <1>1, <1>5
<1>7. BlockBytes >= Line
  BY <1>1, <1>5, <1>6
<1>8. QED
  BY <1>1, <1>5, <1>7

\* The memory starts and ends at cache lines.
LEMMA WholeLines ==
    ASSUME NEW n \in Nat
    PROVE  n * BlockBytes \in Nat /\ (n * BlockBytes) % Line = 0
<1>1. BlockBytes \in Nat /\ Line \in Nat
  BY BlockLines
<1>2. PICK q \in Int : BlockBytes = Line * q
  BY BlockLines
<1>3. n * BlockBytes = Line * (q * n) /\ q * n \in Int
  BY <1>1, <1>2
<1>4. n * BlockBytes \in Nat
  BY <1>1
<1>5. QED
  BY <1>3, <1>4, Multiple

\* The pool is made in memory that was mapped, and gone before the memory is.
LEMMA PoolPlacedStep == SearchInv /\ PoolPlaced /\ [Next]_vars => PoolPlaced'
<1> SUFFICES ASSUME SearchInv, PoolPlaced, [Next]_vars PROVE PoolPlaced'
  OBVIOUS
<1>0. PoolInv /\ vbase \in Nat
  BY DEF PoolPlaced
<1>1. CASE Begin
  <2>1. pc = "idle" /\ pc' = "find" /\ vbase = 0 /\ UNCHANGED poolvars /\ vbase' = vbase
    BY <1>1 DEF Begin, memory
  <2>2. nodes = <<>> /\ nodes' = <<>>
    BY <2>1 DEF PoolPlaced, poolvars
  <2>3. PoolInv'
    BY <1>0, <2>1, PoolStutter
  <2>4. QED
    BY <2>1, <2>2, <2>3 DEF PoolPlaced
<1>2. CASE FindLargest \/ PassBlock \/ StartSegment \/ Look \/ LookAgain \/ EndSegment \/ EndScan
  <2>1. /\ UNCHANGED poolvars /\ nodes' = nodes /\ vbase' = vbase
        /\ pc \in {"find", "scan", "grow"} /\ pc' \in {"scan", "grow", "more", "release"}
    BY <1>2, SearchAlone DEF poolvars, memory
  <2>2. nodes = <<>> /\ vbase = 0
    BY <2>1 DEF PoolPlaced, Searching
  <2>3. PoolInv'
    BY <1>0, <2>1, PoolStutter
  <2>4. QED
    BY <2>1, <2>2, <2>3 DEF PoolPlaced
<1>3. CASE MoreMemory
  <2>1. pc = "more" /\ pc' \in {"find", "release"} /\ UNCHANGED poolvars /\ nodes' = nodes /\ vbase' = vbase
    BY <1>3 DEF MoreMemory, memory, poolvars
  <2>2. nodes = <<>> /\ vbase = 0
    BY <2>1 DEF PoolPlaced, Searching
  <2>3. PoolInv'
    BY <1>0, <2>1, PoolStutter
  <2>4. QED
    BY <2>1, <2>2, <2>3 DEF PoolPlaced
<1>4. CASE Release
  <2>1. /\ pc = "release" /\ UNCHANGED poolvars /\ nodes' = nodes
        /\ \/ pc' = "map" /\ vbase' = seg_begin /\ seg_begin # 0
           \/ pc' = "idle" /\ vbase' = 0
    BY <1>4 DEF Release, poolvars
  <2>2. nodes = <<>> /\ seg_begin \in Nat
    BY <2>1, MemoryAssumption DEF PoolPlaced, SearchInv, SearchTypeOK
  <2>3. PoolInv'
    BY <1>0, <2>1, PoolStutter
  <2>4. vbase' \in Nat /\ pc' \in {"map", "idle"} /\ (pc' = "map" => vbase' # 0)
    BY <2>1, <2>2
  <2>5. QED
    BY <2>1, <2>2, <2>3, <2>4 DEF PoolPlaced, Searching
<1>5. CASE Map
  <2>1. /\ pc = "map" /\ UNCHANGED poolvars /\ nodes' = nodes
        /\ \/ pc' = "idle" /\ vbase' = 0
           \/ pc' = "pool" /\ vbase' = vbase
    BY <1>5 DEF Map, poolvars
  <2>2. nodes = <<>> /\ vbase # 0
    BY <2>1 DEF PoolPlaced
  <2>3. PoolInv'
    BY <1>0, <2>1, PoolStutter
  <2>4. vbase' \in Nat /\ pc' \in {"pool", "idle"} /\ (pc' = "pool" => vbase' # 0)
    BY <1>0, <2>1, <2>2
  <2>5. QED
    BY <2>1, <2>2, <2>3, <2>4 DEF PoolPlaced, Searching
<1>6. CASE MakePool
  <2>1. pc = "pool" /\ pc' = "idle" /\ vbase' = vbase
    BY <1>6 DEF MakePool
  <2>2. nodes = <<>> /\ vbase # 0
    BY <2>1 DEF PoolPlaced
  <2>3. CASE boot
    <3>1. Create(vbase * BlockBytes, ReqBlocks * BlockBytes)
      BY <1>6, <2>3 DEF MakePool
    <3> DEFINE base == vbase * BlockBytes
               size == ReqBlocks * BlockBytes
    <3>2. base \in Nat /\ size \in Nat /\ base % Line = 0 /\ size % Line = 0
      BY <1>0, WholeLines, MemoryAssumption
    <3>3. size >= Line
      <4>1. BlockBytes \in Nat \ {0} /\ ReqBlocks \in Nat \ {0} /\ Line \in Nat \ {0}
        BY PoolAssumption, MemoryAssumption
      <4>2. BlockBytes >= Line
        BY BlockLines
      <4>3. size >= BlockBytes
        BY <4>1
      <4>4. QED
        BY <4>1, <4>2, <4>3, <3>2
    <3>4. base + size = (vbase + ReqBlocks) * BlockBytes
      BY <1>0, MemoryAssumption
    <3> HIDE DEF base, size
    <3>5. Create(base, size)
      BY <3>1 DEF base, size
    <3>6. PoolInv'
      BY <1>0, <2>2, <3>2, <3>3, <3>5, CreateStep
    <3>7. /\ nodes' # <<>> /\ nodes'[1].address = base
          /\ nodes'[Len(nodes')].address = base + size
      BY <3>2, <3>5, CreateEnds
    <3>8. QED
      BY <1>0, <2>1, <2>2, <3>4, <3>6, <3>7 DEF PoolPlaced, Searching, base
  <2>4. CASE ~boot
    <3>1. UNCHANGED poolvars /\ nodes' = nodes
      BY <1>6, <2>4 DEF MakePool, poolvars
    <3>2. PoolInv'
      BY <1>0, <3>1, PoolStutter
    <3>3. QED
      BY <1>0, <2>1, <2>2, <3>1, <3>2 DEF PoolPlaced, Searching
  <2>5. QED
    BY <2>3, <2>4
<1>7. CASE Salloc \/ Sfree
  <2>1. pc = "idle" /\ pc' = "idle" /\ vbase' = vbase
    BY <1>7 DEF Salloc, Sfree, memory
  <2>2. PoolInv' /\ EndsKept
    <3>1. CASE Salloc
      BY <1>0, <3>1, AllocStep DEF Salloc
    <3>2. CASE Sfree
      BY <1>0, <3>2, FreeStep DEF Sfree
    <3>3. QED
      BY <1>7, <3>1, <3>2
  <2>3. QED
    BY <1>0, <2>1, <2>2 DEF PoolPlaced, Searching, EndsKept
<1>8. CASE Reload
  <2>1. pc = "idle" /\ pc' = "idle" /\ vbase' = 0
    BY <1>8 DEF Reload
  <2>2. nodes' = <<>> /\ PoolInv'
    <3>1. CASE vbase # 0
      <4>1. Destroy
        BY <1>8, <3>1 DEF Reload
      <4>2. QED
        BY <4>1, DestroyStep DEF Destroy
    <3>2. CASE vbase = 0
      <4>1. UNCHANGED poolvars /\ nodes' = nodes
        BY <1>8, <3>2 DEF Reload, poolvars
      <4>2. nodes = <<>>
        BY <3>2 DEF PoolPlaced
      <4>3. QED
        BY <1>0, <4>1, <4>2, PoolStutter
    <3>3. QED
      BY <3>1, <3>2
  <2>3. QED
    BY <2>1, <2>2 DEF PoolPlaced, Searching
<1>9. CASE UNCHANGED vars
  <2>1. UNCHANGED poolvars /\ nodes' = nodes /\ vbase' = vbase /\ pc' = pc
    BY <1>9 DEF vars, memory, poolvars
  <2>2. PoolInv'
    BY <1>0, <2>1, PoolStutter
  <2>3. QED
    BY <2>1, <2>2 DEF PoolPlaced, Searching
<1>10. QED
  BY <1>1, <1>2, <1>3, <1>4, <1>5, <1>6, <1>7, <1>8, <1>9 DEF Next

\* PoolPlaced is inductive, beside SearchInv.
LEMMA PoolPlacedInvariant == Spec => []PoolPlaced
<1>1. Init => PoolPlaced
  <2> SUFFICES ASSUME Init PROVE PoolPlaced
    OBVIOUS
  <2>1. nodes = <<>> /\ held = {} /\ pc = "idle" /\ vbase = 0
    BY DEF Init, PoolInit
  <2>2. PoolInv
    BY <2>1, EmptyPool
  <2>3. QED
    BY <2>1, <2>2 DEF PoolPlaced, Searching
<1>2. QED
  BY <1>1, PoolPlacedStep, SearchInvariant, PTL DEF Spec

\* In the memory that the module found, too, the blocks of callers stay apart and inside of
\* it, and the list has these and no other.
THEOREM PoolInMemoryCorrect == Spec => [](BlocksApart /\ NothingLost)
<1>1. PoolPlaced => BlocksApart /\ NothingLost
  BY ApartInPool DEF PoolPlaced, PoolInv
<1>2. QED
  BY <1>1, PoolPlacedInvariant, PTL

\* An empty list means that no caller has a block.
LEMMA NoPoolNoBlocks ==
    ASSUME PoolInv, nodes = <<>>
    PROVE  held = {}
<1>1. Inner = {}
  BY DEF Inner
<1>2. {Node(b.address, RoundUp(b.size)) : b \in held} = {}
  BY <1>1 DEF PoolInv, NothingLost
<1>3. QED
  BY <1>2

\* Where the memory lies, a pool may be.
PoolMayBeHere == (\A a \in Nat : a * BlockBytes \in Bases) /\ ReqBlocks * BlockBytes \in PoolSizes

\* The life of the pool in linux_dma.c is one that mpool.c allows: _dma_init creates one
\* only where there is none, clients allocate and free, and _dma_cleanup destroys what there
\* is, also after lkbde_get_dma_info found memory and made no pool of it.
THEOREM ImplementsPool == PoolMayBeHere => (Spec => PoolSpec)
<1> SUFFICES ASSUME PoolMayBeHere PROVE Spec => PoolSpec
  OBVIOUS
<1>1. Init => PoolInit
  BY DEF Init
<1>2. SearchInv /\ PoolPlaced /\ [Next]_vars => [PoolNext]_poolvars
  <2> SUFFICES ASSUME SearchInv, PoolPlaced, [Next]_vars PROVE [PoolNext]_poolvars
    OBVIOUS
  <2>1. PoolInv /\ vbase \in Nat
    BY DEF PoolPlaced
  <2>2. CASE FindLargest \/ PassBlock \/ StartSegment \/ Look \/ LookAgain \/ EndSegment \/ EndScan
    BY <2>2, SearchAlone
  <2>3. CASE Begin \/ MoreMemory \/ Release \/ Map
    BY <2>3 DEF Begin, MoreMemory, Release, Map
  <2>4. CASE MakePool
    <3>1. nodes = <<>>
      BY <2>4 DEF MakePool, PoolPlaced
    <3>2. CASE boot
      <4>1. Create(vbase * BlockBytes, ReqBlocks * BlockBytes)
        BY <2>4, <3>2 DEF MakePool
      <4>2. vbase * BlockBytes \in Bases /\ ReqBlocks * BlockBytes \in PoolSizes
        BY <2>1 DEF PoolMayBeHere
      <4>3. QED
        BY <3>1, <4>1, <4>2, Zenon DEF PoolNext
    <3>3. CASE ~boot
      BY <2>4, <3>3 DEF MakePool
    <3>4. QED
      BY <3>2, <3>3
  <2>5. CASE Salloc
    BY <2>5 DEF Salloc, PoolNext
  <2>6. CASE Sfree
    BY <2>6 DEF Sfree, PoolNext
  <2>7. CASE Reload
    <3>1. CASE vbase # 0 /\ nodes # <<>>
      BY <2>7, <3>1 DEF Reload, PoolNext
    <3>2. CASE vbase # 0 /\ nodes = <<>>
      <4>1. Destroy
        BY <2>7, <3>2 DEF Reload
      <4>2. held = {}
        BY <2>1, <3>2, NoPoolNoBlocks
      <4>3. QED
        BY <3>2, <4>1, <4>2 DEF Destroy, poolvars
    <3>3. CASE vbase = 0
      BY <2>7, <3>3 DEF Reload
    <3>4. QED
      BY <3>1, <3>2, <3>3
  <2>8. CASE UNCHANGED vars
    BY <2>8 DEF vars
  <2>9. QED
    BY <2>2, <2>3, <2>4, <2>5, <2>6, <2>7, <2>8 DEF Next
<1>3. QED
  BY <1>1, <1>2, SearchInvariant, PoolPlacedInvariant, PTL DEF Spec, PoolSpec

-----------------------------------------------------------------------------
(* What the module has.                                                    *)

\* A first block is there from the start, so a segment as large as any is not at address 0.
LEMMA NotZeroStep == FirstBlockGiven /\ SearchInv /\ NotZero /\ [Next]_vars => NotZero'
<1> SUFFICES ASSUME FirstBlockGiven, SearchInv, NotZero, [Next]_vars PROVE NotZero'
  OBVIOUS
<1> DEFINE L == Len(blk_ptr)
<1>1. /\ L \in Nat /\ seg_size \in 0 .. ReqBlocks /\ ReqBlocks \in Nat \ {0}
      /\ Searching => L >= 1 /\ blk_ptr[1] # 0
      /\ Tagged => tag \in [1 .. L -> 0 .. 3] /\ 0 \notin WithTag(2)
      /\ pc \in {"scan", "grow"} /\ blk > 1 => seg_size >= 1
      /\ \A x \in 1 .. L : blk_ptr[x] \in Nat /\ (blk_ptr[x] = 0 \/ blk_ptr[x] > 1)
  <2>1. Searching => L >= 1
    BY LenProperties, EmptySeq DEF SearchInv, SearchTypeOK
  <2>2. seg_size \in 0 .. ReqBlocks
    BY DEF SearchInv, SearchTypeOK
  <2>3. QED
    BY <2>1, <2>2, Positions, MemoryAssumption DEF SearchInv, NotZero, Largest
<1>2. CASE Begin
  <2>1. pc = "idle" /\ pc' = "find" /\ AllocBlocks(ReqBlocks)
    BY <1>2 DEF Begin
  <2>2. blk_ptr = <<>>
    BY <2>1 DEF SearchInv, SearchTypeOK, Searching
  <2>3. blk_ptr'[1] # 0
    BY <1>1, <2>1, <2>2, NewBlocks DEF SearchInv
  <2>4. QED
    BY <2>1, <2>3 DEF NotZero, Tagged
<1>3. CASE FindLargest
  <2>1. pc = "find" /\ pc' = "scan" /\ blk' = 1 /\ blk_ptr' = blk_ptr /\ tag' = [x \in 1 .. L |-> 0]
    BY <1>3 DEF FindLargest, Untagged
  <2>2. {y \in 1 .. L : tag'[y] = 2} = {}
    BY <2>1
  <2>3. WithTag(2)' = {}
    BY <2>1, <2>2 DEF WithTag
  <2>4. QED
    BY <1>1, <2>1, <2>3 DEF NotZero, Searching, Tagged, Largest
<1>4. CASE PassBlock
  <2>1. /\ pc = "scan" /\ pc' = "scan" /\ tag[blk] # Untagged /\ blk <= L /\ seg_size < ReqBlocks
        /\ UNCHANGED <<blk_ptr, tag, seg_size>>
    BY <1>4 DEF PassBlock, Scanning, dseg
  <2>2. blk \in 1 .. L
    BY <1>1, <2>1 DEF SearchInv, SearchTypeOK
  <2>3. seg_size >= 1
    <3>1. CASE blk > 1
      BY <1>1, <2>1, <3>1
    <3>2. CASE blk = 1
      <4>1. tag[1] \in 0 .. 3 /\ tag[1] # 0 /\ tag[1] # 3
        BY <1>1, <2>1, <2>2, <3>2 DEF SearchInv, Passed, Tagged, Untagged, Current
      <4>2. Settled(1)
        BY <4>1 DEF Settled, Discarded, Largest
      <4>3. blk_ptr[1] \in Blocks /\ blk_ptr[1] \in Nat
        <5>1. blk_ptr \in Seq(Blocks \cup {0})
          BY DEF SearchInv, SearchTypeOK
        <5>2. blk_ptr[1] \in Blocks \cup {0}
          BY <2>2, <3>2, <5>1, ElementOfSeq
        <5>3. QED
          BY <1>1, <2>1, <5>2, MemoryAssumption DEF Searching
      <4>4. Run(blk_ptr[1], 1) = {blk_ptr[1]}
        BY <4>3 DEF Run
      <4>5. blk_ptr[1] \in Range(blk_ptr)
        BY <2>2, <3>2, Positions DEF SearchInv
      <4>6. 1 \in 1 .. ReqBlocks /\ 1 \in 1 .. L
        BY <1>1, <2>2, <3>2
      <4>7. QED
        BY <2>1, <4>2, <4>3, <4>4, <4>5, <4>6 DEF SearchInv, Covered
    <3>3. QED
      BY <2>2, <3>1, <3>2
  <2>4. WithTag(2)' = WithTag(2)
    BY <2>1 DEF WithTag
  <2>5. QED
    BY <1>1, <2>1, <2>3, <2>4 DEF NotZero, Searching, Tagged, Largest
<1>5. CASE StartSegment
  <2>1. /\ pc = "scan" /\ pc' = "grow" /\ tag[blk] = 0 /\ blk <= L
        /\ tag' = [tag EXCEPT ![blk] = 3] /\ UNCHANGED <<blk_ptr, seg_size, blk>>
    BY <1>5 DEF StartSegment, Scanning, Untagged, Current
  <2>2. blk \in 1 .. L
    BY <1>1, <2>1 DEF SearchInv, SearchTypeOK
  <2>3. {y \in 1 .. L : tag'[y] = 2} = {y \in 1 .. L : tag[y] = 2}
    BY <1>1, <2>1, <2>2 DEF Tagged
  <2>4. WithTag(2)' = WithTag(2)
    BY <2>1, <2>3 DEF WithTag
  <2>5. QED
    BY <1>1, <2>1, <2>4 DEF NotZero, Searching, Tagged, Largest
<1>6. CASE Look
  <2>1. /\ pc = "grow" /\ pc' = "grow" /\ look <= L /\ UNCHANGED <<blk_ptr, seg_size, blk>>
        /\ tag' = tag \/ (tag[look] = 0 /\ tag' = [tag EXCEPT ![look] = 3])
    BY <1>6 DEF Look, Looking, Untagged, Current
  <2>2. look \in 1 .. L
    BY <1>1, <2>1 DEF SearchInv, SearchTypeOK
  <2>3. {y \in 1 .. L : tag'[y] = 2} = {y \in 1 .. L : tag[y] = 2}
    BY <1>1, <2>1, <2>2 DEF Tagged
  <2>4. WithTag(2)' = WithTag(2)
    BY <2>1, <2>3 DEF WithTag
  <2>5. QED
    BY <1>1, <2>1, <2>4 DEF NotZero, Searching, Tagged, Largest
<1>7. CASE LookAgain
  <2>1. pc = "grow" /\ pc' = "grow" /\ UNCHANGED <<blk_ptr, tag, seg_size, blk>>
    BY <1>7 DEF LookAgain, dseg
  <2>2. WithTag(2)' = WithTag(2)
    BY <2>1 DEF WithTag
  <2>3. QED
    BY <1>1, <2>1, <2>2 DEF NotZero, Searching, Tagged, Largest
<1>8. CASE EndSegment
  <2> DEFINE n == end - begin
  <2>1. pc = "grow" /\ pc' = "scan" /\ blk_ptr' = blk_ptr
    BY <1>8 DEF EndSegment
  <2>2. /\ blk \in 1 .. L /\ tag \in [1 .. L -> 0 .. 3] /\ DOMAIN tag = 1 .. L
        /\ begin \in Nat /\ end \in Nat /\ begin < end
        /\ WithTag(3) = begin .. end - 1 /\ tag[blk] = 3
    <3>1. WithTag(3) = Run(begin, n) /\ begin \in Nat /\ end \in Nat /\ begin < end /\ tag[blk] = 3
      BY <2>1 DEF SearchInv, Segment, Current
    <3>2. Run(begin, n) = begin .. end - 1
      BY <3>1 DEF Run
    <3>3. tag \in [1 .. L -> 0 .. 3] /\ blk \in 1 .. L
      BY <1>1, <2>1 DEF Tagged, SearchInv, SearchTypeOK
    <3>4. QED
      BY <3>1, <3>2, <3>3
  <2>3. n >= 1 /\ 0 \notin WithTag(2)
    BY <1>1, <2>1, <2>2 DEF Tagged
  <2>4. CASE n > seg_size
    <3>1. /\ seg_size' = n
          /\ tag' = [x \in 1 .. L |-> CASE tag[x] = 3 -> 2 [] tag[x] = 2 -> 1 [] OTHER -> tag[x]]
      BY <2>2, <2>4, <1>8 DEF EndSegment, Current, Largest, Discarded
    <3>2. \A x \in 1 .. L : tag'[x] = 2 <=> tag[x] = 3
      BY <2>2, <3>1
    <3>3. {y \in 1 .. L : tag'[y] = 2} = {y \in 1 .. L : tag[y] = 3}
      BY <3>2
    <3>4. WithTag(2)' = begin .. end - 1
      BY <2>1, <2>2, <3>3 DEF WithTag
    <3>5. ASSUME begin = 0 PROVE FALSE
      <4>1. n >= 2
        <5>1. CASE blk > 1
          BY <1>1, <2>1, <2>2, <2>4, <5>1
        <5>2. CASE blk = 1
          <6>1. blk_ptr[1] \in WithTag(3)
            BY <2>2, <5>2 DEF WithTag
          <6>2. blk_ptr[1] > 1
            BY <1>1, <2>1, <2>2, <5>2 DEF Searching
          <6>3. QED
            BY <2>2, <3>5, <6>1, <6>2
        <5>3. QED
          BY <2>2, <5>1, <5>2
      <4>2. 1 \in WithTag(3)
        BY <2>2, <3>5, <4>1
      <4>3. PICK x \in 1 .. L : blk_ptr[x] = 1
        BY <4>2 DEF WithTag
      <4>4. QED
        BY <1>1, <4>3
    <3>6. 0 \notin WithTag(2)'
      BY <2>2, <3>4, <3>5
    <3>7. QED
      BY <1>1, <2>1, <2>3, <3>1, <3>6 DEF NotZero, Searching, Largest
  <2>5. CASE ~(n > seg_size)
    <3>1. seg_size' = seg_size /\ tag' = [x \in 1 .. L |-> IF tag[x] = 3 THEN 1 ELSE tag[x]]
      BY <2>2, <2>5, <1>8 DEF EndSegment, Current, Discarded
    <3>2. {y \in 1 .. L : tag'[y] = 2} = {y \in 1 .. L : tag[y] = 2}
      BY <2>2, <3>1
    <3>3. WithTag(2)' = WithTag(2)
      BY <2>1, <3>2 DEF WithTag
    <3>4. seg_size' >= 1
      BY <1>1, <2>2, <2>3, <2>5, <3>1
    <3>5. QED
      BY <1>1, <2>1, <2>3, <3>3, <3>4 DEF NotZero, Searching, Largest
  <2>6. QED
    BY <2>4, <2>5
<1>9. CASE EndScan
  <2>1. pc = "scan" /\ pc' \in {"release", "more"} /\ UNCHANGED <<blk_ptr, tag>>
    BY <1>9 DEF EndScan, dseg
  <2>2. WithTag(2)' = WithTag(2)
    BY <2>1 DEF WithTag
  <2>3. QED
    BY <1>1, <2>1, <2>2 DEF NotZero, Searching, Tagged, Largest
<1>10. CASE MoreMemory
  <2>1. pc = "more" /\ pc' \in {"release", "find"}
    BY <1>10, MoreFacts
  <2>2. /\ Len(blk_ptr') \in Nat /\ Len(blk_ptr') >= L
        /\ \A x \in 1 .. L : blk_ptr'[x] = blk_ptr[x] /\ tag'[x] = tag[x]
        /\ \A x \in L + 1 .. Len(blk_ptr') : tag'[x] = 0
    BY <1>10, MoreTags DEF Untagged
  <2>3. blk_ptr'[1] # 0
    BY <1>1, <2>1, <2>2 DEF Searching
  <2>4. \A x \in 1 .. Len(blk_ptr') : tag'[x] = 2 => x \in 1 .. L /\ tag[x] = 2
    BY <1>1, <2>2
  <2>5. 0 \notin WithTag(2)'
    <3> SUFFICES ASSUME NEW x \in 1 .. Len(blk_ptr'), tag'[x] = 2 PROVE blk_ptr'[x] # 0
      BY DEF WithTag
    <3>1. x \in 1 .. L /\ tag[x] = 2 /\ blk_ptr'[x] = blk_ptr[x]
      BY <2>2, <2>4
    <3>2. 0 \notin WithTag(2)
      BY <1>1, <2>1 DEF Tagged
    <3>3. QED
      BY <3>1, <3>2 DEF WithTag
  <2>6. QED
    BY <2>1, <2>3, <2>5 DEF NotZero, Largest
<1>11. CASE Release \/ Map \/ MakePool \/ Salloc \/ Sfree \/ Reload
  <2>1. pc' \in {"idle", "map", "pool"}
    BY <1>11 DEF Release, Map, MakePool, Salloc, Sfree, Reload, SearchInv, SearchTypeOK
  <2>2. QED
    BY <2>1 DEF NotZero, Searching, Tagged
<1>12. CASE UNCHANGED vars
  BY <1>12 DEF vars, dseg, locals, NotZero, Searching, Tagged, WithTag
<1>13. QED
  BY <1>2, <1>3, <1>4, <1>5, <1>6, <1>7, <1>8, <1>9, <1>10, <1>11, <1>12 DEF Next

\* Devices that see the memory where the device before them sees it all see it at one
\* address.
LEMMA SameAddress ==
    ASSUME NEW h \in [1 .. NumDevices -> BusAddresses], NEW m \in 1 .. NumDevices,
           \A d \in 2 .. m : h[d] = h[d - 1]
    PROVE  \A d \in 1 .. m : h[d] = h[1]
<1> DEFINE T == {d \in 1 .. m : h[d] # h[1]}
<1>0. NumDevices \in Nat /\ m \in Nat
  BY MemoryAssumption
<1> SUFFICES ASSUME T # {} PROVE FALSE
  OBVIOUS
<1>1. T \in SUBSET Nat
  BY <1>0
<1>2. PICK k \in T : \A y \in T : k <= y
  <2> HIDE DEF T
  <2>1. QED
    BY <1>1, FirstPosition
<1>3. k \in 2 .. m /\ h[k] # h[1]
  BY <1>0, <1>2
<1>4. k - 1 \in 1 .. m /\ k - 1 \notin T
  BY <1>0, <1>2, <1>3
<1>5. h[k - 1] = h[1]
  BY <1>4
<1>6. QED
  BY <1>3, <1>5

\* Undo leaves no mapping behind.
LEMMA UndoneAll ==
    ASSUME NEW h \in [1 .. NumDevices -> BusAddresses], Differ(h) # {}
    PROVE  Undo(h) = {}
<1> DEFINE k == Min(Differ(h))
<1>0. NumDevices \in Nat
  BY MemoryAssumption
<1>1. Differ(h) \in SUBSET Nat
  BY <1>0 DEF Differ
<1>2. k \in Differ(h) /\ \A y \in Differ(h) : k <= y
  BY <1>1, FirstPosition
<1> HIDE DEF k
<1>3. k \in 2 .. NumDevices
  BY <1>2 DEF Differ
<1>4. \A d \in 2 .. k - 1 : h[d] = h[d - 1]
  <2> SUFFICES ASSUME NEW d \in 2 .. k - 1, h[d] # h[d - 1] PROVE FALSE
    OBVIOUS
  <2>1. d \in Differ(h)
    BY <1>0, <1>3 DEF Differ
  <2>2. QED
    BY <1>2, <1>3, <2>1
<1>5. k - 1 \in 1 .. NumDevices
  BY <1>0, <1>3
<1>6. \A d \in 1 .. k - 1 : h[d] = h[1]
  BY <1>4, <1>5, SameAddress
<1>7. \A d \in 1 .. k - 1 : h[d] = h[k - 1]
  BY <1>3, <1>6
<1>8. \A d \in 1 .. k : d = k \/ d \in 1 .. k - 1
  BY <1>3
<1>9. Undo(h) = {<<d, h[d]>> : d \in 1 .. k}
                  \ ({<<k, h[k]>>} \cup {<<d, h[k - 1]>> : d \in 1 .. k - 1})
  BY DEF Undo, k
<1>10. QED
  BY <1>7, <1>8, <1>9

\* The mappings of devices that all see the memory at one address.
LEMMA MappedAll ==
    ASSUME NEW h \in [1 .. NumDevices -> BusAddresses], Differ(h) = {}, NEW p,
           NumDevices # 0 => p = h[1]
    PROVE  {<<d, h[d]>> : d \in 1 .. NumDevices} = {<<d, p>> : d \in 1 .. NumDevices}
<1>0. NumDevices \in Nat
  BY MemoryAssumption
<1>1. CASE NumDevices = 0
  <2>1. 1 .. NumDevices = {}
    BY <1>1
  <2>2. QED
    BY <2>1
<1>2. CASE NumDevices # 0
  <2>1. NumDevices \in 1 .. NumDevices
    BY <1>0, <1>2
  <2>2. \A d \in 2 .. NumDevices : h[d] = h[d - 1]
    BY DEF Differ
  <2>3. \A d \in 1 .. NumDevices : h[d] = p
    BY <1>2, <2>1, <2>2, SameAddress
  <2>4. QED
    BY <2>3
<1>3. QED
  BY <1>1, <1>2

\* What a search takes it gives back, or it becomes the module's memory; mappings come and go
\* with that.
LEMMA BalancedStep ==
    /\ FirstBlockGiven /\ Below4GB
    /\ SearchInv /\ NotZero /\ PoolPlaced /\ Balanced /\ [Next]_vars
    => Balanced'
<1> SUFFICES ASSUME FirstBlockGiven, Below4GB, SearchInv, NotZero, PoolPlaced, Balanced, [Next]_vars
             PROVE  Balanced'
  OBVIOUS
<1>0. pc \in {"idle", "map", "pool", "find", "scan", "grow", "more", "release"} /\ vbase \in Nat
  BY DEF SearchInv, SearchTypeOK, Searching, PoolPlaced
<1>1. CASE Begin
  <2>1. pc = "idle" /\ pc' = "find" /\ vbase = 0 /\ AllocBlocks(ReqBlocks) /\ UNCHANGED memory
    BY <1>1 DEF Begin
  <2>2. blk_ptr = <<>> /\ pages = {} /\ reserved = {} /\ dma_seg = {} /\ maps = {}
    BY <2>1 DEF SearchInv, SearchTypeOK, Searching, Balanced
  <2>3. Range(blk_ptr) \ {0} = pages
    BY <2>2 DEF Range
  <2>4. Range(blk_ptr') \ {0} = pages'
    BY <2>1, <2>3, NewBlocks, MemoryAssumption DEF SearchInv
  <2>5. QED
    BY <2>1, <2>2, <2>4 DEF Balanced, Searching, memory
<1>2. CASE FindLargest \/ PassBlock \/ StartSegment \/ Look \/ LookAgain \/ EndSegment \/ EndScan
  <2>1. /\ UNCHANGED <<memory, pages, blk_ptr>>
        /\ pc \in {"find", "scan", "grow"} /\ pc' \in {"scan", "grow", "more", "release"}
    BY <1>2, SearchAlone
  <2>2. QED
    BY <2>1 DEF Balanced, Searching, memory
<1>3. CASE MoreMemory
  <2>1. pc = "more" /\ pc' \in {"find", "release"} /\ UNCHANGED memory
    BY <1>3 DEF MoreMemory
  <2>2. UNCHANGED <<blk_ptr, pages>> \/ AllocBlocks(MoreBlocks)
    BY <1>3, MoreFacts
  <2>3. Range(blk_ptr) \ {0} = pages
    BY <2>1 DEF Balanced, Searching
  <2>4. Range(blk_ptr') \ {0} = pages'
    <3>1. CASE UNCHANGED <<blk_ptr, pages>>
      BY <2>3, <3>1
    <3>2. CASE AllocBlocks(MoreBlocks)
      BY <2>3, <3>2, NewBlocks, MemoryAssumption DEF SearchInv
    <3>3. QED
      BY <2>2, <3>1, <3>2
  <2>5. QED
    BY <2>1, <2>4 DEF Balanced, Searching, memory
<1>4. CASE Release
  <2>1. /\ pc = "release" /\ pages = Range(blk_ptr) \ {0} /\ reserved = {} /\ dma_seg = {}
        /\ maps = {} /\ maps' = maps
    BY <1>4 DEF Release, Balanced, Searching
  <2>2. Kept = WithTag(Largest) /\ Kept \subseteq Range(blk_ptr) /\ 0 \notin Kept
    <3>1. tag \in [1 .. Len(blk_ptr) -> 0 .. 3]
      BY <2>1, Positions DEF SearchInv, Tagged
    <3>2. Kept = WithTag(Largest)
      BY <3>1 DEF Kept, WithTag
    <3>3. WithTag(Largest) \subseteq Range(blk_ptr)
      <4>1. Range(blk_ptr) = {blk_ptr[x] : x \in 1 .. Len(blk_ptr)}
        BY Positions DEF SearchInv
      <4>2. QED
        BY <4>1 DEF WithTag
    <3>4. 0 \notin WithTag(Largest)
      BY <2>1 DEF NotZero, Tagged
    <3>5. QED
      BY <3>2, <3>3, <3>4
  <2>3. CASE seg_size >= ReqBlocks
    <3>1. Kept = Run(seg_begin, ReqBlocks)
      BY <2>1, <2>2, <2>3 DEF SearchInv, Whole
    <3>2. seg_begin # 0
      <4>1. seg_begin \in Nat
        BY MemoryAssumption DEF SearchInv, SearchTypeOK
      <4>2. seg_begin \in Run(seg_begin, ReqBlocks)
        BY <4>1, MemoryAssumption DEF Run
      <4>3. QED
        BY <2>2, <3>1, <4>2
    <3>3. /\ pages' = pages \ (Range(blk_ptr) \ Kept)
          /\ reserved' = reserved \cup Kept /\ dma_seg' = dma_seg \cup Kept
          /\ vbase' = seg_begin /\ pc' = "map"
      BY <1>4, <2>3, <3>2 DEF Release
    <3>4. pages' = Kept /\ reserved' = Kept /\ dma_seg' = Kept
      BY <2>1, <2>2, <3>3
    <3>5. QED
      BY <2>1, <3>1, <3>2, <3>3, <3>4 DEF Balanced, Searching, Run
  <2>4. CASE ~(seg_size >= ReqBlocks)
    <3>1. /\ pages' = pages \ (Range(blk_ptr) \ {})
          /\ reserved' = reserved \cup (Kept \cap {0}) /\ dma_seg' = dma_seg
          /\ vbase' = 0 /\ pc' = "idle"
      BY <1>4, <2>4 DEF Release
    <3>2. pages' = {} /\ reserved' = {} /\ dma_seg' = {}
      BY <2>1, <2>2, <3>1
    <3>3. QED
      BY <2>1, <3>1, <3>2 DEF Balanced, Searching
  <2>5. QED
    BY <2>3, <2>4
<1>5. CASE Map
  <2>1. /\ pc = "map" /\ vbase # 0 /\ maps = {} /\ reserved = pages /\ dma_seg = pages
        /\ pages = Run(vbase, ReqBlocks)
    BY <1>5 DEF Map, Balanced, Searching, PoolPlaced
  <2>2. PICK h \in [1 .. NumDevices -> BusAddresses] :
         LET all == {<<d, h[d]>> : d \in 1 .. NumDevices} IN
         \/ /\ Differ(h) # {}
            /\ PgCleanup(maps \cup Undo(h))
            /\ vbase' = 0 /\ pc' = "idle"
         \/ /\ Differ(h) = {}
            /\ pbase' = IF NumDevices = 0 THEN vbase ELSE h[1]
            /\ maps' = maps \cup all
            /\ pc' = "pool"
            /\ UNCHANGED <<pages, reserved, dma_seg, vbase>>
    BY <1>5 DEF Map
  <2>3. CASE Differ(h) # {}
    <3>1. PgCleanup(maps \cup Undo(h)) /\ vbase' = 0 /\ pc' = "idle"
      BY <2>2, <2>3
    <3>2. Undo(h) = {}
      BY <2>3, UndoneAll
    <3>3. maps' = {} /\ pages' = {} /\ reserved' = {} /\ dma_seg' = {}
      BY <2>1, <3>1, <3>2 DEF PgCleanup
    <3>4. QED
      BY <3>1, <3>3 DEF Balanced, Searching
  <2>4. CASE Differ(h) = {}
    <3>1. /\ pbase' = IF NumDevices = 0 THEN vbase ELSE h[1]
          /\ maps' = maps \cup {<<d, h[d]>> : d \in 1 .. NumDevices}
          /\ pc' = "pool" /\ UNCHANGED <<pages, reserved, dma_seg, vbase>>
      BY <2>2, <2>4
    <3>2. {<<d, h[d]>> : d \in 1 .. NumDevices} = {<<d, pbase'>> : d \in 1 .. NumDevices}
      <4>1. NumDevices # 0 => pbase' = h[1]
        BY <3>1
      <4>2. \A p : (NumDevices # 0 => p = h[1]) =>
              {<<d, h[d]>> : d \in 1 .. NumDevices} = {<<d, p>> : d \in 1 .. NumDevices}
        BY <2>4, MappedAll
      <4>3. QED
        BY <4>1, <4>2
    <3>3. maps' = {<<d, pbase'>> : d \in 1 .. NumDevices}
      BY <2>1, <3>1, <3>2
    <3>4. QED
      BY <2>1, <3>1, <3>3 DEF Balanced, Searching, Run
  <2>5. QED
    BY <2>3, <2>4
<1>6. CASE MakePool
  <2>1. /\ pc = "pool" /\ pc' = "idle"
        /\ UNCHANGED <<pages, reserved, dma_seg, vbase, pbase, maps>>
    BY <1>6 DEF MakePool
  <2>2. QED
    BY <2>1 DEF Balanced, Searching, Run
<1>7. CASE Salloc \/ Sfree
  <2>1. pc = "idle" /\ pc' = "idle" /\ UNCHANGED <<pages, memory>>
    BY <1>7 DEF Salloc, Sfree
  <2>2. QED
    BY <2>1 DEF Balanced, Searching, Run, memory
<1>8. CASE Reload
  <2>1. pc = "idle" /\ pc' = "idle" /\ vbase' = 0 /\ pbase' = 0
    BY <1>8 DEF Reload
  <2>2. reserved = pages /\ dma_seg = pages
    BY <2>1 DEF Balanced, Searching
  <2>3. maps' = {} /\ pages' = {} /\ reserved' = {} /\ dma_seg' = {}
    <3>1. CASE vbase # 0
      <4>1. maps = {<<d, pbase>> : d \in 1 .. NumDevices}
        BY <2>1, <3>1 DEF Balanced
      <4>2. PgCleanup(Unmapped(maps, pbase))
        BY <1>8, <3>1 DEF Reload
      <4>3. Unmapped(maps, pbase) = {}
        BY <4>1 DEF Unmapped
      <4>4. QED
        BY <2>2, <4>2, <4>3 DEF PgCleanup
    <3>2. CASE vbase = 0
      <4>1. UNCHANGED <<maps, pages, reserved, dma_seg>>
        BY <1>8, <3>2 DEF Reload
      <4>2. maps = {} /\ pages = {}
        BY <2>1, <3>2 DEF Balanced, Searching
      <4>3. QED
        BY <2>2, <4>1, <4>2
    <3>3. QED
      BY <3>1, <3>2
  <2>4. QED
    BY <2>1, <2>3 DEF Balanced, Searching
<1>9. CASE UNCHANGED vars
  BY <1>9 DEF vars, memory, dseg, Balanced, Searching, Run
<1>10. QED
  BY <1>1, <1>2, <1>3, <1>4, <1>5, <1>6, <1>7, <1>8, <1>9 DEF Next

\* Outside of an allocation the module holds the memory of its pool, all of it allocated,
\* reserved and mapped for every device, and nothing after a failure or _dma_cleanup:
\* provided the page allocator has one block and the bus addresses lie below 4 GB.
THEOREM MemoryBalancedCorrect == FirstBlockGiven /\ Below4GB => (Spec => []MemoryBalanced)
<1> SUFFICES ASSUME FirstBlockGiven /\ Below4GB PROVE Spec => []MemoryBalanced
  OBVIOUS
<1>1. Init => NotZero /\ Balanced
  <2> SUFFICES ASSUME Init PROVE NotZero /\ Balanced
    OBVIOUS
  <2>1. /\ pc = "idle" /\ pages = {} /\ reserved = {} /\ dma_seg = {} /\ vbase = 0 /\ maps = {}
    BY DEF Init
  <2>2. QED
    BY <2>1 DEF NotZero, Balanced, Searching, Tagged
<1>2. SearchInv /\ PoolPlaced /\ NotZero /\ Balanced /\ [Next]_vars => NotZero' /\ Balanced'
  BY NotZeroStep, BalancedStep
<1>3. PoolPlaced /\ Balanced => MemoryBalanced
  <2> SUFFICES ASSUME PoolPlaced, Balanced, pc = "idle"
               PROVE  /\ pages = (IF vbase = 0 THEN {} ELSE Run(vbase, ReqBlocks))
                      /\ reserved = pages /\ dma_seg = pages
                      /\ maps = (IF vbase = 0 THEN {} ELSE {<<d, pbase>> : d \in 1 .. NumDevices})
                      /\ nodes # <<>> => /\ vbase # 0 /\ nodes[1].address = vbase * BlockBytes
                                         /\ nodes[Len(nodes)].address = (vbase + ReqBlocks) * BlockBytes
    BY DEF MemoryBalanced
  <2>1. ~Searching
    BY DEF Searching
  <2>2. /\ pages = (IF vbase = 0 THEN {} ELSE Run(vbase, ReqBlocks))
        /\ reserved = pages /\ dma_seg = pages
    BY <2>1 DEF Balanced
  <2>3. maps = (IF vbase = 0 THEN {} ELSE {<<d, pbase>> : d \in 1 .. NumDevices})
    BY DEF Balanced
  <2>4. QED
    BY <2>2, <2>3 DEF PoolPlaced
<1>4. QED
  BY <1>1, <1>2, <1>3, SearchInvariant, PoolPlacedInvariant, PTL DEF Spec
=============================================================================
