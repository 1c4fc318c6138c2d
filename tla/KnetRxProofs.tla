---------------------------- MODULE KnetRxProofs ----------------------------
(***************************************************************************)
(* Theorems about the Rx ring of KnetRx, for every size of the ring, every *)
(* set of buffers and every length of the API chains.  Those on the ring's *)
(* indices and on the ownership of buffers need Quiet only; those on the   *)
(* engine and on restarts also need Usual.                                 *)
(***************************************************************************)
EXTENDS KnetRx, TLAPS

\* HW_RESET and HW_INIT come when no packet waits in the ring, and neither they nor a second
\* caller of bkn_do_skb_rx come while a packet is given to the network stack.
Quiet == QuietResets /\ ~Overlap

-----------------------------------------------------------------------------
(* Index arithmetic of the ring.                                           *)

\* A slot at a distance of at most the ring's size is a slot.
LEMMA SlotIsSlot ==
    ASSUME NEW i \in Slots, NEW k \in 0 .. MAX_RX_DCBS
    PROVE  Slot(i, k) \in Slots
BY RxAssumption DEF Slots, Slot

\* Going k places and then l places is going k + l places.
LEMMA SlotAdd ==
    ASSUME NEW i \in Slots, NEW k \in 0 .. MAX_RX_DCBS, NEW l \in 0 .. MAX_RX_DCBS,
           k + l =< MAX_RX_DCBS
    PROVE  Slot(Slot(i, k), l) = Slot(i, k + l)
BY RxAssumption DEF Slots, Slot

\* Going nowhere ends where it started; going fewer places than the ring has, somewhere else.
LEMMA SlotSame ==
    ASSUME NEW i \in Slots
    PROVE  /\ Slot(i, 0) = i
           /\ \A j, k \in 0 .. MAX_RX_DCBS - 1 : Slot(i, j) = Slot(i, k) => j = k
BY RxAssumption DEF Slots, Slot

\* The ring is made of the slots from the first one on.
LEMMA SlotsFromZero == 0 \in Slots /\ \A k \in Slots : Slot(0, k) = k
BY RxAssumption DEF Slots, Slot

-----------------------------------------------------------------------------
(* Which slots are posted.                                                 *)

\* dirty, free and cur as RxAccounting relates them.
Indices == dirty \in Slots /\ free \in 0 .. MAX_RX_DCBS /\ cur = Slot(dirty, free)

\* The slot that is taken next is posted if any is.
LEMMA PostedDirty ==
    ASSUME Indices, free > 0
    PROVE  Posted(dirty)
BY RxAssumption DEF Indices, Posted, Ahead, Slots

\* Taking a descriptor takes its slot from the posted ones, and no other.
LEMMA PostedAdvanced ==
    ASSUME Indices, free > 0, dirty' = Slot(dirty, 1), free' = free - 1
    PROVE  \A i \in Slots : Posted(i)' <=> Posted(i) /\ i # dirty
BY RxAssumption DEF Indices, Posted, Ahead, Slots, Slot

\* A refill of k slots adds exactly the k slots from rx.cur on.
LEMMA PostedRefilled ==
    ASSUME Indices, NEW k \in 0 .. Vacant, dirty' = dirty, free' = free + k
    PROVE  /\ \A i \in Slots : Posted(i)' <=> Posted(i) \/ \E j \in 0 .. k - 1 : i = Slot(cur, j)
           /\ \A j \in 0 .. Vacant - 1 : ~Posted(Slot(cur, j))
           /\ \A i \in Slots : ~Posted(i) => \E j \in 0 .. Vacant - 1 : i = Slot(cur, j)
<1> USE RxAssumption DEF Indices, Vacant, Slots
<1>1. \A j \in 0 .. Vacant - 1 : Slot(cur, j) \in Slots /\ Ahead(Slot(cur, j)) = free + j
    BY DEF Ahead, Slot
<1>2. ASSUME NEW i \in Slots, ~Posted(i) PROVE i = Slot(cur, Ahead(i) - free)
    BY <1>2 DEF Posted, Ahead, Slot
<1>3. \A i \in Slots : Ahead(i) \in 0 .. MAX_RX_DCBS - 1
    BY DEF Ahead
<1>4. \A i \in Slots : Ahead(i)' = Ahead(i)
    BY DEF Ahead
<1> QED BY <1>1, <1>2, <1>3, <1>4 DEF Posted

\* After a reset k slots from the first one on are posted.
LEMMA PostedFromZero ==
    ASSUME NEW k \in 0 .. MAX_RX_DCBS, dirty' = 0, free' = k
    PROVE  \A i \in Slots : Posted(i)' <=> i < k
BY RxAssumption DEF Posted, Ahead, Slots

\* A step that leaves rx.dirty and rx.free alone leaves what is posted alone.
LEMMA PostedSame ==
    ASSUME dirty' = dirty, free' = free
    PROVE  \A i \in Slots : Posted(i)' <=> Posted(i)
BY DEF Posted, Ahead

-----------------------------------------------------------------------------
(* The inductive invariant of the ring.                                    *)

\* The whole ring is posted from its first slot on and no descriptor was taken.
Fresh == dirty = 0 /\ free = MAX_RX_DCBS

\* The types of the places of a caller (TypeOK).
Places == [at : {"away", "rx", "out", "chain"}, chain : BOOLEAN, slot : Slots,
           n : 0 .. MAX_RX_DCBS, retry : BOOLEAN]

\* Where a caller of bkn_do_skb_rx is: it takes descriptors of a running channel only, no
\* more than were posted, and a packet it gives to the stack is the one at rx.dirty.
Place(r) ==
    /\ r.at = "away" => r = Away
    /\ r.at \in {"rx", "out"} => running
    /\ r.at = "chain" => r.n = 0
    /\ r.n + free =< MAX_RX_DCBS
    /\ r.at = "out" => r.slot = dirty /\ done[dirty]
    /\ r.retry => ~Fresh

\* One caller at a time, since the lock stays with it during the call to the stack.
Called ==
    /\ \A c, d \in Callers : ctx[c].at # "away" /\ ctx[d].at # "away" => c = d
    /\ \A c \in Callers : Place(ctx[c])

\* A channel starts at the first slot, or after a reset at rx.dirty, and ends at the last:
\* descriptor 0 is done only between the start of a whole ring and its being taken.
Wrap ==
    /\ free = MAX_RX_DCBS => running
    /\ Fresh => (hw = 0 <=> ~done[0])
    /\ ~Fresh => ~done[0] /\ hw # 0
    /\ running /\ dirty # 0 => free >= MAX_RX_DCBS - dirty
    /\ running /\ chain_complete => ~Fresh

\* Chain bits lead to every posted slot but the first one, and never out of the ring.
Chains ==
    /\ ~chained[MAX_RX_DCBS - 1]
    /\ \A i \in Slots : i # 0 /\ Posted(i) => chained[i - 1]
    /\ late => hw # Halted

\* An interrupt that has read the chain-done bit comes after the end of the chain, and
\* takes at least one packet before bkn_rx_chain_done.
Status ==
    /\ chain_done => desc_done \/ ctx["irq"].chain
    /\ Fresh /\ hw = 0 => ~chain_done /\ ~ctx["irq"].chain
    /\ ctx["irq"].at = "chain" /\ ctx["irq"].chain /\ ~api_wait => ~Fresh

\* Posted slots have a buffer.
PostedBufs == \A i \in Slots : Posted(i) => skb[i] # NoBuf

RingInv == TypeOK /\ RxAccounting /\ Called /\ Wrap /\ Chains /\ Status /\ PostedBufs

\* A caller that is not in bkn_do_skb_rx.
LEMMA AwayFacts ==
    /\ Away \in Places
    /\ Away.at = "away" /\ Away.chain = FALSE /\ Away.n = 0 /\ Away.retry = FALSE
    /\ free \in 0 .. MAX_RX_DCBS => Place(Away)
<1>1. 0 \in Slots /\ 0 \in 0 .. MAX_RX_DCBS
    BY RxAssumption DEF Slots
<1>2. /\ Away.at = "away" /\ Away.chain = FALSE /\ Away.n = 0 /\ Away.retry = FALSE
    BY DEF Away
<1>3. free \in 0 .. MAX_RX_DCBS => Place(Away)
    BY <1>2, RxAssumption DEF Place
<1>4. Away \in Places
    BY <1>1 DEF Away, Places
<1> QED BY <1>2, <1>3, <1>4

LEMMA InitRing == Init => RingInv
<1> SUFFICES ASSUME Init PROVE RingInv
    OBVIOUS
<1> USE RxAssumption DEF Init
<1>1. 0 \in Slots /\ MAX_RX_DCBS - 1 \in Slots /\ 0 # MAX_RX_DCBS
    BY DEF Slots
<1>2. TypeOK
    <2>1. ctx \in [Callers -> Places]
        BY AwayFacts
    <2>2. /\ free \in 0 .. MAX_RX_DCBS /\ cur \in Slots /\ dirty \in Slots
          /\ api_left \in 0 .. ApiChainLen /\ api_queued \in 0 .. MaxApiChains
          /\ rx_chans \in {0, 1} /\ hw \in Slots \union {Halted} /\ resets \in 0 .. MaxResets
        BY <1>1
    <2>3. /\ skb \in [Slots -> Bufs \union {NoBuf}]
          /\ done \in [Slots -> BOOLEAN] /\ chained \in [Slots -> BOOLEAN]
        OBVIOUS
    <2>4. stack \in SUBSET Bufs /\ twice \in BOOLEAN
        OBVIOUS
    <2> QED BY <2>1, <2>2, <2>3, <2>4 DEF TypeOK, Places
<1>3. RxAccounting
    BY DEF RxAccounting, Slot
<1>4. Called
    <2>1. \A c \in Callers : ctx[c] = Away
        OBVIOUS
    <2> QED BY <2>1, AwayFacts DEF Called
<1>5. Wrap /\ Chains /\ Status
    BY <1>1 DEF Wrap, Chains, Status, Fresh, Halted, Away, Posted, Ahead, Callers, Slots
<1>6. PostedBufs
    BY DEF PostedBufs, Posted, Ahead, Slots
<1> QED BY <1>2, <1>3, <1>4, <1>5, <1>6 DEF RingInv

-----------------------------------------------------------------------------
(* What the parts of a step do to the ring.                                *)

LEMMA RingIndices ==
    ASSUME RingInv
    PROVE  Indices /\ MAX_RX_DCBS - 1 \in Slots /\ 0 \in Slots
BY RxAssumption DEF RingInv, TypeOK, RxAccounting, Indices, Slots

\* bkn_do_skb_rx only takes descriptors that were posted.
LEMMA TakenPosted ==
    ASSUME RingInv, running, done[dirty]
    PROVE  free \in 1 .. MAX_RX_DCBS
BY RxAssumption DEF RingInv, TypeOK, Wrap, Fresh, Slots

\* A descriptor of a running channel is taken.
LEMMA AdvanceStep ==
    ASSUME RingInv, running, done[dirty], Advance(dirty),
           UNCHANGED <<cur, chained, running, hw, late>>
    PROVE  /\ free \in 1 .. MAX_RX_DCBS /\ free' = free - 1 /\ free' \in 0 .. MAX_RX_DCBS
           /\ dirty' \in Slots /\ done' \in [Slots -> BOOLEAN]
           /\ RxAccounting' /\ Wrap' /\ Chains' /\ ~Fresh'
           /\ \A i \in Slots : Posted(i)' <=> Posted(i) /\ i # dirty
<1> USE RxAssumption
<1>1. free \in 1 .. MAX_RX_DCBS /\ dirty \in Slots /\ cur = Slot(dirty, free) /\ 0 \in Slots
    BY TakenPosted, RingIndices DEF Indices
<1>2. /\ free' = free - 1 /\ dirty' = Slot(dirty, 1) /\ dirty' \in Slots
      /\ done' = [done EXCEPT ![dirty] = FALSE] /\ done' \in [Slots -> BOOLEAN]
    BY <1>1, SlotIsSlot DEF Advance, RingInv, TypeOK
<1>3. \A i \in Slots : Posted(i)' <=> Posted(i) /\ i # dirty
    BY <1>1, <1>2, PostedAdvanced DEF Indices
<1>4. RxAccounting'
    <2>1. Slot(Slot(dirty, 1), free - 1) = Slot(dirty, 1 + (free - 1))
        BY <1>1, SlotAdd
    <2> QED BY <2>1, <1>1, <1>2 DEF RxAccounting, Slot
<1>5. Chains'
    BY <1>3 DEF Chains, RingInv
<1>6. ~Fresh' /\ free' < MAX_RX_DCBS
    BY <1>1, <1>2 DEF Fresh
<1>7. done'[0] = FALSE /\ hw' # 0
    <2>1. CASE dirty = 0
        <3>1. Fresh
            BY <2>1 DEF RingInv, Wrap
        <3> QED BY <3>1, <2>1, <1>2 DEF RingInv, Wrap, TypeOK
    <2>2. CASE dirty # 0
        BY <2>2, <1>1, <1>2 DEF RingInv, Wrap, TypeOK, Fresh
    <2> QED BY <2>1, <2>2
<1>8. dirty' # 0 => free' >= MAX_RX_DCBS - dirty'
    <2>1. dirty # 0 => free >= MAX_RX_DCBS - dirty
        BY DEF RingInv, Wrap
    <2>2. dirty = 0 => free = MAX_RX_DCBS
        BY DEF RingInv, Wrap, Fresh
    <2> QED BY <2>1, <2>2, <1>1, <1>2 DEF Slot, Slots
<1>9. Wrap'
    BY <1>6, <1>7, <1>8 DEF Wrap
<1> QED BY <1>1, <1>2, <1>3, <1>4, <1>5, <1>6, <1>9

\* bkn_do_skb_rx has found the next descriptor done: the chain is complete if it is the last.
LEMMA MarkStep ==
    ASSUME RingInv, running, done[dirty], MarkComplete
    PROVE  chain_complete' \in BOOLEAN /\ (chain_complete' => ~Fresh)
<1>1. chain_complete \in BOOLEAN
    BY DEF RingInv, TypeOK
<1>2. Fresh => chained[dirty]
    <2> SUFFICES ASSUME Fresh PROVE chained[0]
        BY DEF Fresh
    <2>1. 1 \in Slots /\ Posted(1)
        BY RxAssumption DEF Fresh, Slots, Posted, Ahead
    <2> QED BY <2>1, RxAssumption DEF RingInv, Chains
<1>3. chain_complete => ~Fresh
    BY DEF RingInv, Wrap
<1> QED BY <1>1, <1>2, <1>3 DEF MarkComplete

\* What bkn_rx_refill leaves in the slots: those it posts have a buffer that is not used
\* elsewhere or the one they had, the others keep theirs or lose it.
LEMMA RefilledFacts ==
    ASSUME NEW kept \in [Slots -> Bufs \union {NoBuf}], NEW from \in Slots,
           NEW limit \in 0 .. MAX_RX_DCBS, NEW k \in 0 .. limit,
           NEW f \in Refilled(kept, from, k, limit)
    PROVE  /\ f \in [Slots -> Bufs \union {NoBuf}]
           /\ \A j \in 0 .. k - 1 : f[Slot(from, j)] # NoBuf
           /\ \A i \in Slots : \/ f[i] = kept[i] \/ f[i] = NoBuf
                               \/ /\ kept[i] = NoBuf /\ f[i] \in Bufs /\ f[i] \notin stack
                                  /\ \A j \in Slots : f[i] # kept[j]
           /\ \A i \in Slots : (\A j \in 0 .. limit - 1 : i # Slot(from, j)) => f[i] = kept[i]
           /\ \A i, j \in Slots : /\ i # j /\ f[i] = f[j] /\ f[i] # NoBuf
                                  => kept[i] = kept[j] /\ kept[i] = f[i]
<1> DEFINE new == {Slot(from, j) : j \in 0 .. k - 1}
           failed == IF k < limit THEN {Slot(from, k)} ELSE {}
           available == Bufs \ (stack \union {kept[i] : i \in Slots})
<1>1. /\ f \in [Slots -> Bufs \union {NoBuf}]
      /\ \A i \in Slots : IF i \in new /\ kept[i] = NoBuf THEN f[i] \in available
                          ELSE f[i] = kept[i] \/ (i \in failed /\ f[i] = NoBuf)
      /\ \A i, j \in new : i # j => f[i] # f[j]
    BY DEF Refilled
<1>2. \A j \in 0 .. k - 1 : Slot(from, j) \in Slots /\ Slot(from, j) \in new
    BY SlotIsSlot, RxAssumption
<1>3. \A i \in new : i \notin failed
    BY SlotSame, RxAssumption
<1>4. \A b \in available : b \in Bufs /\ b # NoBuf /\ b \notin stack /\ \A j \in Slots : b # kept[j]
    BY RxAssumption
<1>5. \A i \in Slots : i \in new \union failed => \E j \in 0 .. limit - 1 : i = Slot(from, j)
    BY RxAssumption
<1> HIDE DEF new, failed, available
<1>6. \A j \in 0 .. k - 1 : f[Slot(from, j)] # NoBuf
    BY <1>1, <1>2, <1>3, <1>4
<1>7. \A i \in Slots : \/ f[i] = kept[i] \/ f[i] = NoBuf
                       \/ /\ i \in new /\ kept[i] = NoBuf /\ f[i] \in available
    BY <1>1
<1>8. \A i \in Slots : (\A j \in 0 .. limit - 1 : i # Slot(from, j)) => f[i] = kept[i]
    BY <1>1, <1>5
<1>9. ASSUME NEW i \in Slots, NEW j \in Slots, i # j, f[i] = f[j], f[i] # NoBuf
      PROVE  kept[i] = kept[j] /\ kept[i] = f[i]
    <2>1. CASE f[i] = kept[i] /\ f[j] = kept[j]
        BY <2>1, <1>9
    <2>2. CASE f[i] # kept[i]
        BY <2>2, <1>9, <1>7, <1>4, <1>1
    <2>3. CASE f[j] # kept[j]
        BY <2>3, <1>9, <1>7, <1>4, <1>1
    <2> QED BY <2>1, <2>2, <2>3
<1>10. \A i \in Slots : \/ f[i] = kept[i] \/ f[i] = NoBuf
                        \/ /\ kept[i] = NoBuf /\ f[i] \in Bufs /\ f[i] \notin stack
                           /\ \A j \in Slots : f[i] # kept[j]
    BY <1>4, <1>7
<1> QED BY <1>1, <1>6, <1>8, <1>9, <1>10

\* bkn_rx_refill and bkn_rx_restart, of a channel that is not Fresh.
LEMMA RestartStep ==
    ASSUME RingInv, NEW started \in BOOLEAN, RefillAndRestart(started), ~Fresh,
           UNCHANGED <<dirty, done>>, chain_complete' \in BOOLEAN, started => ~chain_complete',
           ~started => UNCHANGED <<hw, late, desc_done>>
    PROVE  /\ free' \in 0 .. MAX_RX_DCBS /\ cur' \in Slots /\ running' \in BOOLEAN
           /\ skb' \in [Slots -> Bufs \union {NoBuf}] /\ chained' \in [Slots -> BOOLEAN]
           /\ hw' \in Slots \union {Halted} /\ late' \in BOOLEAN /\ desc_done' \in BOOLEAN
           /\ RxAccounting' /\ Wrap' /\ Chains' /\ PostedBufs'
           /\ started => ~chain_done' /\ ~desc_done'
           /\ ~started => ~Fresh'
<1> USE RxAssumption
<1>1. PICK k \in 0 .. Vacant :
          /\ skb' \in Refilled(skb, cur, k, Vacant)
          /\ chained' = ChainBits(cur, k, chained)
          /\ free' = free + k
          /\ cur' = Slot(cur, k)
          /\ started = Enough(free + k)
          /\ started => StartChannel(dirty)
          /\ running' = started
    BY DEF RefillAndRestart
<1>2. /\ free \in 0 .. MAX_RX_DCBS /\ cur \in Slots /\ dirty \in Slots /\ dirty' = dirty
      /\ skb \in [Slots -> Bufs \union {NoBuf}] /\ chained \in [Slots -> BOOLEAN]
      /\ done' = done /\ hw \in Slots \union {Halted} /\ late \in BOOLEAN /\ desc_done \in BOOLEAN
    BY DEF RingInv, TypeOK
<1>3. k \in 0 .. MAX_RX_DCBS - free /\ Vacant \in 0 .. MAX_RX_DCBS /\ cur = Slot(dirty, free)
    BY <1>2 DEF Vacant, RingInv, RxAccounting
<1>4. free' \in 0 .. MAX_RX_DCBS /\ cur' \in Slots
    BY <1>1, <1>2, <1>3, SlotIsSlot
<1>5. RxAccounting'
    <2>1. Slot(Slot(dirty, free), k) = Slot(dirty, free + k)
        BY <1>2, <1>3, SlotAdd
    <2> QED BY <2>1, <1>1, <1>2, <1>3 DEF RxAccounting, Slot
<1>6. /\ \A i \in Slots : Posted(i)' <=> Posted(i) \/ \E j \in 0 .. k - 1 : i = Slot(cur, j)
      /\ \A j \in 0 .. Vacant - 1 : ~Posted(Slot(cur, j))
    BY <1>1, <1>2, <1>3, PostedRefilled DEF Indices
<1>7. /\ skb' \in [Slots -> Bufs \union {NoBuf}]
      /\ \A j \in 0 .. k - 1 : skb'[Slot(cur, j)] # NoBuf
      /\ \A i \in Slots : (\A j \in 0 .. Vacant - 1 : i # Slot(cur, j)) => skb'[i] = skb[i]
    BY <1>1, <1>2, <1>3, RefilledFacts
<1>8. PostedBufs'
    BY <1>6, <1>7 DEF PostedBufs, RingInv
<1>9. /\ chained' \in [Slots -> BOOLEAN]
      /\ \A i \in Slots : chained'[i] <=> chained[i] \/ \E j \in 0 .. k - 1 : i + 1 = Slot(cur, j)
    BY <1>1, <1>2 DEF ChainBits
<1>10. hw' \in Slots \union {Halted} /\ late' \in BOOLEAN /\ desc_done' \in BOOLEAN
       /\ (late' => hw' # Halted)
    <2>1. CASE started
        BY <2>1, <1>1, <1>2 DEF StartChannel
    <2>2. CASE ~started
        BY <2>2, <1>2 DEF RingInv, Chains
    <2> QED BY <2>1, <2>2
<1>11. Chains'
    <2>1. MAX_RX_DCBS - 1 \in Slots /\ \A j \in 0 .. k - 1 : MAX_RX_DCBS # Slot(cur, j)
        BY <1>2, <1>3 DEF Slots, Slot
    <2>2. ~chained'[MAX_RX_DCBS - 1]
        BY <2>1, <1>9 DEF RingInv, Chains
    <2>3. ASSUME NEW i \in Slots, i # 0, Posted(i)' PROVE chained'[i - 1]
        <3>1. i - 1 \in Slots /\ (i - 1) + 1 = i
            BY <2>3 DEF Slots
        <3>2. CASE Posted(i)
            BY <3>1, <3>2, <2>3, <1>9 DEF RingInv, Chains
        <3>3. CASE ~Posted(i)
            BY <3>1, <3>3, <2>3, <1>6, <1>9
        <3> QED BY <3>2, <3>3
    <2> QED BY <2>2, <2>3, <1>10 DEF Chains
<1>12. running' \in BOOLEAN /\ (free' = MAX_RX_DCBS <=> started)
    BY <1>1 DEF Enough
<1>13. ~done[0] /\ hw # 0
    BY DEF RingInv, Wrap
<1>14. Wrap'
    <2>1. CASE started
        BY <2>1, <1>1, <1>2, <1>12, <1>13 DEF StartChannel, Wrap, Fresh, Slots
    <2>2. CASE ~started
        BY <2>2, <1>1, <1>2, <1>12, <1>13 DEF Wrap, Fresh, Slots
    <2> QED BY <2>1, <2>2
<1>15. started => ~chain_done' /\ ~desc_done'
    BY <1>1 DEF StartChannel
<1>16. ~started => ~Fresh'
    BY <1>12 DEF Fresh
<1> QED BY <1>4, <1>5, <1>7, <1>8, <1>9, <1>10, <1>11, <1>12, <1>14, <1>15, <1>16

-----------------------------------------------------------------------------
(* Callers of bkn_do_skb_rx.                                               *)

\* The caller that holds the lock is the only one in bkn_do_skb_rx.
LEMMA Alone ==
    ASSUME RingInv, NEW c \in Callers, ctx[c].at # "away"
    PROVE  \A d \in Callers : d # c => ctx[d] = Away
BY DEF RingInv, Called, Place

\* The ring is free only if nobody is in bkn_do_skb_rx.
LEMMA AllAway ==
    ASSUME Quiet, RingInv, RingFree
    PROVE  \A c \in Callers : ctx[c] = Away
BY DEF Quiet, RingFree, LockFree, RingInv, Called, Place

\* The lock is free only if the ring is, or a packet of the channel, which runs, is given to
\* the network stack.
LEMMA WhoIsOut ==
    ASSUME RingInv, LockFree, ~running
    PROVE  RingFree
BY DEF LockFree, RingFree, RingInv, Called, Place, Out

\* DMA_INFO leaves bkn_do_skb_rx alone, or enters it to resume a channel.
LEMMA InfoCases ==
    ASSUME RingInv, DmaInfoRx
    PROVE  \/ ctx' = ctx /\ api_wait' = api_wait
           \/ /\ RingFree /\ api_wait /\ api_wait' = FALSE
              /\ ctx' = [ctx EXCEPT !["cmd"] = [Away EXCEPT !.at = Enter]]
<1>1. api_wait \in BOOLEAN /\ api_left \in Nat
    BY RxAssumption DEF RingInv, TypeOK
<1>2. CASE api_left > 0
    BY <1>2 DEF DmaInfoRx
<1>3. CASE ~(api_left > 0)
    <2>1. api_left = 0
        BY <1>1, <1>3
    <2>2. /\ api_wait => RingFree
          /\ api_wait' = FALSE
          /\ ctx' = IF api_wait THEN [ctx EXCEPT !["cmd"] = [Away EXCEPT !.at = Enter]] ELSE ctx
        BY <1>3, <2>1 DEF DmaInfoRx
    <2>3. CASE api_wait
        BY <2>2, <2>3
    <2>4. CASE ~api_wait
        BY <1>1, <2>2, <2>4
    <2> QED BY <2>3, <2>4
<1> QED BY <1>2, <1>3

\* A place by its parts.
LEMMA PlaceParts ==
    ASSUME RingInv, NEW c \in Callers
    PROVE  /\ ctx \in [Callers -> Places] /\ Place(ctx[c])
           /\ ctx[c].at \in {"away", "rx", "out", "chain"} /\ ctx[c].chain \in BOOLEAN
           /\ ctx[c].slot \in Slots /\ ctx[c].n \in 0 .. MAX_RX_DCBS /\ ctx[c].retry \in BOOLEAN
BY DEF RingInv, TypeOK, Places, Called

\* A caller that is away after a step.
LEMMA AwayNext ==
    ASSUME NEW d \in Callers, ctx'[d] = Away, free' \in 0 .. MAX_RX_DCBS
    PROVE  Place(ctx[d])' /\ ctx'[d].at = "away"
<1>1. ctx'[d].at = "away" /\ ctx'[d].n = 0 /\ ctx'[d].retry = FALSE
    BY AwayFacts
<1>2. ctx'[d].n + free' =< MAX_RX_DCBS
    <2>1. \A f \in 0 .. MAX_RX_DCBS : 0 + f =< MAX_RX_DCBS
        BY RxAssumption
    <2>2. 0 + free' =< MAX_RX_DCBS
        BY <2>1
    <2> QED BY <2>2, <1>1
<1> QED BY <1>1, <1>2 DEF Place

\* One caller moves while the others are away.
LEMMA Moved ==
    ASSUME RingInv, NEW c \in Callers, \A d \in Callers : d # c => ctx[d] = Away /\ ctx'[d] = Away,
           free' \in 0 .. MAX_RX_DCBS, Place(ctx[c])'
    PROVE  Called'
<1>1. ASSUME NEW d \in Callers, d # c PROVE Place(ctx[d])' /\ ctx'[d].at = "away"
    <2>1. ctx'[d] = Away
        BY <1>1
    <2> QED BY <2>1, AwayNext
<1>2. \A d, e \in Callers : ctx'[d].at # "away" /\ ctx'[e].at # "away" => d = e
    BY <1>1
<1> QED BY <1>1, <1>2 DEF Called

\* Nobody is in bkn_do_skb_rx, or the last caller leaves.
LEMMA AllLeft ==
    ASSUME RingInv, ctx' \in [Callers -> {Away}], free' \in 0 .. MAX_RX_DCBS
    PROVE  ctx' \in [Callers -> Places] /\ Called'
<1>1. \A d \in Callers : ctx'[d] = Away
    OBVIOUS
<1>2. ctx' \in [Callers -> Places]
    BY AwayFacts
<1>3. \A d \in Callers : Place(ctx[d])' /\ ctx'[d].at = "away"
    BY <1>1, AwayNext
<1> QED BY <1>2, <1>3 DEF Called

\* A caller that leaves, while the others are away.
LEMMA Left ==
    ASSUME RingInv, NEW c \in Callers, ctx[c].at # "away", ctx' = [ctx EXCEPT ![c] = Away]
    PROVE  ctx' \in [Callers -> {Away}]
<1>1. \A d \in Callers : d # c => ctx[d] = Away
    BY Alone
<1>2. ctx \in [Callers -> Places]
    BY PlaceParts
<1>3. \A d \in Callers : ctx'[d] = Away
    BY <1>1, <1>2
<1>4. DOMAIN ctx' = Callers /\ ctx' = [d \in Callers |-> ctx'[d]]
    BY <1>2
<1> QED BY <1>3, <1>4

-----------------------------------------------------------------------------
(* Every step keeps the invariant.                                         *)

\* A packet arrives, or the descriptor memory of one is updated.
LEMMA EngineRing == RingInv /\ (HwPacket \/ HwUpdate) => RingInv'
<1> SUFFICES ASSUME RingInv, HwPacket \/ HwUpdate PROVE RingInv'
    OBVIOUS
<1> USE RxAssumption
<1>1. /\ hw \in Slots /\ hw # MAX_RX_DCBS /\ dirty \in Slots
      /\ UNCHANGED <<free, cur, dirty, skb, chained, running, chain_complete, api_wait, ctx>>
      /\ Finish \/ (done' = done /\ hw' = hw)
      /\ late' \in BOOLEAN /\ (late' => hw' # Halted)
      /\ done \in [Slots -> BOOLEAN] /\ chained \in [Slots -> BOOLEAN]
    <2>1. /\ hw \in Slots \union {Halted} /\ dirty \in Slots /\ late \in BOOLEAN
          /\ done \in [Slots -> BOOLEAN] /\ chained \in [Slots -> BOOLEAN]
        BY DEF RingInv, TypeOK
    <2>2. hw # Halted
        BY DEF HwPacket, HwUpdate, RingInv, Chains
    <2>3. CASE HwPacket
        <3>1. UNCHANGED <<free, cur, dirty, skb, chained, state, ctx>>
            BY <2>3 DEF HwPacket
        <3>2. (Finish /\ late' = late) \/ (late' = TRUE /\ done' = done /\ hw' = hw)
            BY <2>3 DEF HwPacket
        <3>3. late = FALSE
            BY <2>1, <2>3 DEF HwPacket
        <3>4. (Finish \/ (done' = done /\ hw' = hw)) /\ late' \in BOOLEAN /\ (late' => hw' # Halted)
            BY <2>2, <3>2, <3>3
        <3>5. UNCHANGED <<free, cur, dirty, skb, chained, running, chain_complete, api_wait, ctx>>
            BY <3>1 DEF state
        <3> QED BY <2>1, <2>2, <3>4, <3>5 DEF Halted
    <2>4. CASE HwUpdate
        BY <2>1, <2>2, <2>4 DEF HwUpdate, state, Halted
    <2> QED BY <2>3, <2>4
<1>2. /\ desc_done' \in BOOLEAN /\ chain_done' \in BOOLEAN
      /\ chain_done' => desc_done' \/ ctx["irq"].chain
      /\ Fresh /\ hw = 0 => ~chain_done'
    <2>1. Fresh => chained[0]
        <3> SUFFICES ASSUME Fresh PROVE chained[0]
            OBVIOUS
        <3>1. 1 \in Slots /\ Posted(1)
            BY DEF Fresh, Slots, Posted, Ahead
        <3> QED BY <3>1 DEF RingInv, Chains
    <2>2. CASE HwPacket
        BY <2>1, <2>2, <1>1 DEF HwPacket, RingInv, TypeOK, Status
    <2>3. CASE HwUpdate
        BY <2>3 DEF HwUpdate, RingInv, TypeOK, Status
    <2> QED BY <2>2, <2>3
<1>3. /\ hw' \in Slots \union {Halted} /\ done' \in [Slots -> BOOLEAN]
      /\ (hw' = 0 => hw = 0 /\ done' = done) /\ (hw # 0 => hw' # 0 /\ (done'[0] <=> done[0]))
      /\ (hw = 0 => hw' = 0 \/ done'[0]) /\ \A i \in Slots : done[i] => done'[i]
    <2>1. CASE Finish
        <3>1. done' = [done EXCEPT ![hw] = TRUE] /\ hw' = IF chained[hw] THEN hw + 1 ELSE Halted
            BY <2>1 DEF Finish
        <3>2. hw' \in Slots \union {Halted} /\ hw' # 0
            BY <3>1, <1>1 DEF RingInv, Chains, Slots, Halted
        <3>3. /\ done' \in [Slots -> BOOLEAN] /\ (hw # 0 => (done'[0] <=> done[0]))
              /\ (hw = 0 => done'[0]) /\ \A i \in Slots : done[i] => done'[i]
            BY <3>1, <1>1 DEF Slots
        <3> QED BY <3>2, <3>3
    <2>2. CASE done' = done /\ hw' = hw
        BY <2>2, <1>1
    <2> QED BY <1>1, <2>1, <2>2
<1>4. TypeOK'
    BY <1>1, <1>2, <1>3 DEF HwPacket, HwUpdate, RingInv, TypeOK, state, api, history
<1>5. \A i \in Slots : Posted(i)' <=> Posted(i)
    BY <1>1, PostedSame
<1>6. RxAccounting' /\ PostedBufs'
    BY <1>1, <1>5 DEF RingInv, RxAccounting, Slot, PostedBufs
<1>7. Chains'
    BY <1>1, <1>5 DEF RingInv, Chains
<1>8. Called'
    BY <1>1, <1>3 DEF RingInv, Called, Place, Fresh
<1>9. Wrap'
    BY <1>1, <1>3 DEF RingInv, Wrap, Fresh
<1>10. Status'
    BY <1>1, <1>2, <1>3 DEF RingInv, Status, Fresh
<1> QED BY <1>4, <1>6, <1>7, <1>8, <1>9, <1>10 DEF RingInv

\* A caller has taken a descriptor and looks at the next one.
LEMMA TookRing ==
    ASSUME RingInv, NEW c \in Callers, ctx[c].at \in {"rx", "out"}, done[dirty], Advance(dirty),
           ctx' \in [Callers -> Places], \A d \in Callers : d # c => ctx'[d] = ctx[d],
           ctx'[c].at = "rx", ctx'[c].n = ctx[c].n + 1, ctx'[c].chain = ctx[c].chain,
           ctx'[c].retry = ctx[c].retry,
           UNCHANGED <<cur, chained, running, api_wait, timer, rx_chans, engine, resets>>,
           chain_complete' \in BOOLEAN, api_left' \in 0 .. ApiChainLen,
           api_queued' \in 0 .. MaxApiChains, stack' \in SUBSET Bufs, twice' \in BOOLEAN,
           skb' = skb \/ skb' = [skb EXCEPT ![dirty] = NoBuf]
    PROVE  RingInv'
<1> USE RxAssumption
<1>1. running /\ ctx[c].at # "away"
    BY PlaceParts DEF Place
<1>2. /\ free \in 1 .. MAX_RX_DCBS /\ free' = free - 1 /\ free' \in 0 .. MAX_RX_DCBS
      /\ dirty' \in Slots /\ done' \in [Slots -> BOOLEAN]
      /\ RxAccounting' /\ Wrap' /\ Chains' /\ ~Fresh'
      /\ \A i \in Slots : Posted(i)' <=> Posted(i) /\ i # dirty
    BY <1>1, AdvanceStep DEF engine
<1>3. skb' \in [Slots -> Bufs \union {NoBuf}] /\ \A i \in Slots : i # dirty => skb'[i] = skb[i]
    BY DEF RingInv, TypeOK
<1>4. PostedBufs'
    BY <1>2, <1>3 DEF PostedBufs, RingInv
<1>5. ctx[c].n \in 0 .. MAX_RX_DCBS /\ ctx[c].n + free =< MAX_RX_DCBS /\ (ctx[c].retry => ~Fresh)
    BY PlaceParts DEF Place
<1>6. (ctx[c].n + 1) + free' =< MAX_RX_DCBS
    BY <1>2, <1>5
<1>7. Called'
    <2>1. Place(ctx[c])'
        BY <1>1, <1>2, <1>6 DEF Place
    <2> QED BY <1>1, <1>2, <2>1, Alone, Moved
<1>8. \A d \in Callers : ctx'[d].chain = ctx[d].chain
    OBVIOUS
<1>9. Status'
    BY <1>2, <1>8 DEF Status, RingInv, engine, Callers
<1>10. TypeOK'
    BY <1>2, <1>3, <1>7 DEF RingInv, TypeOK, Places, engine
<1> QED BY <1>2, <1>4, <1>7, <1>9, <1>10 DEF RingInv

\* What bkn_api_rx_copy_from_skb leaves of the chains of the API.
LEMMA ApiTypes ==
    ASSUME RingInv, api_left > 0, CopyToApi
    PROVE  api_left' \in 0 .. ApiChainLen /\ api_queued' \in 0 .. MaxApiChains
BY RxAssumption DEF RingInv, TypeOK, CopyToApi

\* A caller that may take the next descriptor.
LEMMA TakingFacts ==
    ASSUME RingInv, NEW c \in Callers, Taking(c)
    PROVE  /\ ctx[c].at = "rx" /\ running /\ done[dirty] /\ dirty \in Slots
           /\ free \in 1 .. MAX_RX_DCBS /\ skb[dirty] \in Bufs
<1>1. ctx[c].at = "rx" /\ running /\ done[dirty] /\ dirty \in Slots
    BY PlaceParts DEF Taking, More, Place, RingInv, TypeOK
<1>2. free \in 1 .. MAX_RX_DCBS
    BY <1>1, TakenPosted
<1>3. Posted(dirty)
    BY <1>2, RingIndices, PostedDirty
<1> QED BY <1>1, <1>2, <1>3 DEF RingInv, TypeOK, PostedBufs

\* A caller takes no more descriptors than were posted.
LEMMA TakenCount ==
    ASSUME RingInv, NEW c \in Callers, running, done[dirty]
    PROVE  ctx[c].n + 1 \in 0 .. MAX_RX_DCBS
BY TakenPosted, PlaceParts, RxAssumption DEF Place

\* The packet is dropped, copied for the API, or consumed by the call-back.
LEMMA TakeRing ==
    ASSUME RingInv, NEW c \in Callers, RxDrop(c) \/ RxToApi(c) \/ RxCallback(c)
    PROVE  RingInv'
<1> USE RxAssumption
<1>1. Taking(c) /\ MarkComplete /\ Advance(dirty) /\ ctx' = [ctx EXCEPT ![c].n = @ + 1]
      /\ UNCHANGED <<cur, chained, running, api_wait, timer, rx_chans, engine, resets>>
    <2>1. CASE RxDrop(c)
        BY <2>1 DEF RxDrop, history
    <2>2. CASE RxToApi(c)
        BY <2>2 DEF RxToApi, history
    <2>3. CASE RxCallback(c)
        BY <2>3 DEF RxCallback
    <2> QED BY <2>1, <2>2, <2>3
<1>2. /\ ctx[c].at = "rx" /\ running /\ done[dirty] /\ dirty \in Slots /\ skb[dirty] \in Bufs
    BY <1>1, TakingFacts
<1>3. chain_complete' \in BOOLEAN
    BY <1>1, <1>2, MarkStep
<1>4. api_left' \in 0 .. ApiChainLen /\ api_queued' \in 0 .. MaxApiChains
    <2>1. UNCHANGED api \/ (api_left > 0 /\ CopyToApi)
        BY DEF RxDrop, RxToApi, RxCallback, Mirror
    <2> QED BY <2>1, ApiTypes DEF api, RingInv, TypeOK
<1>5. stack' \in SUBSET Bufs /\ twice' \in BOOLEAN
    BY <1>2 DEF RxDrop, RxToApi, RxCallback, history, RingInv, TypeOK
<1>6. skb' = skb \/ skb' = [skb EXCEPT ![dirty] = NoBuf]
    BY DEF RxDrop, RxToApi, RxCallback
<1>7. /\ ctx' \in [Callers -> Places] /\ \A d \in Callers : d # c => ctx'[d] = ctx[d]
      /\ ctx'[c].at = "rx" /\ ctx'[c].n = ctx[c].n + 1 /\ ctx'[c].chain = ctx[c].chain
      /\ ctx'[c].retry = ctx[c].retry
    BY <1>1, <1>2, TakenCount, PlaceParts DEF Places
<1> QED BY <1>1, <1>2, <1>3, <1>4, <1>5, <1>6, <1>7, TookRing

\* Back from the network stack.
LEMMA BackRing ==
    ASSUME RingInv, NEW c \in Callers, RxBack(c)
    PROVE  RingInv'
<1>1. ctx[c].at = "out" /\ ctx[c].slot = dirty /\ done[dirty]
    BY PlaceParts DEF RxBack, Out, Place
<1>2. /\ Advance(dirty) /\ skb' = [skb EXCEPT ![dirty] = NoBuf]
      /\ ctx' = [ctx EXCEPT ![c].at = "rx", ![c].slot = 0, ![c].n = @ + 1]
      /\ UNCHANGED <<cur, chained, state, api, engine, stack, history>>
    BY <1>1 DEF RxBack, ForgetSkb
<1>3. 0 \in Slots
    BY RingIndices
<1>4. /\ ctx' \in [Callers -> Places] /\ \A d \in Callers : d # c => ctx'[d] = ctx[d]
      /\ ctx'[c].at = "rx" /\ ctx'[c].n = ctx[c].n + 1 /\ ctx'[c].chain = ctx[c].chain
      /\ ctx'[c].retry = ctx[c].retry
    <2>1. ctx[c].n + 1 \in 0 .. MAX_RX_DCBS
        BY <1>1, PlaceParts, TakenCount DEF Place
    <2> QED BY <1>2, <1>3, <2>1, PlaceParts DEF Places
<1>5. /\ chain_complete' \in BOOLEAN /\ api_left' \in 0 .. ApiChainLen
      /\ api_queued' \in 0 .. MaxApiChains /\ stack' \in SUBSET Bufs /\ twice' \in BOOLEAN
      /\ UNCHANGED <<cur, chained, running, api_wait, timer, rx_chans, engine, resets>>
    BY <1>2 DEF state, api, history, RingInv, TypeOK
<1> QED BY <1>1, <1>2, <1>3, <1>4, <1>5, TookRing

\* A step that leaves the ring and the engine alone.
LEMMA SameRing ==
    ASSUME RingInv, UNCHANGED <<free, cur, dirty, skb, done, chained, running, hw, late>>,
           running /\ chain_complete' => ~Fresh
    PROVE  RxAccounting' /\ Wrap' /\ Chains' /\ PostedBufs' /\ (Fresh' <=> Fresh)
<1>1. \A i \in Slots : Posted(i)' <=> Posted(i)
    BY PostedSame
<1>2. Fresh' <=> Fresh
    BY DEF Fresh
<1>3. RxAccounting' /\ PostedBufs'
    BY <1>1 DEF RingInv, RxAccounting, Slot, PostedBufs
<1>4. Chains'
    BY <1>1 DEF RingInv, Chains
<1>5. Wrap'
    BY <1>2 DEF RingInv, Wrap
<1> QED BY <1>2, <1>3, <1>4, <1>5

\* The channel is suspended, or the packet goes to the stack.
LEMMA MarkRing ==
    ASSUME RingInv, NEW c \in Callers, RxApiWait(c) \/ RxUp(c)
    PROVE  RingInv'
<1>1. /\ Taking(c) /\ MarkComplete
      /\ UNCHANGED <<ring, running, timer, rx_chans, engine, resets>>
    <2>1. CASE RxApiWait(c)
        BY <2>1 DEF RxApiWait, history
    <2>2. CASE RxUp(c)
        BY <2>2 DEF RxUp
    <2> QED BY <2>1, <2>2
<1>2. /\ ctx[c].at = "rx" /\ running /\ done[dirty] /\ dirty \in Slots /\ skb[dirty] \in Bufs
    BY <1>1, TakingFacts
<1>3. chain_complete' \in BOOLEAN /\ (chain_complete' => ~Fresh)
    BY <1>1, <1>2, MarkStep
<1>4. RxAccounting' /\ Wrap' /\ Chains' /\ PostedBufs' /\ (Fresh' <=> Fresh)
    BY <1>1, <1>3, SameRing DEF ring, engine
<1>5. \A d \in Callers : d # c => ctx[d] = Away
    BY <1>2, Alone
<1>6. /\ Place(ctx[c]) /\ ctx \in [Callers -> Places] /\ 0 \in 0 .. MAX_RX_DCBS
      /\ free \in 0 .. MAX_RX_DCBS /\ ctx[c].n \in 0 .. MAX_RX_DCBS
    BY PlaceParts, RxAssumption DEF RingInv, TypeOK
<1>7. CASE RxApiWait(c)
    <2>1. /\ ctx' \in [Callers -> Places] /\ \A d \in Callers : d # c => ctx'[d] = ctx[d]
          /\ ctx'[c].at = "chain" /\ ctx'[c].n = 0 /\ ctx'[c].chain = ctx[c].chain
          /\ ctx'[c].retry = ctx[c].retry
        BY <1>6, <1>7 DEF RxApiWait, Places
    <2>2. Called'
        <3>1. 0 + free =< MAX_RX_DCBS
            BY <1>6, RxAssumption
        <3>2. Place(ctx[c])'
            BY <1>1, <1>4, <1>6, <2>1, <3>1 DEF Place, ring
        <3> QED BY <1>1, <1>5, <1>6, <2>1, <3>2, Moved DEF ring
    <2>3. Status'
        BY <1>1, <1>4, <1>5, <1>7, <2>1 DEF RxApiWait, Status, RingInv, engine, Callers
    <2>4. TypeOK'
        BY <1>1, <1>3, <1>7, <2>1 DEF RxApiWait, RingInv, TypeOK, Places, ring, engine, api, history
    <2> QED BY <1>4, <2>2, <2>3, <2>4 DEF RingInv
<1>8. CASE RxUp(c)
    <2>1. /\ ctx' \in [Callers -> Places] /\ \A d \in Callers : d # c => ctx'[d] = ctx[d]
          /\ ctx'[c].at = "out" /\ ctx'[c].n = ctx[c].n /\ ctx'[c].chain = ctx[c].chain
          /\ ctx'[c].retry = ctx[c].retry /\ ctx'[c].slot = dirty
        BY <1>2, <1>6, <1>8 DEF RxUp, Places
    <2>2. Called'
        <3>1. Place(ctx[c])'
            BY <1>1, <1>2, <1>4, <1>6, <2>1 DEF Place, ring
        <3> QED BY <1>1, <1>5, <1>6, <2>1, <3>1, Moved DEF ring
    <2>3. Status'
        BY <1>1, <1>4, <1>5, <1>8, <2>1, AwayFacts DEF RxUp, Status, RingInv, engine, Callers
    <2>4. api_left' \in 0 .. ApiChainLen /\ api_queued' \in 0 .. MaxApiChains
        <3>1. UNCHANGED api \/ (api_left > 0 /\ CopyToApi)
            BY <1>8 DEF RxUp, Mirror
        <3> QED BY <3>1, ApiTypes DEF api, RingInv, TypeOK
    <2>5. TypeOK'
        BY <1>1, <1>2, <1>3, <1>8, <2>1, <2>4 DEF RxUp, RingInv, TypeOK, Places, ring, engine
    <2> QED BY <1>4, <2>2, <2>3, <2>5 DEF RingInv
<1> QED BY <1>7, <1>8

\* No more descriptors: an interrupt that has seen the end of the chain took at least one.
LEMMA EndRing ==
    ASSUME RingInv, NEW c \in Callers, RxEnd(c)
    PROVE  RingInv'
<1> USE RxAssumption
<1>1. /\ ctx[c].at = "rx" /\ ~More(c) /\ ctx' = [ctx EXCEPT ![c].at = "chain", ![c].n = 0]
      /\ UNCHANGED <<ring, state, api, engine, stack, history>>
    BY DEF RxEnd
<1>2. /\ Place(ctx[c]) /\ ctx \in [Callers -> Places] /\ 0 \in 0 .. MAX_RX_DCBS
      /\ free \in 0 .. MAX_RX_DCBS /\ ctx[c].n \in 0 .. MAX_RX_DCBS
      /\ \A d \in Callers : d # c => ctx[d] = Away
    BY <1>1, Alone, PlaceParts DEF RingInv, TypeOK
<1>3. RxAccounting' /\ Wrap' /\ Chains' /\ PostedBufs' /\ (Fresh' <=> Fresh)
    BY <1>1, SameRing DEF ring, state, engine, RingInv, Wrap
<1>4. /\ ctx' \in [Callers -> Places] /\ \A d \in Callers : d # c => ctx'[d] = ctx[d]
      /\ ctx'[c].at = "chain" /\ ctx'[c].n = 0 /\ ctx'[c].chain = ctx[c].chain
      /\ ctx'[c].retry = ctx[c].retry
    BY <1>1, <1>2 DEF Places
<1>5. Called'
    <2>1. 0 + free =< MAX_RX_DCBS
        BY <1>2
    <2>2. Place(ctx[c])'
        BY <1>1, <1>2, <1>3, <1>4, <2>1 DEF Place, ring, state
    <2> QED BY <1>1, <1>2, <1>4, <2>2, Moved DEF ring
<1>6. c = "irq" /\ ctx[c].chain => ~Fresh
    <2> SUFFICES ASSUME c = "irq", ctx["irq"].chain, Fresh PROVE FALSE
        OBVIOUS
    <2>1. done[dirty]
        BY DEF RingInv, Status, Wrap, Fresh
    <2>2. ctx[c].n = 0
        BY <1>2 DEF Place, Fresh
    <2>3. BudgetOf(c) > 0
        BY DEF BudgetOf
    <2> QED BY <2>1, <2>2, <2>3, <1>1 DEF More
<1>7. Status'
    BY <1>1, <1>2, <1>3, <1>4, <1>6, AwayFacts DEF Status, RingInv, engine, state, Callers
<1>8. TypeOK'
    BY <1>1, <1>4 DEF RingInv, TypeOK, Places, ring, state, api, engine, history
<1> QED BY <1>3, <1>5, <1>7, <1>8 DEF RingInv

\* dev_do_dma reads the status register.
LEMMA EnterRing ==
    ASSUME Quiet, RingInv, IrqEnter
    PROVE  RingInv'
<1> USE RxAssumption
<1>1. /\ RingFree /\ (desc_done \/ chain_done) /\ desc_done' = FALSE
      /\ ctx' = [ctx EXCEPT !["irq"] =
                    [Away EXCEPT !.at = IF desc_done THEN Enter ELSE "chain", !.chain = chain_done]]
      /\ UNCHANGED <<ring, state, api, hw, late, chain_done, site, stack, history>>
    BY DEF IrqEnter
<1>2. /\ \A d \in Callers : ctx[d] = Away
      /\ ctx \in [Callers -> Places] /\ free \in 0 .. MAX_RX_DCBS
      /\ desc_done \in BOOLEAN /\ chain_done \in BOOLEAN /\ "irq" \in Callers /\ 0 \in Slots
    BY <1>1, AllAway, RingIndices, PlaceParts DEF RingInv, TypeOK, Callers
<1>3. RxAccounting' /\ Wrap' /\ Chains' /\ PostedBufs' /\ (Fresh' <=> Fresh)
    BY <1>1, SameRing DEF ring, state, RingInv, Wrap
<1>4. Enter \in {"rx", "chain"} /\ (Enter = "rx" => running) /\ (Enter = "chain" => ~running)
    BY DEF Enter
<1>5. /\ ctx' \in [Callers -> Places] /\ \A d \in Callers : d # "irq" => ctx'[d] = ctx[d]
      /\ ctx'["irq"].at = (IF desc_done THEN Enter ELSE "chain") /\ ctx'["irq"].n = 0
      /\ ctx'["irq"].chain = chain_done /\ ctx'["irq"].retry = FALSE
    BY <1>1, <1>2, <1>4 DEF Places, Away
<1>6. Called'
    <2>1. 0 + free =< MAX_RX_DCBS
        BY <1>2
    <2>2. Place(ctx["irq"])'
        BY <1>1, <1>2, <1>3, <1>4, <1>5, <2>1 DEF Place, ring, state
    <2> QED BY <1>1, <1>2, <1>5, <2>2, Moved DEF ring
<1>7. Status'
    <2>1. chain_done => desc_done
        BY <1>2, AwayFacts DEF RingInv, Status
    <2>2. Fresh => running
        BY DEF RingInv, Wrap, Fresh
    <2>3. ctx'["irq"].at = "chain" /\ chain_done => ~Fresh
        BY <2>1, <2>2, <1>4, <1>5
    <2>4. Fresh /\ hw = 0 => ~chain_done
        BY DEF RingInv, Status
    <2> QED BY <1>1, <1>3, <1>5, <2>3, <2>4 DEF Status
<1>8. TypeOK'
    BY <1>1, <1>2, <1>5 DEF RingInv, TypeOK, Places, ring, state, api, history
<1> QED BY <1>3, <1>6, <1>7, <1>8 DEF RingInv

\* bkn_rx_chain_done is not called, or returns at once.
LEMMA NoRestartRing ==
    ASSUME RingInv, NEW c \in Callers, NoRestart(c)
    PROVE  RingInv'
<1>1. /\ ctx[c].at = "chain" /\ ctx' = [ctx EXCEPT ![c] = Away] /\ ClearChainDone(c)
      /\ UNCHANGED <<ring, state, api, hw, late, desc_done, site, stack, history>>
    BY DEF NoRestart
<1>2. RxAccounting' /\ Wrap' /\ Chains' /\ PostedBufs' /\ (Fresh' <=> Fresh)
    BY <1>1, SameRing DEF ring, state, RingInv, Wrap
<1>3. free' \in 0 .. MAX_RX_DCBS /\ chain_done \in BOOLEAN
    BY <1>1 DEF RingInv, TypeOK, ring
<1>4. ctx' \in [Callers -> {Away}] /\ ctx' \in [Callers -> Places] /\ Called'
    BY <1>1, <1>3, Left, AllLeft
<1>5. \A d \in Callers : d # c => ctx[d] = Away
    BY <1>1, Alone
<1>6. Status'
    <2>1. chain_done' \in BOOLEAN /\ (chain_done' => chain_done)
        BY <1>1, <1>3 DEF ClearChainDone
    <2>2. chain_done' => desc_done
        BY <1>1, <1>3, <1>5, AwayFacts DEF ClearChainDone, RingInv, Status, Callers
    <2>3. ctx'["irq"] = Away
        BY <1>4 DEF Callers
    <2> QED BY <1>1, <1>2, <2>1, <2>2, <2>3, AwayFacts DEF Status, RingInv
<1>7. TypeOK'
    BY <1>1, <1>3, <1>4 DEF ClearChainDone, RingInv, TypeOK, Places, ring, state, api, history
<1> QED BY <1>2, <1>4, <1>6, <1>7 DEF RingInv

\* The retry loop of bkn_rx_chain_done: something of the chain was taken.
LEMMA SyncRing ==
    ASSUME RingInv, NEW c \in Callers, SyncRetry(c)
    PROVE  RingInv'
<1> USE RxAssumption
<1>1. /\ ctx[c].at = "chain" /\ MayRestart(c) /\ ~chain_complete
      /\ ctx' = [ctx EXCEPT ![c].at = Enter, ![c].retry = TRUE]
      /\ UNCHANGED <<ring, state, api, engine, stack, history>>
    BY DEF SyncRetry
<1>2. /\ Place(ctx[c]) /\ ctx \in [Callers -> Places]
      /\ free \in 0 .. MAX_RX_DCBS /\ ctx[c].n \in 0 .. MAX_RX_DCBS
      /\ \A d \in Callers : d # c => ctx[d] = Away
    BY <1>1, Alone, PlaceParts DEF RingInv, TypeOK
<1>3. RxAccounting' /\ Wrap' /\ Chains' /\ PostedBufs' /\ (Fresh' <=> Fresh)
    BY <1>1, SameRing DEF ring, state, engine, RingInv, Wrap
<1>4. c = "irq" /\ ctx[c].chain /\ (api_wait => ctx[c].retry)
    BY <1>1 DEF MayRestart, ChainDue, Callers
<1>5. ~Fresh
    BY <1>1, <1>2, <1>4 DEF Place, RingInv, Status
<1>6. Enter \in {"rx", "chain"} /\ (Enter = "rx" => running)
    BY DEF Enter
<1>7. /\ ctx' \in [Callers -> Places] /\ \A d \in Callers : d # c => ctx'[d] = ctx[d]
      /\ ctx'[c].at = Enter /\ ctx'[c].n = ctx[c].n /\ ctx'[c].chain = ctx[c].chain
      /\ ctx'[c].retry = TRUE
    BY <1>1, <1>2, <1>6 DEF Places
<1>8. Called'
    <2>1. Place(ctx[c])'
        BY <1>1, <1>2, <1>3, <1>5, <1>6, <1>7 DEF Place, ring, state
    <2> QED BY <1>1, <1>2, <1>7, <2>1, Moved DEF ring
<1>9. Status'
    BY <1>1, <1>3, <1>4, <1>5, <1>7 DEF Status, RingInv, engine, state
<1>10. TypeOK'
    BY <1>1, <1>7 DEF RingInv, TypeOK, Places, ring, state, api, engine, history
<1> QED BY <1>3, <1>8, <1>9, <1>10 DEF RingInv

\* bkn_rx_chain_done refills the ring and restarts the channel, or sets the timer.
LEMMA ChainDoneRing ==
    ASSUME RingInv, NEW c \in Callers, ChainDone(c)
    PROVE  RingInv'
<1>1. PICK started \in BOOLEAN :
          /\ RefillAndRestart(started)
          /\ chain_complete' = ~started
          /\ timer' = (timer \/ ~started)
          /\ ~started => ClearChainDone(c) /\ UNCHANGED <<hw, late, desc_done>>
    BY DEF ChainDone
<1>2. /\ ctx[c].at = "chain" /\ MayRestart(c) /\ (chain_complete \/ RetriedInVain(c))
      /\ ctx' = [ctx EXCEPT ![c] = Away]
      /\ UNCHANGED <<dirty, done, api_wait, rx_chans, api, site, stack, history>>
    BY DEF ChainDone
<1>3. ~Fresh
    <2>1. RetriedInVain(c) => ~Fresh
        BY PlaceParts DEF Place, RetriedInVain
    <2>2. chain_complete => ~Fresh
        BY DEF RingInv, Wrap, Fresh
    <2> QED BY <1>2, <2>1, <2>2
<1>4. /\ free' \in 0 .. MAX_RX_DCBS /\ cur' \in Slots /\ running' \in BOOLEAN
      /\ skb' \in [Slots -> Bufs \union {NoBuf}] /\ chained' \in [Slots -> BOOLEAN]
      /\ hw' \in Slots \union {Halted} /\ late' \in BOOLEAN /\ desc_done' \in BOOLEAN
      /\ RxAccounting' /\ Wrap' /\ Chains' /\ PostedBufs'
      /\ started => ~chain_done' /\ ~desc_done'
      /\ ~started => ~Fresh'
    BY <1>1, <1>2, <1>3, RestartStep
<1>5. ctx' \in [Callers -> {Away}] /\ ctx' \in [Callers -> Places] /\ Called'
    BY <1>2, <1>4, Left, AllLeft
<1>6. \A d \in Callers : d # c => ctx[d] = Away
    BY <1>2, Alone
<1>7. ctx'["irq"] = Away
    BY <1>5 DEF Callers
<1>8. chain_done \in BOOLEAN
    BY DEF RingInv, TypeOK
<1>9. Status' /\ chain_done' \in BOOLEAN
    <2>1. CASE started
        <3>1. chain_done' = FALSE
            BY <1>1, <2>1 DEF RefillAndRestart, StartChannel
        <3> QED BY <3>1, <1>7, AwayFacts DEF Status
    <2>2. CASE ~started
        <3>1. chain_done' \in BOOLEAN /\ (chain_done' => chain_done /\ ~(c = "irq" /\ ctx[c].chain))
              /\ desc_done' = desc_done
            BY <1>1, <1>8, <2>2 DEF ClearChainDone
        <3>2. chain_done' => desc_done'
            BY <3>1, <1>6, AwayFacts DEF RingInv, Status, Callers
        <3> QED BY <3>1, <3>2, <1>4, <1>7, <2>2, AwayFacts DEF Status
    <2> QED BY <2>1, <2>2
<1>10. TypeOK'
    BY <1>1, <1>2, <1>4, <1>5, <1>9 DEF RingInv, TypeOK, Places, api, history
<1> QED BY <1>4, <1>5, <1>9, <1>10 DEF RingInv

\* DMA_INFO brings API buffers; it resumes a channel that waits for them.
LEMMA InfoRing ==
    ASSUME Quiet, RingInv, DmaInfoRx
    PROVE  RingInv'
<1> USE RxAssumption
<1>1. /\ api_queued < MaxApiChains
      /\ UNCHANGED <<ring, running, chain_complete, timer, rx_chans, engine, stack, history>>
      /\ \/ api_queued' = api_queued + 1 /\ UNCHANGED <<api_left, api_wait>>
         \/ api_left' = ApiChainLen /\ api_wait' = FALSE /\ api_queued' = api_queued
    BY DEF DmaInfoRx
<1>2. /\ ctx \in [Callers -> Places] /\ free \in 0 .. MAX_RX_DCBS
      /\ "cmd" \in Callers /\ "irq" \in Callers /\ 0 \in Slots
    BY RingIndices, PlaceParts DEF RingInv, TypeOK, Callers
<1>3. RxAccounting' /\ Wrap' /\ Chains' /\ PostedBufs' /\ (Fresh' <=> Fresh)
    BY <1>1, SameRing DEF ring, engine, RingInv, Wrap
<1>4. Enter \in {"rx", "chain"} /\ (Enter = "rx" => running)
    BY DEF Enter
<1>5. ctx' \in [Callers -> Places] /\ Called' /\ Status'
    <2>1. CASE ctx' = ctx /\ api_wait' = api_wait
        <3>1. Called'
            BY <1>1, <1>3, <2>1 DEF RingInv, Called, Place, ring
        <3>2. Status'
            BY <1>1, <1>3, <2>1 DEF RingInv, Status, engine
        <3>3. ctx \in [Callers -> Places] /\ ctx' = ctx
            BY <1>2, <2>1
        <3>4. ctx' \in [Callers -> Places]
            BY <3>3
        <3> QED BY <3>1, <3>2, <3>4
    <2>2. CASE /\ RingFree /\ api_wait /\ api_wait' = FALSE
               /\ ctx' = [ctx EXCEPT !["cmd"] = [Away EXCEPT !.at = Enter]]
        <3>1. \A d \in Callers : ctx[d] = Away
            BY <2>2, AllAway
        <3>2. /\ ctx' \in [Callers -> Places] /\ \A d \in Callers : d # "cmd" => ctx'[d] = ctx[d]
              /\ ctx'["cmd"].at = Enter /\ ctx'["cmd"].n = 0 /\ ctx'["cmd"].retry = FALSE
            <4>1. DOMAIN ctx = Callers /\ [Away EXCEPT !.at = Enter] \in Places
                BY <1>2, <1>4, AwayFacts DEF Places, Away
            <4>2. [Away EXCEPT !.at = Enter].at = Enter
                BY DEF Away
            <4>3. /\ [Away EXCEPT !.at = Enter].n = 0
                  /\ [Away EXCEPT !.at = Enter].retry = FALSE
                BY DEF Away
            <4> QED BY <1>2, <2>2, <4>1, <4>2, <4>3
        <3>3. 0 + free =< MAX_RX_DCBS
            BY <1>2
        <3>4. Place(ctx["cmd"])'
            BY <1>1, <1>2, <1>3, <1>4, <3>2, <3>3 DEF Place, ring
        <3>5. Called'
            BY <1>1, <1>2, <3>1, <3>2, <3>4, Moved DEF ring
        <3>6. ctx["irq"] = Away /\ ctx'["irq"] = Away
            BY <1>2, <3>1, <3>2
        <3>7. Status'
            BY <1>1, <1>3, <3>6, AwayFacts DEF Status, RingInv, engine
        <3> QED BY <3>2, <3>5, <3>7
    <2> QED BY <2>1, <2>2, InfoCases
<1>6. TypeOK'
    <2>1. /\ api_left' \in 0 .. ApiChainLen /\ api_queued' \in 0 .. MaxApiChains
          /\ api_wait' \in BOOLEAN
        <3>1. /\ api_left \in 0 .. ApiChainLen /\ api_queued \in 0 .. MaxApiChains
              /\ api_wait \in BOOLEAN
            BY DEF RingInv, TypeOK
        <3>2. CASE api_queued' = api_queued + 1 /\ UNCHANGED <<api_left, api_wait>>
            <4>1. api_queued \in Nat /\ api_queued + 1 \in 0 .. MaxApiChains
                BY <1>1, <3>1
            <4>2. api_wait' \in BOOLEAN
                BY <3>1, <3>2
            <4> QED BY <3>1, <3>2, <4>1, <4>2
        <3>3. CASE api_left' = ApiChainLen /\ api_wait' = FALSE /\ api_queued' = api_queued
            <4>1. ApiChainLen \in 0 .. ApiChainLen
                OBVIOUS
            <4>2. api_wait' \in BOOLEAN
                BY <3>3
            <4> QED BY <3>1, <3>3, <4>1, <4>2
        <3> QED BY <1>1, <3>2, <3>3
    <2> QED BY <1>1, <1>5, <2>1 DEF RingInv, TypeOK, Places, ring, engine, history
<1> QED BY <1>3, <1>5, <1>6 DEF RingInv

\* bkn_timer and bkn_rxtick restart a channel that does not run.
LEMMA ResumeRing ==
    ASSUME Quiet, RingInv, Timer \/ RxTick
    PROVE  RingInv'
<1>1. /\ UNCHANGED <<rx_chans, api_wait, api, ctx, stack, history>>
      /\ timer' = timer \/ timer' = ~running'
      /\ Resume \/ UNCHANGED <<ring, running, chain_complete, engine>>
    BY DEF Timer, RxTick
<1>2. /\ ctx \in [Callers -> Places] /\ free \in 0 .. MAX_RX_DCBS /\ chain_complete \in BOOLEAN
      /\ timer \in BOOLEAN /\ running \in BOOLEAN /\ "irq" \in Callers
    BY PlaceParts DEF RingInv, TypeOK, Callers
<1>3. ASSUME Resume
      PROVE  ctx' \in [Callers -> {Away}] /\ ctx'["irq"] = Away /\ ctx["irq"] = Away
    <2>1. RingFree
        BY <1>3, WhoIsOut DEF Timer, RxTick, Resume
    <2>2. (\A d \in Callers : ctx[d] = Away) /\ ctx = [d \in Callers |-> ctx[d]]
        BY <1>2, <2>1, AllAway
    <2> QED BY <1>1, <1>2, <2>2
<1>4. CASE Resume
    <2>1. PICK started \in BOOLEAN :
              /\ RefillAndRestart(started)
              /\ chain_complete' = (chain_complete /\ ~started)
              /\ ~started => UNCHANGED engine
        BY <1>4 DEF Resume
    <2>2. ~Fresh /\ UNCHANGED <<dirty, done, site>>
        BY <1>4 DEF Resume, RingInv, Wrap, Fresh
    <2>3. chain_complete' \in BOOLEAN /\ (started => ~chain_complete')
        BY <1>2, <2>1
    <2>4. ~started => UNCHANGED <<hw, late, desc_done, chain_done>>
        BY <2>1 DEF engine
    <2>5. /\ free' \in 0 .. MAX_RX_DCBS /\ cur' \in Slots /\ running' \in BOOLEAN
          /\ skb' \in [Slots -> Bufs \union {NoBuf}] /\ chained' \in [Slots -> BOOLEAN]
          /\ hw' \in Slots \union {Halted} /\ late' \in BOOLEAN /\ desc_done' \in BOOLEAN
          /\ RxAccounting' /\ Wrap' /\ Chains' /\ PostedBufs'
          /\ ~started => ~Fresh'
        BY <2>1, <2>2, <2>3, <2>4, RestartStep
    <2>6. Called'
        BY <1>3, <1>4, <2>5, AllLeft
    <2>7. Status' /\ chain_done' \in BOOLEAN
        <3>1. CASE started
            <4>1. chain_done' = FALSE
                BY <2>1, <3>1 DEF RefillAndRestart, StartChannel
            <4> QED BY <4>1, <1>3, <1>4, AwayFacts DEF Status
        <3>2. CASE ~started
            BY <3>2, <2>4, <2>5, <1>2, <1>3, <1>4, AwayFacts DEF Status, RingInv, TypeOK
        <3> QED BY <3>1, <3>2
    <2>8. TypeOK'
        BY <1>1, <1>2, <2>2, <2>3, <2>5, <2>7 DEF RingInv, TypeOK, Places, api, history
    <2> QED BY <2>5, <2>6, <2>7, <2>8 DEF RingInv
<1>5. CASE UNCHANGED <<ring, running, chain_complete, engine>>
    <2>1. RxAccounting' /\ Wrap' /\ Chains' /\ PostedBufs' /\ (Fresh' <=> Fresh)
        BY <1>5, SameRing DEF ring, engine, RingInv, Wrap
    <2>2. Called' /\ Status'
        BY <1>1, <1>5, <2>1 DEF RingInv, Called, Place, Status, ring, engine
    <2>3. TypeOK'
        BY <1>1, <1>2, <1>5 DEF RingInv, TypeOK, ring, engine, api, history
    <2> QED BY <2>1, <2>2, <2>3 DEF RingInv
<1> QED BY <1>1, <1>4, <1>5

\* What an abort and clean-up of the channel leaves.
LEMMA AbortStep ==
    ASSUME Quiet, RingInv, AbortAndClean, rx_chans' \in {0, 1}, free' \in 0 .. MAX_RX_DCBS
    PROVE  /\ \A i \in Slots : ~done[i]
           /\ late' = FALSE /\ api_wait' = FALSE
           /\ api_left' \in 0 .. ApiChainLen /\ api_queued' \in 0 .. MaxApiChains
           /\ resets' \in 0 .. MaxResets /\ twice' \in BOOLEAN
           /\ timer' \in BOOLEAN /\ site' \in Sites /\ stack' \in SUBSET Bufs
           /\ ctx' \in [Callers -> Places] /\ ctx'["irq"] = Away /\ Called'
           /\ Cleaned \in [Slots -> Bufs \union {NoBuf}]
<1> USE RxAssumption
<1>1. /\ RingFree /\ resets' = resets + rx_chans /\ resets' =< MaxResets
      /\ UNCHANGED <<timer, site, ctx, stack>>
      /\ late' = FALSE /\ api_wait' = FALSE
      /\ api_left' = 0 /\ api_queued' = 0
      /\ twice' = (twice \/ \E i \in Slots : Posted(i) /\ skb[i] \in stack)
    BY DEF AbortAndClean
<1>2. \A i \in Slots : ~done[i]
    BY DEF AbortAndClean, Quiet
<1>3. /\ \A d \in Callers : ctx[d] = Away
      /\ ctx \in [Callers -> Places] /\ "irq" \in Callers /\ ctx = [d \in Callers |-> ctx[d]]
    BY <1>1, AllAway, PlaceParts DEF Callers
<1>4. ctx' \in [Callers -> Places] /\ ctx' \in [Callers -> {Away}] /\ ctx'["irq"] = Away
    BY <1>1, <1>3
<1>5. Called'
    BY <1>4, AllLeft
<1>6. resets' \in 0 .. MaxResets /\ twice' \in BOOLEAN
    BY <1>1 DEF RingInv, TypeOK
<1>7. Cleaned \in [Slots -> Bufs \union {NoBuf}]
    BY DEF Cleaned, RingInv, TypeOK
<1>8. timer' \in BOOLEAN /\ site' \in Sites /\ stack' \in SUBSET Bufs
    BY <1>1 DEF RingInv, TypeOK
<1> QED BY <1>1, <1>2, <1>4, <1>5, <1>6, <1>7, <1>8

\* The status bits that are left belong to a channel that is not started.
LEMMA StatusLeft ==
    ASSUME Quiet, RingInv, RingFree, NEW started \in BOOLEAN, AbortStatus(started),
           ctx'["irq"] = Away, Fresh' => started
    PROVE  desc_done' \in BOOLEAN /\ chain_done' \in BOOLEAN /\ Status'
<1>1. desc_done \in BOOLEAN /\ chain_done \in BOOLEAN /\ ctx["irq"] = Away
    BY AllAway DEF RingInv, TypeOK, Callers
<1>2. chain_done => desc_done
    BY <1>1, AwayFacts DEF RingInv, Status
<1>3. /\ desc_done' \in BOOLEAN /\ chain_done' \in BOOLEAN /\ (chain_done' => desc_done')
      /\ started => ~chain_done'
    BY <1>1, <1>2 DEF AbortStatus
<1> QED BY <1>3, AwayFacts DEF Status

\* HW_RESET takes all descriptors back.
LEMMA ResetRing ==
    ASSUME Quiet, RingInv, HwReset
    PROVE  RingInv'
<1> USE RxAssumption
<1>1. /\ AbortAndClean /\ skb' = Cleaned /\ dirty' = Slot(dirty, free) /\ free' = 0
      /\ hw' = Halted /\ running' = FALSE /\ AbortStatus(FALSE)
      /\ UNCHANGED <<cur, done, chained, chain_complete, rx_chans>>
    BY DEF HwReset, CleanedDirty
<1>2. /\ free \in 0 .. MAX_RX_DCBS /\ cur \in Slots /\ cur = Slot(dirty, free) /\ 0 \in Slots
      /\ rx_chans \in {0, 1} /\ 0 \in 0 .. MAX_RX_DCBS
    BY RingIndices DEF RingInv, TypeOK, RxAccounting
<1>3. /\ \A i \in Slots : ~done[i]
      /\ late' = FALSE /\ api_wait' = FALSE
      /\ api_left' \in 0 .. ApiChainLen /\ api_queued' \in 0 .. MaxApiChains
      /\ resets' \in 0 .. MaxResets /\ twice' \in BOOLEAN
      /\ timer' \in BOOLEAN /\ site' \in Sites /\ stack' \in SUBSET Bufs
      /\ ctx' \in [Callers -> Places] /\ ctx'["irq"] = Away /\ Called'
      /\ Cleaned \in [Slots -> Bufs \union {NoBuf}]
    BY <1>1, <1>2, AbortStep
<1>4. desc_done' \in BOOLEAN /\ chain_done' \in BOOLEAN /\ Status'
    <2>1. RingFree
        BY <1>1 DEF AbortAndClean
    <2>2. ~Fresh'
        BY <1>1 DEF Fresh
    <2> QED BY <1>1, <1>3, <2>1, <2>2, StatusLeft
<1>5. RxAccounting'
    BY <1>1, <1>2 DEF RxAccounting, Slot, Slots
<1>6. \A i \in Slots : ~Posted(i)'
    BY <1>1, <1>2 DEF Posted, Ahead, Slots
<1>7. Chains' /\ PostedBufs'
    BY <1>1, <1>3, <1>6 DEF Chains, PostedBufs, RingInv
<1>8. ~Fresh' /\ hw' # 0
    BY <1>1 DEF Fresh, Halted
<1>9. Wrap'
    BY <1>1, <1>2, <1>3, <1>8 DEF Wrap
<1>10. TypeOK'
    BY <1>1, <1>2, <1>3, <1>4 DEF RingInv, TypeOK, Places
<1> QED BY <1>3, <1>4, <1>5, <1>7, <1>9, <1>10 DEF RingInv

\* HW_INIT starts from the first descriptor.
LEMMA RestartedRing ==
    ASSUME Quiet, RingInv, HwInit
    PROVE  RingInv'
<1> USE RxAssumption
<1>1. PICK k \in 0 .. MAX_RX_DCBS :
          /\ skb' \in Refilled(Cleaned, 0, k, MAX_RX_DCBS)
          /\ chained' = ChainBits(0, k, [i \in Slots |-> FALSE])
          /\ free' = k /\ cur' = Slot(0, k)
          /\ running' = Enough(k)
          /\ hw' = IF Enough(k) THEN 0 ELSE Halted
          /\ AbortStatus(Enough(k))
          /\ chain_complete' = (chain_complete /\ ~Enough(k))
    BY DEF HwInit
<1>2. AbortAndClean /\ done' = [i \in Slots |-> FALSE] /\ dirty' = 0 /\ rx_chans' = 1
    BY DEF HwInit
<1>3. /\ 0 \in Slots /\ chain_complete \in BOOLEAN /\ Enough(k) = (k = MAX_RX_DCBS)
      /\ cur' \in Slots
    BY <1>1, RingIndices, SlotIsSlot DEF RingInv, TypeOK, Enough
<1>4. /\ late' = FALSE /\ api_wait' = FALSE
      /\ api_left' \in 0 .. ApiChainLen /\ api_queued' \in 0 .. MaxApiChains
      /\ resets' \in 0 .. MaxResets /\ twice' \in BOOLEAN
      /\ timer' \in BOOLEAN /\ site' \in Sites /\ stack' \in SUBSET Bufs
      /\ ctx' \in [Callers -> Places] /\ ctx'["irq"] = Away /\ Called'
      /\ Cleaned \in [Slots -> Bufs \union {NoBuf}]
    BY <1>1, <1>2, AbortStep
<1>5. /\ skb' \in [Slots -> Bufs \union {NoBuf}]
      /\ \A j \in 0 .. k - 1 : skb'[Slot(0, j)] # NoBuf
    BY <1>1, <1>3, <1>4, RefilledFacts
<1>6. \A i \in Slots : Posted(i)' <=> i < k
    BY <1>1, <1>2, PostedFromZero
<1>7. \A i \in Slots : Slot(0, i) = i
    BY SlotsFromZero
<1>8. PostedBufs'
    <2>1. \A i \in Slots : i < k => i \in 0 .. k - 1
        BY DEF Slots
    <2> QED BY <1>5, <1>6, <1>7, <2>1 DEF PostedBufs
<1>9. /\ chained' \in [Slots -> BOOLEAN]
      /\ \A i \in Slots : chained'[i] <=> \E j \in 0 .. k - 1 : i + 1 = Slot(0, j)
    BY <1>1 DEF ChainBits
<1>10. Chains'
    <2>1. ~chained'[MAX_RX_DCBS - 1]
        <3>1. MAX_RX_DCBS - 1 \in Slots /\ \A j \in 0 .. k - 1 : MAX_RX_DCBS # Slot(0, j)
            BY DEF Slots, Slot
        <3> QED BY <1>9, <3>1
    <2>2. ASSUME NEW i \in Slots, i # 0, i < k PROVE chained'[i - 1]
        <3>1. i - 1 \in Slots /\ (i - 1) + 1 = i /\ i \in 0 .. k - 1
            BY <2>2 DEF Slots
        <3> QED BY <1>7, <1>9, <3>1
    <2> QED BY <1>4, <1>6, <2>1, <2>2 DEF Chains
<1>11. RxAccounting'
    BY <1>1, <1>2 DEF RxAccounting, Slot
<1>12. hw' \in Slots \union {Halted} /\ running' \in BOOLEAN /\ chain_complete' \in BOOLEAN
    BY <1>1, <1>3
<1>13. desc_done' \in BOOLEAN /\ chain_done' \in BOOLEAN /\ Status'
    <2>1. RingFree /\ ctx'["irq"] = Away
        BY <1>2, <1>4 DEF AbortAndClean
    <2>2. Enough(k) \in BOOLEAN /\ (Fresh' => Enough(k))
        BY <1>1, <1>3 DEF Fresh
    <2> QED BY <1>1, <2>1, <2>2, StatusLeft
<1>14. Wrap'
    <2>1. done'[0] = FALSE /\ dirty' = 0 /\ free' = k /\ running' = (k = MAX_RX_DCBS)
        BY <1>1, <1>2, <1>3
    <2>2. CASE k = MAX_RX_DCBS
        <3>1. hw' = 0 /\ running' = TRUE /\ chain_complete' = FALSE
            BY <1>1, <1>3, <2>2
        <3> QED BY <2>1, <2>2, <3>1 DEF Wrap, Fresh
    <2>3. CASE k # MAX_RX_DCBS
        <3>1. hw' = MAX_RX_DCBS /\ running' = FALSE
            BY <1>1, <1>3, <2>3 DEF Halted
        <3> QED BY <2>1, <2>3, <3>1 DEF Wrap, Fresh
    <2> QED BY <2>2, <2>3
<1>15. TypeOK'
    BY <1>1, <1>2, <1>3, <1>4, <1>5, <1>9, <1>12, <1>13 DEF RingInv, TypeOK, Places
<1> QED BY <1>4, <1>8, <1>10, <1>11, <1>13, <1>14, <1>15 DEF RingInv

\* The network stack frees a buffer, or nothing happens.
LEMMA IdleRing ==
    ASSUME RingInv, StackFrees \/ UNCHANGED vars
    PROVE  RingInv'
<1>1. /\ UNCHANGED <<ring, state, api, engine, ctx, history>> /\ stack' \in SUBSET Bufs
    BY DEF StackFrees, vars, RingInv, TypeOK
<1>2. RxAccounting' /\ Wrap' /\ Chains' /\ PostedBufs' /\ (Fresh' <=> Fresh)
    BY <1>1, SameRing DEF ring, state, engine, RingInv, Wrap
<1>3. Called' /\ Status'
    BY <1>1, <1>2 DEF RingInv, Called, Place, Status, ring, state, engine
<1>4. TypeOK'
    BY <1>1 DEF RingInv, TypeOK, ring, state, api, engine, history
<1> QED BY <1>2, <1>3, <1>4 DEF RingInv

\* The ring's invariant is inductive.
LEMMA NextRing == Quiet /\ RingInv /\ [Next]_vars => RingInv'
<1> SUFFICES ASSUME Quiet, RingInv, [Next]_vars PROVE RingInv'
    OBVIOUS
<1>1. CASE HwPacket \/ HwUpdate
    BY <1>1, EngineRing
<1>2. CASE StackFrees \/ UNCHANGED vars
    BY <1>2, IdleRing
<1>3. ASSUME NEW c \in Callers, DoSkbRx(c) PROVE RingInv'
    BY <1>3, TakeRing, MarkRing, BackRing, EndRing DEF DoSkbRx
<1>4. ASSUME NEW c \in Callers, NoRestart(c) \/ SyncRetry(c) \/ ChainDone(c) PROVE RingInv'
    BY <1>4, NoRestartRing, SyncRing, ChainDoneRing
<1>5. CASE IrqEnter \/ DmaInfoRx
    BY <1>5, EnterRing, InfoRing
<1>6. CASE Timer \/ RxTick
    BY <1>6, ResumeRing
<1>7. CASE HwReset \/ HwInit
    BY <1>7, ResetRing, RestartedRing
<1> QED BY <1>1, <1>2, <1>3, <1>4, <1>5, <1>6, <1>7 DEF Next

LEMMA RingAlways == ASSUME Quiet PROVE Spec => []RingInv
<1>1. RingInv /\ [Next]_vars => RingInv'
    BY NextRing
<1> QED BY InitRing, <1>1, PTL DEF Spec

\* The variables of the Rx channel keep their types and ranges: a call of bkn_do_skb_rx
\* takes no more descriptors than were posted, and rx.free neither goes below zero nor
\* above the size of the ring, whatever the budget and wherever the packets go.
THEOREM RxTypeCorrect == ASSUME Quiet PROVE Spec => []TypeOK
<1>1. RingInv => TypeOK
    BY DEF RingInv
<1> QED BY RingAlways, <1>1, PTL

\* rx.cur is rx.free slots after rx.dirty, through refills that stop half-way, restarts,
\* waits for the API, HW_RESET and HW_INIT.
THEOREM RxAccountingCorrect == ASSUME Quiet PROVE Spec => []RxAccounting
<1>1. RingInv => RxAccounting
    BY DEF RingInv
<1> QED BY RingAlways, <1>1, PTL

-----------------------------------------------------------------------------
(* Who has which buffer.                                                   *)

\* The buffers stay in their slots, and the stack gets none.
LEMMA OwnedSame ==
    ASSUME BufferOwnership, skb' = skb, stack' \subseteq stack,
           \A c \in Callers : Out(c) => ctx'[c].at = "out" /\ ctx'[c].slot = ctx[c].slot
    PROVE  BufferOwnership'
<1> SUFFICES ASSUME NEW i \in Slots, skb[i] # NoBuf
             PROVE  /\ \A j \in Slots : i # j => skb[i] # skb[j]
                    /\ skb[i] \in stack => \E c \in Callers : Out(c)' /\ ctx'[c].slot = i
    BY DEF BufferOwnership
<1>1. /\ \A j \in Slots : i # j => skb[i] # skb[j]
      /\ skb[i] \in stack => \E c \in Callers : Out(c) /\ ctx[c].slot = i
    BY DEF BufferOwnership
<1> QED BY <1>1 DEF Out

\* The buffer at rx.dirty leaves its slot, the others stay, and the stack has no other.
LEMMA OwnedWithout ==
    ASSUME RingInv, BufferOwnership, stack' \subseteq stack \union {skb[dirty]},
           skb' = [skb EXCEPT ![dirty] = NoBuf],
           \A c \in Callers : Out(c) => ctx[c].slot = dirty
    PROVE  BufferOwnership'
<1> SUFFICES ASSUME NEW i \in Slots, skb'[i] # NoBuf
             PROVE  /\ \A j \in Slots : i # j => skb'[i] # skb'[j]
                    /\ skb'[i] \notin stack'
    BY DEF BufferOwnership
<1>1. /\ dirty \in Slots /\ i # dirty /\ skb'[i] = skb[i]
      /\ \A j \in Slots : j # dirty => skb'[j] = skb[j]
    BY DEF RingInv, TypeOK
<1>2. skb'[dirty] = NoBuf
    BY <1>1 DEF RingInv, TypeOK
<1>3. /\ \A j \in Slots : i # j => skb[i] # skb[j]
      /\ skb[i] \notin stack
    BY <1>1 DEF BufferOwnership
<1> QED BY <1>1, <1>2, <1>3

\* bkn_rx_refill, while no packet is given to the stack.
LEMMA OwnedRefilled ==
    ASSUME NEW kept \in [Slots -> Bufs \union {NoBuf}], NEW from \in Slots,
           NEW limit \in 0 .. MAX_RX_DCBS, NEW k \in 0 .. limit,
           skb' \in Refilled(kept, from, k, limit), stack' = stack,
           \A i \in Slots : kept[i] = skb[i] \/ kept[i] = NoBuf,
           BufferOwnership, \A c \in Callers : ~Out(c)
    PROVE  BufferOwnership'
<1> SUFFICES ASSUME NEW i \in Slots, skb'[i] # NoBuf
             PROVE  /\ \A j \in Slots : i # j => skb'[i] # skb'[j]
                    /\ skb'[i] \notin stack
    BY DEF BufferOwnership
<1>1. /\ \A j, l \in Slots : /\ j # l /\ skb'[j] = skb'[l] /\ skb'[j] # NoBuf
                             => kept[j] = kept[l] /\ kept[j] = skb'[j]
      /\ \/ skb'[i] = kept[i] \/ skb'[i] = NoBuf
         \/ skb'[i] \notin stack
    BY RefilledFacts
<1>2. \A j, l \in Slots : j # l /\ kept[j] = kept[l] => kept[j] = NoBuf
    BY DEF BufferOwnership
<1>3. kept[i] # NoBuf => kept[i] \notin stack
    BY DEF BufferOwnership
<1> QED BY <1>1, <1>2, <1>3

\* Nobody is out while another caller is in bkn_do_skb_rx.
LEMMA NobodyOut ==
    ASSUME RingInv
    PROVE  /\ \A c \in Callers : ctx[c].at \in {"rx", "chain"} => \A d \in Callers : ~Out(d)
           /\ Quiet /\ RingFree => \A d \in Callers : ~Out(d)
<1>1. ASSUME NEW c \in Callers, ctx[c].at \in {"rx", "chain"}, NEW d \in Callers PROVE ~Out(d)
    BY <1>1 DEF RingInv, Called, Out
<1>2. Quiet /\ RingFree => \A d \in Callers : ~Out(d)
    BY AllAway, AwayFacts DEF Out
<1> QED BY <1>1, <1>2

LEMMA InitOwned == Init => BufferOwnership
<1> SUFFICES ASSUME Init PROVE BufferOwnership
    OBVIOUS
<1>1. \A i \in Slots : skb[i] = NoBuf
    BY DEF Init
<1> QED BY <1>1 DEF BufferOwnership

\* Only bkn_do_skb_rx gives buffers to the stack.
LEMMA TakeOwned ==
    ASSUME RingInv, BufferOwnership, NEW c \in Callers, DoSkbRx(c)
    PROVE  BufferOwnership'
<1>1. ctx \in [Callers -> Places] /\ dirty \in Slots
    BY PlaceParts DEF RingInv, TypeOK
<1>2. CASE RxDrop(c) \/ RxToApi(c)
    <2>1. /\ Taking(c) /\ ctx' = [ctx EXCEPT ![c].n = @ + 1]
          /\ UNCHANGED <<skb, stack>>
        BY <1>2 DEF RxDrop, RxToApi, history
    <2>2. \A d \in Callers : ~Out(d)
        BY <2>1, NobodyOut DEF Taking
    <2> QED BY <2>1, <2>2, OwnedSame
<1>3. CASE RxApiWait(c) \/ RxEnd(c)
    <2>1. ctx[c].at = "rx" /\ UNCHANGED <<skb, stack>>
        BY <1>3 DEF RxApiWait, RxEnd, Taking, ring, history
    <2>2. \A d \in Callers : ~Out(d)
        BY <2>1, NobodyOut
    <2> QED BY <2>1, <2>2, OwnedSame
<1>4. CASE RxCallback(c) \/ RxUp(c)
    <2>1. Taking(c) /\ stack' = stack \union {skb[dirty]}
        BY <1>4 DEF RxCallback, RxUp
    <2>2. skb[dirty] \in Bufs
        BY <2>1, TakingFacts
    <2>3. \A d \in Callers : ~Out(d)
        BY <2>1, NobodyOut DEF Taking
    <2>4. skb[dirty] # NoBuf /\ skb[dirty] \notin stack
        BY <1>1, <2>2, <2>3, RxAssumption DEF BufferOwnership
    <2>6. CASE RxCallback(c)
        <3>1. skb' = [skb EXCEPT ![dirty] = NoBuf]
            BY <2>6 DEF RxCallback
        <3> QED BY <2>1, <2>3, <3>1, OwnedWithout
    <2>7. CASE RxUp(c)
        <3>1. skb' = skb /\ ctx'[c].at = "out" /\ ctx'[c].slot = dirty
            BY <1>1, <2>7 DEF RxUp, ring, Places
        <3>2. \A i \in Slots : skb[i] # NoBuf =>
                  skb[i] \notin stack /\ \A j \in Slots : i # j => skb[i] # skb[j]
            BY <2>3 DEF BufferOwnership
        <3>3. \A i \in Slots : skb[i] \in stack' /\ skb[i] # NoBuf => i = dirty
            BY <1>1, <2>1, <3>2
        <3> QED BY <3>1, <3>2, <3>3 DEF BufferOwnership, Out
    <2> QED BY <1>4, <2>6, <2>7
<1>5. CASE RxBack(c)
    <2>1. /\ ctx[c].at = "out" /\ ctx[c].slot = dirty
          /\ \A d \in Callers : Out(d) => ctx[d].slot = dirty
        BY <1>5, PlaceParts DEF RxBack, Out, Place
    <2>2. skb' = [skb EXCEPT ![dirty] = NoBuf] /\ UNCHANGED stack
        BY <1>5, <2>1 DEF RxBack, ForgetSkb, history
    <2> QED BY <2>1, <2>2, OwnedWithout
<1> QED BY <1>2, <1>3, <1>4, <1>5 DEF DoSkbRx

\* bkn_rx_refill and bkn_rx_restart post buffers that are used nowhere else.
LEMMA RestartOwned ==
    ASSUME RingInv, BufferOwnership, NEW started \in BOOLEAN, RefillAndRestart(started),
           UNCHANGED stack, \A c \in Callers : ~Out(c)
    PROVE  BufferOwnership'
<1>1. PICK k \in 0 .. Vacant : skb' \in Refilled(skb, cur, k, Vacant)
    BY DEF RefillAndRestart
<1>2. /\ skb \in [Slots -> Bufs \union {NoBuf}] /\ cur \in Slots
      /\ Vacant \in 0 .. MAX_RX_DCBS
    BY RxAssumption DEF RingInv, TypeOK, Vacant
<1> QED BY <1>1, <1>2, OwnedRefilled

\* HW_RESET and HW_INIT free the buffers of posted slots, none of which the stack has.
LEMMA ResetOwned ==
    ASSUME Quiet, RingInv, BufferOwnership, HwReset \/ HwInit
    PROVE  BufferOwnership'
<1>1. AbortAndClean
    BY DEF HwReset, HwInit
<1>2. RingFree /\ stack' = stack
    BY <1>1 DEF AbortAndClean
<1>3. \A d \in Callers : ~Out(d)
    BY <1>2, NobodyOut
<1>6. /\ Cleaned \in [Slots -> Bufs \union {NoBuf}]
      /\ \A i \in Slots : Cleaned[i] = skb[i] \/ Cleaned[i] = NoBuf
    BY DEF Cleaned, RingInv, TypeOK
<1>7. CASE HwReset
    <2>1. skb' = Cleaned
        BY <1>7 DEF HwReset
    <2> QED BY <1>2, <1>3, <1>6, <2>1 DEF BufferOwnership
<1>8. CASE HwInit
    <2>1. PICK k \in 0 .. MAX_RX_DCBS : skb' \in Refilled(Cleaned, 0, k, MAX_RX_DCBS)
        BY <1>8 DEF HwInit
    <2>2. 0 \in Slots /\ MAX_RX_DCBS \in 0 .. MAX_RX_DCBS
        BY RingIndices, RxAssumption
    <2> QED BY <1>2, <1>3, <1>6, <2>1, <2>2, OwnedRefilled
<1> QED BY <1>7, <1>8

LEMMA NextOwned == Quiet /\ RingInv /\ BufferOwnership /\ [Next]_vars => BufferOwnership'
<1> SUFFICES ASSUME Quiet, RingInv, BufferOwnership, [Next]_vars PROVE BufferOwnership'
    OBVIOUS
<1>1. ctx \in [Callers -> Places]
    BY PlaceParts DEF RingInv, TypeOK, Places
<1>2. CASE HwPacket \/ HwUpdate \/ StackFrees \/ UNCHANGED vars
    <2>1. UNCHANGED <<skb, ctx>> /\ stack' \subseteq stack
        BY <1>2 DEF HwPacket, HwUpdate, StackFrees, vars, ring, history
    <2> QED BY <2>1, OwnedSame DEF Out
<1>3. ASSUME NEW c \in Callers, DoSkbRx(c) PROVE BufferOwnership'
    BY <1>3, TakeOwned
<1>4. ASSUME NEW c \in Callers, NoRestart(c) \/ SyncRetry(c) PROVE BufferOwnership'
    <2>1. ctx[c].at = "chain" /\ UNCHANGED <<skb, stack>>
        BY <1>4 DEF NoRestart, SyncRetry, ring, history
    <2>2. \A d \in Callers : ~Out(d)
        BY <2>1, NobodyOut
    <2> QED BY <2>1, <2>2, OwnedSame
<1>5. ASSUME NEW c \in Callers, ChainDone(c) PROVE BufferOwnership'
    <2>1. /\ ctx[c].at = "chain" /\ UNCHANGED stack
          /\ \E started \in BOOLEAN : RefillAndRestart(started)
        BY <1>5 DEF ChainDone, history
    <2> QED BY <2>1, NobodyOut, RestartOwned
<1>6. CASE IrqEnter \/ DmaInfoRx
    <2>1. RingFree \/ ctx' = ctx
        BY <1>6, InfoCases DEF IrqEnter
    <2>2. UNCHANGED <<skb, stack>>
        BY <1>6 DEF IrqEnter, DmaInfoRx, ring
    <2> QED BY <2>1, <2>2, NobodyOut, OwnedSame DEF Out
<1>7. CASE Timer \/ RxTick
    <2>1. CASE Resume
        <3>1. RingFree /\ UNCHANGED stack
            BY <1>7, <2>1, WhoIsOut DEF Timer, RxTick, Resume
        <3>2. \E started \in BOOLEAN : RefillAndRestart(started)
            BY <2>1 DEF Resume
        <3> QED BY <3>1, <3>2, NobodyOut, RestartOwned
    <2>2. CASE ~Resume
        <3>1. UNCHANGED <<skb, stack, ctx>>
            BY <1>7, <2>2 DEF Timer, RxTick, ring
        <3> QED BY <3>1, OwnedSame DEF Out
    <2> QED BY <2>1, <2>2
<1>8. CASE HwReset \/ HwInit
    BY <1>8, ResetOwned
<1> QED BY <1>2, <1>3, <1>4, <1>5, <1>6, <1>7, <1>8 DEF Next

LEMMA OwnedAlways == ASSUME Quiet PROVE Spec => [](RingInv /\ BufferOwnership)
<1>1. RingInv /\ BufferOwnership /\ [Next]_vars => (RingInv /\ BufferOwnership)'
    BY NextRing, NextOwned
<1> QED BY InitRing, InitOwned, <1>1, PTL DEF Spec

\* A buffer is posted in one slot at most, and a buffer the network stack holds is in no
\* slot but the one whose packet is being given to it: bkn_rx_refill never posts a buffer
\* that is still used, whatever it finds in rx.desc[i].skb.
THEOREM BufferOwnershipCorrect == ASSUME Quiet PROVE Spec => []BufferOwnership
BY OwnedAlways, PTL

-----------------------------------------------------------------------------
(* The engine's place on the ring.                                         *)

\* Descriptor memory is never updated late on a channel with packets for the API, and the
\* interrupt may take a whole ring at once if there are packets for the API.
Usual ==
    /\ Quiet
    /\ "both" \notin Sites
    /\ Budget >= MAX_RX_DCBS \/ Sites \subseteq {"late"}

\* All descriptors of the chain were taken.
Wrapped == dirty = 0 /\ free < MAX_RX_DCBS

\* The descriptors between rx.dirty and the engine are done, and no other.  The engine has
\* stopped on a channel that does not run or whose chain was taken.
Front ==
    /\ \A i \in Slots : done[i] <=> running /\ ~Wrapped /\ dirty =< i /\ i < hw
    /\ running /\ ~Wrapped => dirty =< hw
    /\ ~running \/ Wrapped => hw = Halted

\* rx.chain_complete: the last packet of the chain was seen, and either taken or it is the
\* one a caller works on or the API has no buffer for.
Complete ==
    /\ running /\ Wrapped => chain_complete
    /\ running /\ chain_complete /\ ~Wrapped =>
          /\ dirty = MAX_RX_DCBS - 1 /\ done[dirty]
          /\ api_wait \/ \E c \in Callers : Out(c) \/ (site # "late" /\ ctx[c].at = "rx")
    /\ \A c \in Callers : Out(c) => chain_complete \/ chained[dirty]

\* Only the API makes a channel wait, one that runs, and only late memory, or a chain-done
\* bit that an abort left, makes a caller retry.
SitesInv ==
    /\ late => site = "late"
    /\ api_wait => running
    /\ api_wait \/ ctx["cmd"].at # "away" => site # "late"
    /\ ~ctx["cmd"].retry /\ ~ctx["cmd"].chain
    /\ ctx["irq"].retry => site = "late" \/ ~running

\* The chain-done bit and the end of the chain.
Ended ==
    /\ chain_done \/ ctx["irq"].chain => (running => hw = Halted \/ (late /\ ~chained[hw]))
    /\ late /\ ~chained[hw] => chain_done \/ ctx["irq"].chain
    /\ running /\ hw = Halted /\ ~api_wait =>
          \/ chain_done \/ ctx["irq"].chain \/ ctx["cmd"].at \in {"rx", "out"}
          \/ (ctx["cmd"].at = "chain" /\ chain_complete)
    /\ running /\ site # "late" /\ ctx["irq"].at = "chain" /\ ctx["irq"].chain /\ ~api_wait =>
          chain_complete

EngineInv == Front /\ Complete /\ SitesInv /\ Ended

\* Types of what the engine's invariant is about.
LEMMA EngineTypes ==
    ASSUME RingInv
    PROVE  /\ hw \in 0 .. MAX_RX_DCBS /\ Halted = MAX_RX_DCBS /\ dirty \in Slots
           /\ free \in 0 .. MAX_RX_DCBS /\ MAX_RX_DCBS \in Nat /\ MAX_RX_DCBS >= 2
           /\ done \in [Slots -> BOOLEAN] /\ chained \in [Slots -> BOOLEAN]
           /\ running \in BOOLEAN /\ chain_complete \in BOOLEAN /\ api_wait \in BOOLEAN
           /\ late \in BOOLEAN /\ desc_done \in BOOLEAN /\ chain_done \in BOOLEAN /\ site \in Sites
           /\ "irq" \in Callers /\ "cmd" \in Callers
           /\ \A c \in Callers : ctx[c].chain \in BOOLEAN /\ ctx[c].retry \in BOOLEAN
BY RxAssumption, PlaceParts DEF RingInv, TypeOK, Halted, Slots, Callers

\* The chain bits of a running channel: all but the last descriptor of the ring are chained.
LEMMA ChainedAhead ==
    ASSUME RingInv, running, ~Wrapped, NEW i \in Slots, dirty =< i
    PROVE  /\ chained[i] <=> i # MAX_RX_DCBS - 1
           /\ Posted(i)
<1> USE EngineTypes
<1>1. dirty = 0 => free = MAX_RX_DCBS
    BY DEF Wrapped
<1>2. free >= MAX_RX_DCBS - dirty
    BY <1>1 DEF RingInv, Wrap
<1>3. \A j \in Slots : dirty =< j => Posted(j)
    BY <1>2 DEF Posted, Ahead, Slots
<1>4. ASSUME i # MAX_RX_DCBS - 1 PROVE chained[i]
    <2>1. i + 1 \in Slots /\ dirty =< i + 1 /\ i + 1 # 0 /\ (i + 1) - 1 = i
        BY <1>4 DEF Slots
    <2>2. Posted(i + 1)
        BY <2>1, <1>3
    <2> QED BY <2>1, <2>2 DEF RingInv, Chains
<1>5. ~chained[MAX_RX_DCBS - 1]
    BY DEF RingInv, Chains
<1> QED BY <1>3, <1>4, <1>5

\* Where an engine that has not stopped is.
LEMMA EngineOn ==
    ASSUME RingInv, Front, hw # Halted
    PROVE  /\ running /\ ~Wrapped /\ hw \in Slots /\ dirty =< hw /\ ~done[hw] /\ Posted(hw)
           /\ chained[hw] <=> hw # MAX_RX_DCBS - 1
<1>1. running /\ ~Wrapped /\ hw \in Slots
    BY EngineTypes DEF Front, Slots
<1>2. dirty =< hw /\ ~done[hw]
    BY <1>1, EngineTypes DEF Front
<1> QED BY <1>1, <1>2, ChainedAhead

\* A descriptor that is done belongs to a running channel; the last one ends the chain.
LEMMA DoneFacts ==
    ASSUME RingInv, Front, done[dirty]
    PROVE  /\ running /\ ~Wrapped /\ dirty < hw
           /\ chained[dirty] <=> dirty # MAX_RX_DCBS - 1
           /\ dirty = MAX_RX_DCBS - 1 => hw = Halted
<1>1. running /\ ~Wrapped /\ dirty < hw
    BY EngineTypes DEF Front
<1>2. chained[dirty] <=> dirty # MAX_RX_DCBS - 1
    BY <1>1, EngineTypes, ChainedAhead DEF Slots
<1> QED BY <1>1, <1>2, EngineTypes DEF Slots

\* A step of neither the engine nor the ring.
LEMMA SameFront ==
    ASSUME Front, UNCHANGED <<dirty, free, done, hw, running>>
    PROVE  Front' /\ (Wrapped' <=> Wrapped)
BY DEF Front, Wrapped, Halted, Slots

LEMMA InitEngine == Init => EngineInv
<1> SUFFICES ASSUME Init PROVE EngineInv
    OBVIOUS
<1>1. \A c \in Callers : ctx[c] = Away
    BY DEF Init
<1>2. ctx["irq"] = Away /\ ctx["cmd"] = Away
    BY <1>1 DEF Callers
<1>3. Front
    BY DEF Init, Front, Halted
<1>4. Complete
    BY <1>1, <1>2, AwayFacts DEF Init, Complete, Out
<1>5. SitesInv /\ Ended
    BY <1>2, AwayFacts DEF Init, SitesInv, Ended
<1> QED BY <1>3, <1>4, <1>5 DEF EngineInv

\* The engine fills the buffer it is at: the next descriptor's turn, or the end of the ring.
LEMMA FinishFront ==
    ASSUME RingInv, Front, hw # Halted, Finish, UNCHANGED <<dirty, free, running, chained>>
    PROVE  /\ Front' /\ (Wrapped' <=> Wrapped) /\ hw' = hw + 1
           /\ hw' = Halted <=> ~chained[hw]
<1> USE EngineTypes
<1>1. /\ running /\ ~Wrapped /\ hw \in Slots /\ dirty =< hw
      /\ chained[hw] <=> hw # MAX_RX_DCBS - 1
    BY EngineOn
<1>2. done' = [done EXCEPT ![hw] = TRUE] /\ hw' = IF chained[hw] THEN hw + 1 ELSE Halted
    BY DEF Finish
<1>3. hw' = hw + 1 /\ (hw' = Halted <=> ~chained[hw])
    <2>1. CASE chained[hw]
        <3>1. hw' = hw + 1 /\ hw # MAX_RX_DCBS - 1
            BY <1>1, <1>2, <2>1
        <3> QED BY <2>1, <3>1, <1>1
    <2>2. CASE ~chained[hw]
        <3>1. hw' = Halted /\ hw = MAX_RX_DCBS - 1
            BY <1>1, <1>2, <2>2
        <3> QED BY <2>2, <3>1
    <2> QED BY <2>1, <2>2
<1>4. Wrapped' <=> Wrapped
    BY DEF Wrapped
<1>5. ASSUME NEW i \in Slots PROVE done'[i] <=> dirty =< i /\ i < hw + 1
    <2>1. done'[i] <=> done[i] \/ i = hw
        BY <1>1, <1>2
    <2>2. done[i] <=> dirty =< i /\ i < hw
        BY <1>1 DEF Front
    <2> QED BY <2>1, <2>2, <1>1 DEF Slots
<1>6. Front'
    <2>1. running' /\ ~Wrapped' /\ dirty' =< hw'
        BY <1>1, <1>3, <1>4 DEF Slots
    <2>2. \A i \in Slots : done'[i] <=> dirty' =< i /\ i < hw'
        BY <1>3, <1>5
    <2> QED BY <2>1, <2>2 DEF Front
<1> QED BY <1>3, <1>4, <1>6

\* A packet arrives, or descriptor memory is updated.
LEMMA EngineEngine ==
    ASSUME Usual, RingInv, EngineInv, HwPacket \/ HwUpdate
    PROVE  EngineInv'
<1> USE EngineTypes DEF EngineInv
<1>1. hw # Halted
    BY DEF HwPacket, HwUpdate, RingInv, Chains
<1>2. running /\ ~Wrapped /\ hw \in Slots /\ dirty =< hw
    BY <1>1, EngineOn
<1>3. UNCHANGED <<free, dirty, chained, running, chain_complete, api_wait, ctx, site>>
    BY DEF HwPacket, HwUpdate, state
<1>4. ~chain_complete
    BY <1>1, <1>2, DoneFacts DEF Complete
<1>5. \A c \in Callers : Out(c)' <=> Out(c)
    BY <1>3 DEF Out
<1>6. CASE HwPacket
    <2>1. ~late /\ chain_done' = (chain_done \/ ~chained[hw]) /\ ~chain_done /\ ~ctx["irq"].chain
        BY <1>1, <1>2, <1>6 DEF HwPacket, Ended
    <2>2. CASE Finish /\ UNCHANGED late
        <3>1. Front' /\ (Wrapped' <=> Wrapped) /\ (hw' = Halted <=> ~chained[hw])
            BY <1>1, <1>3, <2>2, FinishFront
        <3>2. Complete'
            BY <1>2, <1>3, <1>4, <1>5, <3>1 DEF Complete
        <3>3. SitesInv'
            BY <1>3, <2>2 DEF SitesInv
        <3>4. Ended'
            BY <1>2, <1>3, <2>1, <2>2, <3>1 DEF Ended
        <3> QED BY <3>1, <3>2, <3>3, <3>4
    <2>3. CASE site \in {"late", "both"} /\ late' = TRUE /\ UNCHANGED <<done, hw>>
        <3>1. Front' /\ (Wrapped' <=> Wrapped)
            BY <1>3, <2>3, SameFront
        <3>2. Complete'
            BY <1>2, <1>3, <1>4, <1>5, <3>1 DEF Complete
        <3>3. site = "late"
            BY <2>3 DEF Usual
        <3>4. SitesInv'
            BY <1>3, <3>3 DEF SitesInv
        <3>5. Ended'
            BY <1>1, <1>3, <2>1, <2>3, <3>3 DEF Ended
        <3> QED BY <3>1, <3>2, <3>4, <3>5
    <2> QED BY <1>6, <2>2, <2>3 DEF HwPacket
<1>7. CASE HwUpdate
    <2>1. late /\ Finish /\ late' = FALSE /\ UNCHANGED chain_done /\ site = "late"
        BY <1>7 DEF HwUpdate, SitesInv
    <2>2. Front' /\ (Wrapped' <=> Wrapped) /\ (hw' = Halted <=> ~chained[hw])
        BY <1>1, <1>3, <2>1, FinishFront
    <2>3. Complete'
        BY <1>2, <1>3, <1>4, <1>5, <2>2 DEF Complete
    <2>4. SitesInv'
        BY <1>3, <2>1 DEF SitesInv
    <2>5. Ended'
        BY <1>1, <1>2, <1>3, <2>1, <2>2 DEF Ended
    <2> QED BY <2>2, <2>3, <2>4, <2>5
<1> QED BY <1>6, <1>7

\* The next descriptor is handed back: the chain is taken if it was the last.
LEMMA AdvanceFront ==
    ASSUME RingInv, Front, done[dirty], Advance(dirty), UNCHANGED <<hw, running>>
    PROVE  Front' /\ (Wrapped' <=> dirty = MAX_RX_DCBS - 1)
<1> USE EngineTypes
<1>1. /\ running /\ ~Wrapped /\ dirty < hw
      /\ dirty = MAX_RX_DCBS - 1 => hw = Halted
    BY DoneFacts
<1>2. /\ done' = [done EXCEPT ![dirty] = FALSE]
      /\ dirty' = Slot(dirty, 1) /\ free' = free - 1 /\ free \in 1 .. MAX_RX_DCBS
    BY <1>1, TakenPosted DEF Advance
<1>3. dirty' = IF dirty = MAX_RX_DCBS - 1 THEN 0 ELSE dirty + 1
    BY <1>2 DEF Slot, Slots
<1>4. Wrapped' <=> dirty = MAX_RX_DCBS - 1
    BY <1>2, <1>3 DEF Wrapped, Slots
<1>5. \A i \in Slots : done'[i] <=> dirty =< i /\ i < hw /\ i # dirty
    BY <1>1, <1>2 DEF Front
<1>6. CASE dirty = MAX_RX_DCBS - 1
    <2>1. \A i \in Slots : ~done'[i]
        BY <1>5, <1>6 DEF Slots
    <2> QED BY <1>1, <1>4, <1>6, <2>1 DEF Front, Halted
<1>7. CASE dirty # MAX_RX_DCBS - 1
    <2>1. dirty' = dirty + 1
        BY <1>3, <1>7
    <2>2. \A i \in Slots : done'[i] <=> dirty' =< i /\ i < hw'
        BY <1>5, <2>1 DEF Slots
    <2>3. dirty' =< hw'
        BY <1>1, <2>1 DEF Slots
    <2> QED BY <1>1, <1>4, <1>7, <2>2, <2>3 DEF Front
<1> QED BY <1>4, <1>6, <1>7

\* What MarkComplete says: the chain is complete from its last descriptor on.
LEMMA MarkEngine ==
    ASSUME RingInv, EngineInv, done[dirty], MarkComplete
    PROVE  chain_complete' <=> dirty = MAX_RX_DCBS - 1
<1>1. chain_complete => dirty = MAX_RX_DCBS - 1
    BY DoneFacts DEF EngineInv, Complete
<1>2. chained[dirty] <=> dirty # MAX_RX_DCBS - 1
    BY DoneFacts DEF EngineInv
<1> QED BY <1>1, <1>2, EngineTypes DEF MarkComplete

\* The packet is dropped, copied for the API, or consumed by the call-back.
LEMMA TakeEngine ==
    ASSUME RingInv, EngineInv, NEW c \in Callers, RxDrop(c) \/ RxToApi(c) \/ RxCallback(c)
    PROVE  EngineInv'
<1> USE EngineTypes DEF EngineInv
<1>1. Taking(c) /\ MarkComplete /\ Advance(dirty) /\ ctx' = [ctx EXCEPT ![c].n = @ + 1]
      /\ UNCHANGED <<cur, chained, running, api_wait, timer, rx_chans, engine, resets>>
    <2>1. CASE RxDrop(c)
        BY <2>1 DEF RxDrop, history
    <2>2. CASE RxToApi(c)
        BY <2>2 DEF RxToApi, history
    <2>3. CASE RxCallback(c)
        BY <2>3 DEF RxCallback
    <2> QED BY <2>1, <2>2, <2>3
<1>2. ctx[c].at = "rx" /\ running /\ done[dirty]
    BY <1>1, TakingFacts
<1>3. /\ \A d \in Callers : d # c => ctx[d] = Away
      /\ \A d \in Callers : /\ ctx'[d].at = ctx[d].at /\ ctx'[d].chain = ctx[d].chain
                            /\ ctx'[d].retry = ctx[d].retry /\ ~Out(d) /\ ~Out(d)'
    <2>1. \A d \in Callers : ~Out(d)
        BY <1>2, NobodyOut
    <2> QED BY <1>1, <1>2, <2>1, PlaceParts, Alone DEF Places, Out
<1>4. UNCHANGED <<hw, late, chain_done, site, running, chained, api_wait>>
    BY <1>1 DEF engine
<1>5. Front' /\ (Wrapped' <=> dirty = MAX_RX_DCBS - 1)
    BY <1>1, <1>2, <1>4, AdvanceFront
<1>6. chain_complete' <=> dirty = MAX_RX_DCBS - 1
    BY <1>1, <1>2, MarkEngine
<1>7. Complete'
    BY <1>2, <1>3, <1>4, <1>5, <1>6 DEF Complete
<1>8. SitesInv'
    BY <1>3, <1>4 DEF SitesInv
<1>9. ctx["irq"].at # "chain" /\ ctx["cmd"].at # "chain"
    BY <1>2, <1>3, AwayFacts
<1>10. Ended'
    BY <1>3, <1>4, <1>9 DEF Ended
<1> QED BY <1>5, <1>7, <1>8, <1>10

\* The channel is suspended, or the packet goes to the stack.
LEMMA HandEngine ==
    ASSUME RingInv, EngineInv, NEW c \in Callers, RxApiWait(c) \/ RxUp(c)
    PROVE  EngineInv'
<1> USE EngineTypes DEF EngineInv
<1>1. /\ Taking(c) /\ MarkComplete
      /\ UNCHANGED <<ring, running, timer, rx_chans, engine, resets>>
    <2>1. CASE RxApiWait(c)
        BY <2>1 DEF RxApiWait, history
    <2>2. CASE RxUp(c)
        BY <2>2 DEF RxUp
    <2> QED BY <2>1, <2>2
<1>2. ctx[c].at = "rx" /\ running /\ done[dirty]
    BY <1>1, TakingFacts
<1>3. UNCHANGED <<dirty, free, done, chained, hw, late, chain_done, site, running>>
    BY <1>1 DEF engine, ring
<1>4. Front' /\ (Wrapped' <=> Wrapped) /\ ~Wrapped
    BY <1>2, <1>3, SameFront, DoneFacts
<1>5. /\ chain_complete' <=> dirty = MAX_RX_DCBS - 1
      /\ chained[dirty] <=> dirty # MAX_RX_DCBS - 1
    BY <1>1, <1>2, MarkEngine, DoneFacts
<1>6. /\ \A d \in Callers : d # c => ctx[d] = Away
      /\ \A d \in Callers : d # c => ctx'[d] = ctx[d]
      /\ ctx'[c].chain = ctx[c].chain /\ ctx'[c].retry = ctx[c].retry
    <2>1. ctx \in [Callers -> Places] /\ \A d \in Callers : d # c => ctx[d] = Away
        BY <1>2, PlaceParts, Alone
    <2>2. CASE RxApiWait(c)
        BY <2>1, <2>2 DEF RxApiWait, Places
    <2>3. CASE RxUp(c)
        BY <2>1, <2>3 DEF RxUp, Places
    <2> QED BY <2>1, <2>2, <2>3
<1>7. \A d \in Callers : ctx'[d].chain = ctx[d].chain /\ ctx'[d].retry = ctx[d].retry
    BY <1>6
<1>8. CASE RxApiWait(c)
    <2>1. api_wait' /\ site # "late" /\ ctx'[c].at = "chain"
        BY <1>8, PlaceParts DEF RxApiWait, Places
    <2>2. \A d \in Callers : ~Out(d)'
        BY <1>6, <2>1, AwayFacts DEF Out
    <2>3. Complete'
        BY <1>2, <1>3, <1>4, <1>5, <1>7, <2>1, <2>2 DEF Complete
    <2>4. SitesInv'
        BY <1>2, <1>3, <1>7, <2>1 DEF SitesInv
    <2>5. Ended'
        BY <1>3, <1>7, <2>1 DEF Ended
    <2> QED BY <1>4, <2>3, <2>4, <2>5
<1>9. CASE RxUp(c)
    <2>1. api_wait' = api_wait /\ ctx'[c].at = "out"
        BY <1>9, PlaceParts DEF RxUp, Places
    <2>2. Out(c)'
        BY <2>1 DEF Out
    <2>3. Complete'
        BY <1>2, <1>3, <1>4, <1>5, <1>7, <2>1, <2>2 DEF Complete
    <2>4. ctx["cmd"].at = "away" <=> ctx'["cmd"].at = "away"
        BY <1>2, <1>6, <2>1
    <2>5. SitesInv'
        BY <1>3, <1>7, <2>1, <2>4 DEF SitesInv
    <2>6. /\ ctx["cmd"].at \in {"rx", "out"} => ctx'["cmd"].at \in {"rx", "out"}
          /\ ctx["cmd"].at # "chain" /\ ctx'["irq"].at # "chain"
        BY <1>2, <1>6, <2>1, AwayFacts DEF Callers
    <2>7. Ended'
        BY <1>3, <1>7, <2>1, <2>6 DEF Ended
    <2> QED BY <1>4, <2>3, <2>5, <2>7
<1> QED BY <1>8, <1>9

\* Back from the network stack.
LEMMA BackEngine ==
    ASSUME RingInv, EngineInv, NEW c \in Callers, RxBack(c)
    PROVE  EngineInv'
<1> USE EngineTypes DEF EngineInv
<1>1. ctx[c].at = "out" /\ ctx[c].slot = dirty /\ done[dirty] /\ Out(c)
    BY PlaceParts DEF RxBack, Out, Place
<1>2. /\ Advance(dirty) /\ ctx' = [ctx EXCEPT ![c].at = "rx", ![c].slot = 0, ![c].n = @ + 1]
      /\ UNCHANGED <<chained, running, chain_complete, api_wait, hw, late, chain_done, site>>
    BY <1>1 DEF RxBack, state, engine
<1>3. Front' /\ (Wrapped' <=> dirty = MAX_RX_DCBS - 1)
    BY <1>1, <1>2, AdvanceFront
<1>4. chain_complete <=> dirty = MAX_RX_DCBS - 1
    BY <1>1, DoneFacts DEF Complete
<1>5. /\ \A d \in Callers : d # c => ctx[d] = Away
      /\ \A d \in Callers : d # c => ctx'[d] = ctx[d]
      /\ ctx'[c].chain = ctx[c].chain /\ ctx'[c].retry = ctx[c].retry /\ ctx'[c].at = "rx"
    BY <1>1, <1>2, PlaceParts, Alone DEF Places
<1>6. \A d \in Callers : /\ ctx'[d].chain = ctx[d].chain /\ ctx'[d].retry = ctx[d].retry
                         /\ ~Out(d)'
    BY <1>5, AwayFacts DEF Out
<1>7. Complete'
    BY <1>1, <1>2, <1>3, <1>4, <1>6, DoneFacts DEF Complete
<1>8. ctx["cmd"].at = "away" <=> ctx'["cmd"].at = "away"
    BY <1>1, <1>5
<1>9. SitesInv'
    BY <1>2, <1>6, <1>8 DEF SitesInv
<1>10. /\ ctx["cmd"].at \in {"rx", "out"} => ctx'["cmd"].at \in {"rx", "out"}
       /\ ctx["cmd"].at # "chain" /\ ctx'["irq"].at # "chain"
    BY <1>1, <1>5, AwayFacts DEF Callers
<1>11. Ended'
    BY <1>2, <1>6, <1>10 DEF Ended
<1> QED BY <1>3, <1>7, <1>9, <1>11

\* A caller that stops before the end of the chain ran out of done descriptors: it may take
\* a whole ring.
LEMMA EndNotDone ==
    ASSUME Usual, RingInv, EngineInv, NEW c \in Callers, RxEnd(c), site # "late"
    PROVE  ~done[dirty] /\ (hw = Halted => chain_complete)
<1> USE EngineTypes DEF EngineInv
<1>1. ctx[c].at = "rx" /\ ~More(c) /\ running /\ ctx[c].n \in Nat /\ ctx[c].n + free =< MAX_RX_DCBS
    BY PlaceParts DEF RxEnd, Place
<1>2. Budget \in Nat /\ Budget >= MAX_RX_DCBS
    BY RxAssumption DEF Usual
<1>3. ~done[dirty]
    <2> SUFFICES ASSUME done[dirty] PROVE FALSE
        OBVIOUS
    <2>1. ctx[c].n < MAX_RX_DCBS
        BY <1>1, TakenPosted
    <2>2. BudgetOf(c) = Budget \/ BudgetOf(c) = MAX_RX_DCBS
        BY DEF BudgetOf
    <2>3. ctx[c].n < BudgetOf(c)
        BY <1>1, <1>2, <2>1, <2>2
    <2> QED BY <1>1, <2>3 DEF More
<1>4. hw = Halted => Wrapped
    BY <1>1, <1>3 DEF Front, Slots
<1> QED BY <1>1, <1>3, <1>4 DEF Complete

LEMMA EndEngine ==
    ASSUME Usual, RingInv, EngineInv, NEW c \in Callers, RxEnd(c)
    PROVE  EngineInv'
<1> USE EngineTypes DEF EngineInv
<1>1. /\ ctx[c].at = "rx" /\ ~More(c) /\ ctx' = [ctx EXCEPT ![c].at = "chain", ![c].n = 0]
      /\ UNCHANGED <<free, dirty, done, chained, running, chain_complete, api_wait>>
      /\ UNCHANGED <<hw, late, chain_done, site>>
    BY DEF RxEnd, ring, state, engine
<1>2. Front' /\ (Wrapped' <=> Wrapped)
    BY <1>1, SameFront
<1>3. /\ \A d \in Callers : d # c => ctx[d] = Away
      /\ \A d \in Callers : d # c => ctx'[d] = ctx[d]
      /\ ctx'[c].chain = ctx[c].chain /\ ctx'[c].retry = ctx[c].retry /\ ctx'[c].at = "chain"
    BY <1>1, PlaceParts, Alone DEF Places
<1>4. \A d \in Callers : /\ ctx'[d].chain = ctx[d].chain /\ ctx'[d].retry = ctx[d].retry
                         /\ ~Out(d)' /\ ~Out(d)
    BY <1>1, <1>3, AwayFacts DEF Out
<1>5. running
    BY <1>1, PlaceParts DEF Place
<1>6. Complete'
    <2>1. running /\ Wrapped => chain_complete
        BY DEF Complete
    <2>2. chain_complete /\ ~Wrapped => dirty = MAX_RX_DCBS - 1 /\ done[dirty] /\ api_wait
        BY <1>4, <1>5, EndNotDone DEF Complete
    <2> QED BY <1>1, <1>2, <1>4, <1>5, <2>1, <2>2 DEF Complete
<1>7. ctx["cmd"].at = "away" <=> ctx'["cmd"].at = "away"
    BY <1>1, <1>3
<1>8. SitesInv'
    BY <1>1, <1>4, <1>7 DEF SitesInv
<1>9. site # "late" /\ ctx["irq"].chain => chain_complete
    BY <1>5, EndNotDone DEF Ended, SitesInv
<1>10. ctx["cmd"].at # "away" /\ hw = Halted => ctx'["cmd"].at = "chain" /\ chain_complete
    <2>1. ctx["cmd"].at # "away" => site # "late" /\ c = "cmd"
        BY <1>3, AwayFacts DEF SitesInv
    <2> QED BY <1>3, <2>1, EndNotDone
<1>11. Ended'
    BY <1>1, <1>4, <1>9, <1>10 DEF Ended
<1> QED BY <1>2, <1>6, <1>8, <1>11

\* dev_do_dma reads the status register.
LEMMA EnterEngine ==
    ASSUME Usual, RingInv, EngineInv, IrqEnter
    PROVE  EngineInv'
<1> USE EngineTypes DEF EngineInv
<1>1. /\ RingFree
      /\ ctx' = [ctx EXCEPT !["irq"] =
                    [Away EXCEPT !.at = IF desc_done THEN Enter ELSE "chain", !.chain = chain_done]]
      /\ UNCHANGED <<free, dirty, done, chained, running, chain_complete, api_wait>>
      /\ UNCHANGED <<hw, late, chain_done, site>>
    BY DEF IrqEnter, ring, state
<1>2. Front' /\ (Wrapped' <=> Wrapped)
    BY <1>1, SameFront
<1>3. ctx \in [Callers -> Places] /\ \A d \in Callers : ctx[d] = Away
    BY <1>1, AllAway, PlaceParts DEF Usual
<1>4. Enter # "out" /\ (Enter = "chain" => ~running)
    BY DEF Enter
<1>5. /\ ctx'["cmd"] = Away
      /\ ctx'["irq"].at = (IF desc_done THEN Enter ELSE "chain")
      /\ ctx'["irq"].chain = chain_done /\ ctx'["irq"].retry = FALSE
    BY <1>1, <1>3 DEF Away, Callers
<1>6. \A d \in Callers : ~Out(d) /\ ~Out(d)'
    BY <1>3, <1>4, <1>5, AwayFacts DEF Out, Callers
<1>7. Complete'
    <2>1. running /\ chain_complete /\ ~Wrapped => dirty = MAX_RX_DCBS - 1 /\ done[dirty] /\ api_wait
        BY <1>3, <1>6, AwayFacts DEF Complete
    <2> QED BY <1>1, <1>2, <1>5, <1>6, <2>1 DEF Complete
<1>8. SitesInv'
    BY <1>1, <1>3, <1>5, AwayFacts DEF SitesInv
<1>9. chain_done => desc_done
    BY <1>3, AwayFacts DEF RingInv, Status
<1>10. ctx'["irq"].at = "chain" /\ chain_done => ~running
    BY <1>4, <1>5, <1>9
<1>11. Ended'
    BY <1>1, <1>3, <1>5, <1>10, AwayFacts DEF Ended
<1> QED BY <1>2, <1>7, <1>8, <1>11

\* bkn_rx_chain_done is not called, or returns at once: the channel goes on, or waits.
LEMMA NoRestartEngine ==
    ASSUME RingInv, EngineInv, NEW c \in Callers, NoRestart(c)
    PROVE  EngineInv'
<1> USE EngineTypes DEF EngineInv
<1>1. /\ ctx[c].at = "chain" /\ ctx' = [ctx EXCEPT ![c] = Away] /\ ~MayRestart(c)
      /\ chain_done' = (chain_done /\ ~(c = "irq" /\ ctx[c].chain))
      /\ UNCHANGED <<free, dirty, done, chained, running, chain_complete, api_wait>>
      /\ UNCHANGED <<hw, late, site>>
    BY DEF NoRestart, ClearChainDone, ring, state
<1>2. Front' /\ (Wrapped' <=> Wrapped)
    BY <1>1, SameFront
<1>3. (\A d \in Callers : d # c => ctx[d] = Away) /\ ctx' \in [Callers -> {Away}]
    BY <1>1, Alone, Left
<1>4. \A d \in Callers : ~Out(d) /\ ~Out(d)'
    BY <1>1, <1>3, AwayFacts DEF Out
<1>5. ctx'["irq"] = Away /\ ctx'["cmd"] = Away /\ (ctx[c].at # "rx")
    BY <1>1, <1>3
<1>6. Complete'
    <2>1. running /\ chain_complete /\ ~Wrapped => dirty = MAX_RX_DCBS - 1 /\ done[dirty] /\ api_wait
        BY <1>3, <1>4, <1>5, AwayFacts DEF Complete
    <2>2. chain_done' => chain_done
        BY <1>1
    <2> QED BY <1>1, <1>2, <1>4, <1>5, <2>1, <2>2, AwayFacts DEF Complete
<1>7. SitesInv'
    BY <1>1, <1>5, AwayFacts DEF SitesInv
<1>8. CASE c = "irq"
    <2>1. ctx["cmd"] = Away
        BY <1>3, <1>8
    <2>2. ctx["irq"].chain => api_wait /\ ~late
        BY <1>1, <1>8 DEF MayRestart, ChainDue, SitesInv
    <2>3. Ended'
        BY <1>1, <1>5, <1>8, <2>1, <2>2, AwayFacts DEF Ended
    <2> QED BY <1>2, <1>6, <1>7, <2>3
<1>9. CASE c = "cmd"
    <2>1. ctx["irq"] = Away
        BY <1>3, <1>9
    <2>2. ~api_wait => ~chain_complete
        BY <1>1, <1>9 DEF MayRestart, ChainDue
    <2>3. chain_done' = chain_done
        BY <1>1, <1>9
    <2>4. Ended'
        BY <1>1, <1>5, <1>9, <2>1, <2>2, <2>3, AwayFacts DEF Ended
    <2> QED BY <1>2, <1>6, <1>7, <2>4
<1> QED BY <1>8, <1>9 DEF Callers

\* bkn_do_rx is called again only where descriptor memory is updated late, or in vain.
LEMMA SyncEngine ==
    ASSUME RingInv, EngineInv, NEW c \in Callers, SyncRetry(c)
    PROVE  EngineInv'
<1> USE EngineTypes DEF EngineInv
<1>1. /\ ctx[c].at = "chain" /\ MayRestart(c) /\ ~chain_complete
      /\ ctx' = [ctx EXCEPT ![c].at = Enter, ![c].retry = TRUE]
      /\ UNCHANGED <<free, dirty, done, chained, running, chain_complete, api_wait>>
      /\ UNCHANGED <<hw, late, chain_done, site>>
    BY DEF SyncRetry, ring, state, engine
<1>2. Front' /\ (Wrapped' <=> Wrapped)
    BY <1>1, SameFront
<1>3. c = "irq" /\ ctx["irq"].chain /\ (api_wait => ctx["irq"].retry)
    BY <1>1 DEF MayRestart, ChainDue, Callers
<1>4. site = "late" \/ ~running
    BY <1>1, <1>3 DEF SitesInv, Ended
<1>5. ctx["cmd"] = Away
    BY <1>1, <1>3, Alone
<1>6. /\ ctx'["irq"].at = Enter /\ ctx'["irq"].chain = ctx["irq"].chain /\ ctx'["cmd"] = Away
    BY <1>1, <1>3, <1>5, PlaceParts DEF Places
<1>7. \A d \in Callers : ~Out(d)'
    BY <1>6, AwayFacts DEF Out, Enter, Callers
<1>8. Complete'
    BY <1>1, <1>2, <1>6, <1>7 DEF Complete
<1>9. SitesInv'
    BY <1>1, <1>4, <1>5, <1>6, AwayFacts DEF SitesInv
<1>10. Ended'
    BY <1>1, <1>3, <1>4, <1>6 DEF Ended
<1> QED BY <1>2, <1>8, <1>9, <1>10

\* A stopped channel with no packet left is refilled; it starts at rx.dirty.
LEMMA RestartFront ==
    ASSUME RingInv, NEW started \in BOOLEAN, RefillAndRestart(started),
           \A i \in Slots : ~done[i], hw = Halted, UNCHANGED <<dirty, done>>,
           ~started => hw' = hw
    PROVE  /\ Front' /\ running' = started
           /\ started => ~Wrapped' /\ hw' # Halted /\ late' = FALSE /\ chain_done' = FALSE
<1> USE EngineTypes
<1>1. PICK k \in 0 .. Vacant :
          /\ free' = free + k /\ started = (free + k = MAX_RX_DCBS)
          /\ started => StartChannel(dirty)
          /\ running' = started
    BY DEF RefillAndRestart, Enough
<1>2. CASE started
    <2>1. hw' = dirty /\ late' = FALSE /\ chain_done' = FALSE /\ running' = TRUE
        BY <1>1, <1>2 DEF StartChannel
    <2>2. free' = MAX_RX_DCBS
        BY <1>1, <1>2
    <2>3. ~Wrapped' /\ dirty' =< hw'
        BY <2>1, <2>2 DEF Wrapped, Slots
    <2>4. \A i \in Slots : ~done'[i] /\ ~(dirty' =< i /\ i < hw')
        BY <2>1 DEF Slots
    <2>5. Front'
        BY <2>1, <2>3, <2>4 DEF Front
    <2> QED BY <1>2, <2>1, <2>3, <2>5 DEF Slots
<1>3. CASE ~started
    <2>1. hw' = Halted /\ running' = FALSE
        BY <1>1, <1>3
    <2>2. Front'
        BY <2>1 DEF Front, Halted
    <2> QED BY <1>3, <2>1, <2>2
<1> QED BY <1>2, <1>3

\* bkn_rx_chain_done starts the channel again only when its whole chain was taken.
LEMMA ChainDoneEngine ==
    ASSUME RingInv, EngineInv, NEW c \in Callers, ChainDone(c)
    PROVE  EngineInv'
<1> USE EngineTypes DEF EngineInv
<1>1. PICK started \in BOOLEAN :
          /\ RefillAndRestart(started)
          /\ chain_complete' = ~started
          /\ ~started => UNCHANGED <<hw, late>>
    BY DEF ChainDone
<1>2. /\ ctx[c].at = "chain" /\ MayRestart(c) /\ (chain_complete \/ RetriedInVain(c))
      /\ ctx' = [ctx EXCEPT ![c] = Away]
      /\ UNCHANGED <<dirty, done, api_wait, site>>
    BY DEF ChainDone
<1>3. (\A d \in Callers : d # c => ctx[d] = Away) /\ ctx' \in [Callers -> {Away}]
    BY <1>2, Alone, Left
<1>4. \A d \in Callers : ~Out(d) /\ ~Out(d)' /\ ctx[d].at # "rx"
    BY <1>2, <1>3, AwayFacts DEF Out
<1>5. ctx'["irq"] = Away /\ ctx'["cmd"] = Away
    BY <1>3
<1>6. (running => chain_complete) /\ ~api_wait
    <2>1. ctx[c].retry => site = "late" \/ ~running
        BY DEF SitesInv, Callers
    <2>2. api_wait => ctx[c].retry
        BY <1>2 DEF MayRestart
    <2>3. ~api_wait
        BY <2>1, <2>2 DEF SitesInv
    <2> QED BY <1>2, <2>1, <2>3 DEF RetriedInVain
<1>7. running => Wrapped
    BY <1>4, <1>6 DEF Complete
<1>8. hw = Halted /\ late = FALSE /\ \A i \in Slots : ~done[i]
    BY <1>7 DEF Front, RingInv, Chains
<1>9. /\ Front' /\ running' = started
      /\ started => ~Wrapped' /\ hw' # Halted /\ late' = FALSE
    BY <1>1, <1>2, <1>8, RestartFront
<1>10. late' = FALSE
    BY <1>1, <1>8, <1>9
<1>11. Complete'
    BY <1>1, <1>4, <1>9 DEF Complete
<1>12. SitesInv'
    BY <1>2, <1>5, <1>6, <1>10, AwayFacts DEF SitesInv
<1>13. Ended'
    <2>1. started => chain_done' = FALSE
        BY <1>1, <1>2, <1>8, RestartFront
    <2> QED BY <1>5, <1>9, <1>10, <2>1, AwayFacts DEF Ended, Halted
<1> QED BY <1>9, <1>11, <1>12, <1>13

\* DMA_INFO resumes a channel that waits for API buffers.
LEMMA InfoEngine ==
    ASSUME Usual, RingInv, EngineInv, DmaInfoRx
    PROVE  EngineInv'
<1> USE EngineTypes DEF EngineInv
<1>1. /\ UNCHANGED <<free, dirty, done, chained, running, chain_complete>>
      /\ UNCHANGED <<hw, late, chain_done, site>>
    BY DEF DmaInfoRx, ring, engine
<1>2. Front' /\ (Wrapped' <=> Wrapped)
    BY <1>1, SameFront
<1>3. CASE ctx' = ctx /\ api_wait' = api_wait
    BY <1>1, <1>2, <1>3 DEF Complete, SitesInv, Ended, Out, Halted
<1>4. CASE /\ RingFree /\ api_wait /\ api_wait' = FALSE
           /\ ctx' = [ctx EXCEPT !["cmd"] = [Away EXCEPT !.at = Enter]]
    <2>1. /\ ctx \in [Callers -> Places] /\ \A d \in Callers : ctx[d] = Away
          /\ \A d \in Callers : ctx[d].at = "away"
        BY <1>4, AllAway, PlaceParts, AwayFacts DEF Usual
    <2>2. /\ ctx'["irq"] = Away /\ ctx'["cmd"].at = Enter /\ ctx'["cmd"].chain = FALSE
          /\ ctx'["cmd"].retry = FALSE
        BY <1>4, <2>1 DEF Away, Callers
    <2>3. Enter # "out" /\ (running => Enter = "rx")
        BY DEF Enter
    <2>4. \A d \in Callers : ~Out(d)'
        BY <2>2, <2>3, AwayFacts DEF Out, Callers
    <2>5. site # "late" /\ ~api_wait'
        BY <1>4 DEF SitesInv
    <2>6. Complete'
        BY <1>1, <1>2, <2>1, <2>2, <2>3, <2>4, <2>5, AwayFacts DEF Complete
    <2>7. SitesInv'
        BY <1>1, <2>2, <2>5, AwayFacts DEF SitesInv
    <2>8. Ended'
        BY <1>1, <2>1, <2>2, <2>3, AwayFacts DEF Ended, Halted
    <2> QED BY <1>2, <2>6, <2>7, <2>8
<1> QED BY <1>3, <1>4, InfoCases

\* bkn_timer and bkn_rxtick start a channel that does not run, so nothing is in its ring.
LEMMA ResumeEngine ==
    ASSUME Usual, RingInv, EngineInv, Timer \/ RxTick
    PROVE  EngineInv'
<1> USE EngineTypes DEF EngineInv
<1>1. /\ UNCHANGED <<api_wait, ctx>>
      /\ Resume \/ UNCHANGED <<ring, running, chain_complete, engine>>
    BY DEF Timer, RxTick
<1>2. ASSUME Resume
      PROVE  /\ \A d \in Callers : ctx[d] = Away /\ ctx[d].at = "away"
             /\ \A d \in Callers : ~Out(d) /\ ~Out(d)'
    <2>1. RingFree
        BY <1>2, WhoIsOut DEF Timer, RxTick, Resume
    <2> QED BY <1>1, <2>1, AllAway, AwayFacts DEF Usual, Out
<1>3. CASE Resume
    <2>1. PICK started \in BOOLEAN :
              /\ RefillAndRestart(started)
              /\ chain_complete' = (chain_complete /\ ~started)
              /\ ~started => UNCHANGED engine
        BY <1>3 DEF Resume
    <2>2. ~running /\ UNCHANGED <<dirty, done, site>>
        BY <1>3 DEF Resume
    <2>3. hw = Halted /\ late = FALSE /\ \A i \in Slots : ~done[i]
        BY <2>2 DEF Front, RingInv, Chains
    <2>4. ~started => UNCHANGED <<hw, late, chain_done>>
        BY <2>1 DEF engine
    <2>5. /\ Front' /\ running' = started
          /\ started => ~Wrapped' /\ hw' # Halted /\ late' = FALSE /\ chain_done' = FALSE
        BY <2>1, <2>2, <2>3, <2>4, RestartFront
    <2>6. late' = FALSE
        BY <2>3, <2>4, <2>5
    <2>7. Complete'
        <3>1. CASE started
            BY <1>2, <1>3, <2>1, <2>5, <3>1 DEF Complete
        <3>2. CASE ~started
            <4>1. chain_complete' = chain_complete /\ chain_done' = chain_done /\ running' = FALSE
                BY <2>1, <2>4, <2>5, <3>2
            <4> QED BY <1>1, <1>2, <1>3, <2>2, <4>1 DEF Complete
        <3> QED BY <3>1, <3>2
    <2>8. SitesInv'
        <3>1. ctx'["irq"] = Away /\ ctx'["cmd"] = Away
            BY <1>1, <1>2, <1>3 DEF Callers
        <3> QED BY <1>1, <2>2, <2>6, <3>1, AwayFacts DEF SitesInv
    <2>9. Ended'
        BY <1>1, <1>2, <1>3, <2>5, <2>6, AwayFacts DEF Ended, Halted
    <2> QED BY <2>5, <2>7, <2>8, <2>9
<1>4. CASE UNCHANGED <<ring, running, chain_complete, engine>>
    <2>1. Front' /\ (Wrapped' <=> Wrapped)
        BY <1>4, SameFront DEF ring, engine
    <2> QED BY <1>1, <1>4, <2>1 DEF Complete, SitesInv, Ended, Out, Halted, ring, engine
<1> QED BY <1>1, <1>3, <1>4

\* HW_RESET and HW_INIT.
LEMMA ResetEngine ==
    ASSUME Usual, RingInv, EngineInv, HwReset \/ HwInit
    PROVE  EngineInv'
<1> USE EngineTypes DEF EngineInv
<1>1. /\ RingFree /\ UNCHANGED <<site, ctx>> /\ \A i \in Slots : ~done[i]
      /\ late' = FALSE /\ api_wait' = FALSE
    BY DEF HwReset, HwInit, AbortAndClean, Usual, Quiet
<1>2. /\ \A d \in Callers : ctx[d] = Away /\ ctx[d].at = "away"
      /\ \A d \in Callers : ~Out(d)'
    BY <1>1, AllAway, AwayFacts DEF Usual, Out
<1>3. SitesInv'
    BY <1>1, <1>2, AwayFacts DEF SitesInv
<1>4. CASE HwReset
    <2>1. hw' = Halted /\ running' = FALSE /\ done' = done
        BY <1>4 DEF HwReset
    <2>2. Front'
        BY <1>1, <2>1 DEF Front, Halted
    <2>3. Complete' /\ Ended'
        BY <1>1, <1>2, <2>1, AwayFacts DEF Complete, Ended
    <2> QED BY <1>3, <2>2, <2>3
<1>5. CASE HwInit
    <2>1. PICK k \in 0 .. MAX_RX_DCBS :
              /\ free' = k
              /\ running' = Enough(k)
              /\ hw' = IF Enough(k) THEN 0 ELSE Halted
              /\ AbortStatus(Enough(k))
              /\ chain_complete' = (chain_complete /\ ~Enough(k))
        BY <1>5 DEF HwInit
    <2>2. done' = [i \in Slots |-> FALSE] /\ dirty' = 0
        BY <1>5 DEF HwInit
    <2>3. CASE k = MAX_RX_DCBS
        <3>1. /\ hw' = 0 /\ running' = TRUE /\ chain_complete' = FALSE /\ ~Wrapped'
              /\ chain_done' = FALSE
            <4>1. Enough(k) = TRUE
                BY <2>3 DEF Enough
            <4>2. hw' = 0 /\ running' = TRUE /\ chain_complete' = FALSE /\ chain_done' = FALSE
                BY <2>1, <4>1 DEF AbortStatus
            <4> QED BY <2>1, <2>3, <4>2 DEF Wrapped
        <3>2. Front'
            BY <2>2, <3>1 DEF Front, Slots
        <3>3. Complete' /\ Ended'
            BY <1>1, <1>2, <3>1, AwayFacts DEF Complete, Ended, Halted
        <3> QED BY <1>3, <3>2, <3>3
    <2>4. CASE k # MAX_RX_DCBS
        <3>1. hw' = Halted /\ running' = FALSE
            BY <2>1, <2>4 DEF Enough
        <3>2. Front'
            BY <2>2, <3>1 DEF Front, Halted
        <3>3. Complete' /\ Ended'
            BY <1>1, <1>2, <3>1, AwayFacts DEF Complete, Ended
        <3> QED BY <1>3, <3>2, <3>3
    <2> QED BY <2>3, <2>4
<1> QED BY <1>4, <1>5

\* The network stack frees a buffer, or nothing happens.
LEMMA IdleEngine ==
    ASSUME EngineInv, StackFrees \/ UNCHANGED vars
    PROVE  EngineInv'
<1>1. UNCHANGED <<ring, state, api, engine, ctx>>
    BY DEF StackFrees, vars
<1>2. Front' /\ (Wrapped' <=> Wrapped)
    BY <1>1, SameFront DEF ring, state, engine, EngineInv
<1> QED BY <1>1, <1>2 DEF EngineInv, Complete, SitesInv, Ended, Out, Halted, ring, state, engine

\* The engine's invariant is inductive, with the ring's.
LEMMA NextEngine == Usual /\ RingInv /\ EngineInv /\ [Next]_vars => EngineInv'
<1> SUFFICES ASSUME Usual, RingInv, EngineInv, [Next]_vars PROVE EngineInv'
    OBVIOUS
<1>1. CASE HwPacket \/ HwUpdate
    BY <1>1, EngineEngine
<1>2. CASE StackFrees \/ UNCHANGED vars
    BY <1>2, IdleEngine
<1>3. ASSUME NEW c \in Callers, DoSkbRx(c) PROVE EngineInv'
    BY <1>3, TakeEngine, HandEngine, BackEngine, EndEngine DEF DoSkbRx
<1>4. ASSUME NEW c \in Callers, NoRestart(c) \/ SyncRetry(c) \/ ChainDone(c) PROVE EngineInv'
    BY <1>4, NoRestartEngine, SyncEngine, ChainDoneEngine
<1>5. CASE IrqEnter \/ DmaInfoRx
    BY <1>5, EnterEngine, InfoEngine
<1>6. CASE Timer \/ RxTick
    BY <1>6, ResumeEngine
<1>7. CASE HwReset \/ HwInit
    BY <1>7, ResetEngine
<1> QED BY <1>1, <1>2, <1>3, <1>4, <1>5, <1>6, <1>7 DEF Next

LEMMA EngineAlways == ASSUME Usual PROVE Spec => [](RingInv /\ BufferOwnership /\ EngineInv)
<1>1. /\ RingInv /\ BufferOwnership /\ EngineInv /\ [Next]_vars => (RingInv /\ BufferOwnership /\ EngineInv)'
      /\ Quiet
    BY NextRing, NextOwned, NextEngine DEF Usual
<1> QED BY InitRing, InitOwned, InitEngine, <1>1, PTL DEF Spec

\* The engine never reaches a descriptor whose packet was not taken: bkn_rx_restart starts
\* the channel only with the whole ring handed back and posted again.
THEOREM NothingOverwrittenCorrect == ASSUME Usual PROVE Spec => []NothingOverwritten
<1>1. RingInv /\ BufferOwnership /\ EngineInv => NothingOverwritten
    BY EngineOn DEF NothingOverwritten, EngineInv
<1> QED BY EngineAlways, <1>1, PTL

\* The engine only writes to a descriptor that is posted, whose buffer the network stack
\* does not have, and it does not follow a chain bit out of the ring.
THEOREM EngineOnBufferCorrect == ASSUME Usual PROVE Spec => []EngineOnBuffer
<1>1. RingInv /\ BufferOwnership /\ EngineInv => EngineOnBuffer
    <2> SUFFICES ASSUME RingInv, BufferOwnership, EngineInv, hw # Halted
                 PROVE  /\ Posted(hw) /\ skb[hw] # NoBuf /\ skb[hw] \notin stack
                        /\ chained[hw] => hw + 1 \in Slots
        BY DEF EngineOnBuffer
    <2>1. /\ hw \in Slots /\ ~done[hw] /\ Posted(hw)
          /\ chained[hw] <=> hw # MAX_RX_DCBS - 1
        BY EngineOn DEF EngineInv
    <2>2. skb[hw] # NoBuf
        BY <2>1 DEF RingInv, PostedBufs
    <2>3. \A c \in Callers : Out(c) => done[ctx[c].slot]
        BY DEF RingInv, Called, Place, Out
    <2>4. skb[hw] \notin stack
        BY <2>1, <2>2, <2>3 DEF BufferOwnership
    <2>5. hw # MAX_RX_DCBS - 1 => hw + 1 \in Slots
        BY <2>1, EngineTypes DEF Slots
    <2> QED BY <2>1, <2>2, <2>4, <2>5
<1> QED BY EngineAlways, <1>1, PTL

\* The packets in the ring are those from rx.dirty on: the engine begins where bkn_do_skb_rx
\* will look first, also after a reset in the middle of the ring, and a chain that ends at the
\* last descriptor is taken up to its end before the channel starts again.
THEOREM TakenInOrderCorrect == ASSUME Usual PROVE Spec => []TakenInOrder
<1>1. RingInv /\ BufferOwnership /\ EngineInv => TakenInOrder
    <2> SUFFICES ASSUME RingInv, EngineInv, NEW i \in Slots, done[i]
                 PROVE  /\ Posted(i)
                        /\ \A j \in Slots : Ahead(j) < Ahead(i) => done[j]
                        /\ hw # Halted => Ahead(i) < Ahead(hw)
        BY DEF TakenInOrder
    <2>1. running /\ ~Wrapped /\ dirty =< i /\ i < hw
        BY DEF EngineInv, Front
    <2>2. Posted(i)
        BY <2>1, ChainedAhead
    <2>3. ASSUME NEW j \in Slots, Ahead(j) < Ahead(i) PROVE dirty =< j /\ j < hw
        BY <2>1, <2>3, EngineTypes DEF Ahead, Slots
    <2>4. \A j \in Slots : Ahead(j) < Ahead(i) => done[j]
        BY <2>1, <2>3 DEF EngineInv, Front
    <2>5. hw # Halted => Ahead(i) < Ahead(hw)
        BY <2>1, EngineTypes DEF Ahead, Slots
    <2> QED BY <2>2, <2>4, <2>5
<1> QED BY EngineAlways, <1>1, PTL

\* A running channel whose engine has stopped is waited for by somebody: chain-done is
\* signalled or was read, the API owes it buffers, or a caller is still at work.
THEOREM RestartDueCorrect == ASSUME Usual PROVE Spec => []RestartDue
<1>1. RingInv /\ BufferOwnership /\ EngineInv => RestartDue
    <2> SUFFICES ASSUME RingInv, EngineInv, hw = Halted, running, ~chain_done, ~api_wait
                 PROVE  \E c \in Callers : ctx[c].at # "away"
        BY DEF RestartDue
    <2>1. \/ ctx["irq"].chain \/ ctx["cmd"].at \in {"rx", "out"} \/ ctx["cmd"].at = "chain"
        BY DEF EngineInv, Ended
    <2>2. ctx["irq"].chain => ctx["irq"].at # "away"
        BY EngineTypes, PlaceParts, AwayFacts DEF Place
    <2> QED BY <2>1, <2>2 DEF Callers
<1> QED BY EngineAlways, <1>1, PTL

\* "Suspend SKB Rx due to no API resources": no step starts the engine of a channel that goes
\* on waiting for API buffers.
THEOREM SuspendHoldsCorrect == ASSUME Usual PROVE Spec => SuspendHolds
<1>1. RingInv /\ EngineInv /\ [Next]_vars => [api_wait /\ api_wait' /\ hw = Halted => hw' = Halted]_vars
    <2> SUFFICES ASSUME RingInv, EngineInv, [Next]_vars, api_wait, api_wait', hw = Halted
                 PROVE  hw' = Halted
        OBVIOUS
    <2>1. running /\ site # "late" /\ ~late
        BY EngineTypes DEF EngineInv, SitesInv
    <2>2. CASE HwPacket \/ HwUpdate \/ HwReset \/ HwInit
        BY <2>1, <2>2 DEF HwPacket, HwUpdate, HwReset, HwInit, AbortAndClean
    <2>3. CASE StackFrees \/ IrqEnter \/ DmaInfoRx \/ UNCHANGED vars
        BY <2>3 DEF StackFrees, IrqEnter, DmaInfoRx, vars, engine
    <2>4. CASE Timer \/ RxTick
        BY <2>1, <2>4 DEF Timer, RxTick, Resume, engine
    <2>5. ASSUME NEW c \in Callers, DoSkbRx(c) PROVE hw' = Halted
        BY <2>5 DEF DoSkbRx, RxDrop, RxToApi, RxApiWait, RxCallback, RxUp, RxBack, RxEnd, engine
    <2>6. ASSUME NEW c \in Callers, NoRestart(c) \/ SyncRetry(c) \/ ChainDone(c) PROVE hw' = Halted
        <3>1. ~ctx[c].retry
            BY <2>1, EngineTypes DEF EngineInv, SitesInv, Callers
        <3>2. ~ChainDone(c)
            BY <3>1 DEF ChainDone, MayRestart
        <3> QED BY <2>6, <3>2 DEF NoRestart, SyncRetry, engine
    <2> QED BY <2>2, <2>3, <2>4, <2>5, <2>6 DEF Next
<1> QED BY EngineAlways, <1>1, PTL DEF Spec, SuspendHolds
=============================================================================
