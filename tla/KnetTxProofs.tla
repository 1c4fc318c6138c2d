---------------------------- MODULE KnetTxProofs ----------------------------
(***************************************************************************)
(* Theorems about the Tx ring of KnetTx, for every size of the ring, every *)
(* set of interfaces and packets.  The first four hold with and without    *)
(* suspension of the base device and with resets at any time; those on the *)
(* engine, up to the refinement of TxFifo, for a device like the default   *)
(* one (Default).                                                          *)
(***************************************************************************)
EXTENDS KnetTx, FunctionTheorems, FiniteSetTheorems, SequenceTheorems, TLAPS

-----------------------------------------------------------------------------
(* Index arithmetic of the ring.                                           *)

\* A slot at a distance of at most the ring's size is a slot.
LEMMA SlotIsSlot ==
    ASSUME NEW i \in Slots, NEW k \in 0 .. MAX_TX_DCBS
    PROVE  Slot(i, k) \in Slots
BY TxAssumption DEF Slots, Slot

\* Going k places and then l places is going k + l places.
LEMMA SlotAdd ==
    ASSUME NEW i \in Slots, NEW k \in 0 .. MAX_TX_DCBS, NEW l \in 0 .. MAX_TX_DCBS,
           k + l =< MAX_TX_DCBS
    PROVE  Slot(Slot(i, k), l) = Slot(i, k + l)
BY TxAssumption DEF Slots, Slot

\* Going nowhere, or once around the ring, ends where it started.
LEMMA SlotSame ==
    ASSUME NEW i \in Slots
    PROVE  Slot(i, 0) = i /\ Slot(i, MAX_TX_DCBS) = i
BY TxAssumption DEF Slots, Slot

-----------------------------------------------------------------------------
(* The engine stays on the ring because the last descriptor in memory      *)
(* never has a chain bit (bkn_tx_chain_done stops short of it).            *)

LastUnchained == ~chained[MAX_TX_DCBS - 1]

TypeInv == TypeOK /\ RingAccounting /\ LastUnchained

LEMMA InitTypeInv == Init => TypeInv
<1> SUFFICES ASSUME Init PROVE TypeInv
    OBVIOUS
<1> USE TxAssumption DEF Init
<1>1. 0 \in Slots /\ MAX_TX_DCBS - 1 \in Slots /\ hw \in Modes
    BY DEF Slots, Modes
<1>2. TypeOK
    <2>1. /\ free \in 1 .. MAX_TX_DCBS /\ cur \in Slots /\ dirty \in Slots
          /\ api_queued \in Nat /\ submitted \in Nat /\ sent \in Nat /\ reported \in Nat
          /\ resets \in Nat
        BY <1>1
    <2>2. /\ api_active \in BOOLEAN /\ irq \in BOOLEAN /\ suspended \in BOOLEAN
          /\ base_up \in BOOLEAN /\ stat \in BOOLEAN /\ overrun \in BOOLEAN
        OBVIOUS
    <2>3. /\ skb \in [Slots -> Skbs \union {NoSkb}] /\ xmit \in [Netifs -> Skbs \union {NoSkb}]
          /\ done \in [Slots -> BOOLEAN] /\ chained \in [Slots -> BOOLEAN]
          /\ seen \in [Contexts -> {"idle", "none", "done"}]
        OBVIOUS
    <2> QED BY <1>1, <2>1, <2>2, <2>3 DEF TypeOK
<1>3. RingAccounting /\ LastUnchained
    BY <1>1 DEF RingAccounting, LastUnchained, Slot
<1> QED BY <1>2, <1>3 DEF TypeInv

\* What an abort and clean-up of the ring leaves of the types.
LEMMA AbortTypes ==
    ASSUME TypeInv, AbortAndClean
    PROVE  /\ irq' \in BOOLEAN /\ hw' \in Modes /\ stat' \in BOOLEAN
           /\ api_queued' \in Nat /\ api_active' \in BOOLEAN
           /\ skb' \in [Slots -> Skbs \union {NoSkb}]
           /\ live' \in SUBSET Skbs
           /\ free' = MAX_TX_DCBS
BY TxAssumption DEF AbortAndClean, TypeInv, TypeOK, Modes

LEMMA NextTypeInv == TypeInv /\ [Next]_vars => TypeInv'
<1> SUFFICES ASSUME TypeInv, [Next]_vars PROVE TypeInv'
    OBVIOUS
<1> USE TxAssumption DEF TypeInv
<1>a. ASSUME NEW n \in Netifs, XmitBegin(n) PROVE TypeInv'
    BY <1>a DEF XmitBegin, TypeOK, RingAccounting, LastUnchained, ring, engine, chains, Modes
<1>b. ASSUME NEW n \in Netifs, TxQueue(n) PROVE TypeInv'
    <2> USE DEF TxQueue, Room, CheckTxResources
    <2>1. cur' \in Slots /\ free' \in 1 .. MAX_TX_DCBS /\ cur' = Slot(cur, 1)
        BY <1>b, SlotIsSlot DEF TypeOK
    <2>2. hw' \in Modes /\ stat' \in BOOLEAN /\ overrun' \in BOOLEAN /\ irq' \in BOOLEAN
        BY <1>b DEF TypeOK, MayStart, StartChannel, Modes
    <2>3. TypeOK'
        BY <1>b, <2>1, <2>2 DEF TypeOK, chains, Modes
    <2>4. RingAccounting'
        <3>1. cur = Slot(dirty, MAX_TX_DCBS - free)
            BY DEF RingAccounting
        <3>2. Slot(cur, 1) = Slot(dirty, MAX_TX_DCBS - free + 1)
            BY <3>1, <1>b, SlotAdd DEF TypeOK
        <3> QED BY <3>2, <2>1, <1>b DEF RingAccounting, TypeOK, Slot
    <2>5. LastUnchained'
        BY <1>b DEF LastUnchained, TypeOK, Slots
    <2> QED BY <2>3, <2>4, <2>5
<1>c. ASSUME NEW n \in Netifs, TxMapError(n) PROVE TypeInv'
    BY <1>c DEF TxMapError, DropXmit, TypeOK, RingAccounting, LastUnchained, engine, chains, Modes, Slot
<1>d. ASSUME NEW n \in Netifs, TxReject(n) PROVE TypeInv'
    BY <1>d DEF TxReject, DropXmit, TypeOK, RingAccounting, LastUnchained, ring, engine, chains, Modes
<1>e. ASSUME NEW n \in Netifs, TxNoResource(n) PROVE TypeInv'
    BY <1>e DEF TxNoResource, DropXmit, CheckTxResources, TypeOK, RingAccounting, LastUnchained,
                ring, engine, chains, Modes
<1>f. CASE HwSendSkb
    <2>1. PICK i \in Slots : hw = SkbAt(i)
        BY <1>f DEF HwSendSkb, TypeOK, Modes, Idle, Api
    <2>2. hw' \in Modes /\ stat' \in BOOLEAN
        <3>1. CASE chained[i]
            <4>1. i + 1 \in Slots
                BY <3>1 DEF LastUnchained, Slots
            <4> QED BY <3>1, <4>1, <2>1, <1>f DEF HwSendSkb, Modes, SkbAt, TypeOK
        <3>2. CASE ~chained[i]
            BY <3>2, <2>1, <1>f DEF HwSendSkb, Modes, SkbAt
        <3> QED BY <3>1, <3>2
    <2> QED BY <1>f, <2>1, <2>2
            DEF HwSendSkb, SkbAt, TypeOK, RingAccounting, LastUnchained, netdev, chains, Slot
<1>g. CASE HwSendApi
    BY <1>g DEF HwSendApi, TypeOK, RingAccounting, LastUnchained, ring, netdev, Modes, Slot
<1>h. CASE DmaSnapshot
    BY <1>h DEF DmaSnapshot, TypeOK, RingAccounting, LastUnchained, ring, netdev, engine, chains,
                Modes, Contexts
<1>i. ASSUME NEW c \in Contexts, NEW k \in 0 .. MAX_TX_DCBS, DmaTxCompleting(c, k)
      PROVE  TypeInv'
    <2> DEFINE on == seen[c] = "done"
               opening == c = "open"
               left == MAX_TX_DCBS - free - k
               first == Slot(dirty, k)
               toApi == on /\ api_queued > 0 /\ (api_active \/ left = 0)
               toSkb == on /\ ~toApi /\ left > 0
               queued == IF toApi THEN api_queued - 1 ELSE api_queued
               again == opening /\ queued > 0
    <2>1. left \in 0 .. MAX_TX_DCBS - 1 /\ first \in Slots
        BY <1>i, SlotIsSlot DEF DmaTxCompleting, TypeOK
    <2>2. free' \in 1 .. MAX_TX_DCBS /\ dirty' \in Slots /\ cur' \in Slots
        BY <1>i, <2>1 DEF DmaTxCompleting, TypeOK
    <2>3. /\ skb' \in [Slots -> Skbs \union {NoSkb}]
          /\ done' \in [Slots -> BOOLEAN] /\ chained' \in [Slots -> BOOLEAN]
          /\ live' \in SUBSET Skbs
        BY <1>i DEF DmaTxCompleting, TypeOK
    <2>4. queued \in Nat /\ api_queued' \in Nat
        BY <1>i DEF DmaTxCompleting, TypeOK
    <2>5. hw' \in Modes
        BY <1>i, <2>1 DEF DmaTxCompleting, TypeOK, Modes
    <2>6. /\ api_active' \in BOOLEAN /\ irq' \in BOOLEAN /\ stat' \in BOOLEAN
          /\ overrun' \in BOOLEAN /\ suspended' \in BOOLEAN
        BY <1>i DEF DmaTxCompleting, TypeOK
    <2>7. /\ stopped' \in SUBSET Netifs /\ reported' \in Nat
          /\ seen' \in [Contexts -> {"idle", "none", "done"}]
        BY <1>i DEF DmaTxCompleting, TypeOK
    <2>8. TypeOK'
        BY <1>i, <2>2, <2>3, <2>4, <2>5, <2>6, <2>7 DEF DmaTxCompleting, TypeOK
    <2>9. RingAccounting'
        <3>1. cur = Slot(first, left)
            BY <2>1, SlotAdd DEF RingAccounting, TypeOK
        <3> QED BY <3>1, <2>2, <1>i DEF RingAccounting, TypeOK, DmaTxCompleting, Slot
    <2>10. LastUnchained'
        <3>1. chained' = [i \in Slots |-> chained[i] \/ (toSkb /\ Linked(i, first, left))]
            BY <1>i DEF DmaTxCompleting
        <3>2. MAX_TX_DCBS - 1 \in Slots /\ ~Linked(MAX_TX_DCBS - 1, first, left)
            BY DEF Linked, Slots
        <3> QED BY <3>1, <3>2 DEF LastUnchained
    <2> QED BY <2>8, <2>9, <2>10
<1>j. ASSUME NEW n \in Netifs, Open(n) PROVE TypeInv'
    BY <1>j DEF Open, TypeOK, RingAccounting, LastUnchained, ring, engine, chains, Modes
<1>k. ASSUME NEW n \in Netifs, Stop(n) PROVE TypeInv'
    BY <1>k DEF Stop, TypeOK, RingAccounting, LastUnchained, ring, engine, chains, Modes
<1>l. CASE BaseOpen
    BY <1>l DEF BaseOpen, TypeOK, RingAccounting, LastUnchained, ring, engine, chains, Modes, Contexts
<1>m. CASE BaseStop
    BY <1>m DEF BaseStop, TypeOK, RingAccounting, LastUnchained, ring, engine, chains, Modes
<1>n. CASE DmaInfoTx
    <2> USE DEF DmaInfoTx, ring
    <2>1. /\ hw' \in Modes /\ stat' \in BOOLEAN /\ overrun' \in BOOLEAN /\ irq' \in BOOLEAN
          /\ api_active' \in BOOLEAN /\ api_queued' \in Nat
        <3>1. CASE free = MAX_TX_DCBS /\ ~api_active /\ ~suspended
            BY <1>n, <3>1 DEF StartChannel, TypeOK, Modes
        <3>2. CASE ~(free = MAX_TX_DCBS /\ ~api_active /\ ~suspended)
            BY <1>n, <3>2 DEF TypeOK
        <3> QED BY <3>1, <3>2
    <2>2. TypeOK'
        BY <1>n, <2>1 DEF TypeOK
    <2>3. RingAccounting' /\ LastUnchained'
        BY <1>n DEF RingAccounting, LastUnchained, Slot
    <2> QED BY <2>2, <2>3
<1>o. CASE HwReset
    BY <1>o, AbortTypes, SlotSame
       DEF HwReset, TypeOK, RingAccounting, LastUnchained, netdev, chains
<1>p. CASE HwInit
    BY <1>p, AbortTypes, SlotSame
       DEF HwInit, TypeOK, RingAccounting, LastUnchained, chains, Slots
<1>q. CASE UNCHANGED vars
    BY <1>q DEF vars, ring, netdev, engine, chains, TypeOK, RingAccounting, LastUnchained, Modes, Slot
<1> QED
    BY <1>a, <1>b, <1>c, <1>d, <1>e, <1>f, <1>g, <1>h, <1>i, <1>j, <1>k, <1>l, <1>m, <1>n, <1>o,
       <1>p, <1>q DEF Next, BknTx, DmaTx

\* Every variable keeps its type: the ring's indices stay in range and the engine is
\* never sent past the end of the descriptor memory.
THEOREM TypeCorrect == Spec => []TypeOK
<1>1. TypeInv => TypeOK
    BY DEF TypeInv
<1> QED BY InitTypeInv, NextTypeInv, <1>1, PTL DEF Spec

\* tx.free, tx.cur and tx.dirty never drift apart, for a ring of any size.
THEOREM AccountingCorrect == Spec => []RingAccounting
<1>1. TypeInv => RingAccounting
    BY DEF TypeInv
<1> QED BY InitTypeInv, NextTypeInv, <1>1, PTL DEF Spec

-----------------------------------------------------------------------------
(* Nothing is stranded on the ring.                                        *)

LEMMA EngineModes ==
    ASSUME NEW i \in Slots
    PROVE  SkbAt(i) # Idle /\ Api # Idle
BY DEF SkbAt, Api, Idle

LEMMA NextStranded == TypeInv /\ NoStrandedWork /\ [Next]_vars => NoStrandedWork'
<1> SUFFICES ASSUME TypeInv, NoStrandedWork, [Next]_vars PROVE NoStrandedWork'
    OBVIOUS
<1> USE TxAssumption DEF NoStrandedWork, TypeInv
<1>a. ASSUME NEW n \in Netifs, TxQueue(n) PROVE NoStrandedWork'
    <2>1. CASE MayStart
        BY <1>a, <2>1, EngineModes DEF TxQueue, StartChannel, TypeOK
    <2>2. CASE ~MayStart
        BY <1>a, <2>2 DEF TxQueue, MayStart, TypeOK
    <2> QED BY <2>1, <2>2
<1>b. CASE HwSendSkb
    <2>1. PICK i \in Slots : hw = SkbAt(i)
        BY <1>b DEF HwSendSkb, TypeOK, Modes, Idle, Api
    <2> QED BY <1>b, <2>1 DEF HwSendSkb, SkbAt, Idle
<1>c. CASE HwSendApi
    BY <1>c DEF HwSendApi
<1>d. ASSUME NEW c \in Contexts, NEW k \in 0 .. MAX_TX_DCBS, DmaTxCompleting(c, k)
      PROVE  NoStrandedWork'
    <2> DEFINE on == seen[c] = "done"
               opening == c = "open"
               left == MAX_TX_DCBS - free - k
               first == Slot(dirty, k)
               toApi == on /\ api_queued > 0 /\ (api_active \/ left = 0)
               toSkb == on /\ ~toApi /\ left > 0
               queued == IF toApi THEN api_queued - 1 ELSE api_queued
               again == opening /\ queued > 0
    <2>1. left \in 0 .. MAX_TX_DCBS - 1 /\ first \in Slots
        BY <1>d, SlotIsSlot DEF DmaTxCompleting, TypeOK
    <2>2. CASE toApi \/ again
        BY <1>d, <2>2, EngineModes, <2>1 DEF DmaTxCompleting
    <2>3. CASE toSkb /\ ~again
        BY <1>d, <2>3, EngineModes, <2>1 DEF DmaTxCompleting
    <2>4. CASE on /\ ~toApi /\ ~toSkb /\ ~again
        <3>1. left = 0 /\ free' = MAX_TX_DCBS
            BY <1>d, <2>4, <2>1 DEF DmaTxCompleting, TypeOK
        <3>2. api_active' = FALSE
            BY <1>d, <2>4 DEF DmaTxCompleting
        <3> QED BY <3>1, <3>2
    <2>5. CASE ~on /\ ~again
        <3>1. k = 0 /\ free' = free
            BY <1>d, <2>5 DEF DmaTxCompleting, TypeOK
        <3>2. hw' = hw /\ stat' = stat
            BY <1>d, <2>5 DEF DmaTxCompleting, TypeOK
        <3>3. api_active' => api_active
            BY <1>d, <2>5 DEF DmaTxCompleting
        <3> QED BY <3>1, <3>2, <3>3
    <2> QED BY <2>2, <2>3, <2>4, <2>5
<1>e. CASE DmaInfoTx
    <2>1. Api # Idle
        BY DEF Api, Idle
    <2> QED BY <1>e, <2>1 DEF DmaInfoTx, StartChannel, ring
<1>f. ASSUME AbortAndClean PROVE NoStrandedWork'
    BY <1>f DEF AbortAndClean
<1>g. ASSUME UNCHANGED <<free, api_active, hw, stat>> PROVE NoStrandedWork'
    BY <1>g
<1> QED
    BY <1>a, <1>b, <1>c, <1>d, <1>e, <1>f, <1>g
       DEF Next, BknTx, DmaTx, XmitBegin, TxMapError, TxReject, TxNoResource, Open, Stop, DmaSnapshot,
           BaseOpen, BaseStop, HwReset, HwInit, vars, ring, engine

\* Whatever the order of bkn_tx, completions, API chains and resets, packets on the ring
\* and a running API chain always have the engine or an unhandled completion behind them.
THEOREM NothingStranded == Spec => []NoStrandedWork
<1>1. Init => NoStrandedWork
    BY TxAssumption DEF Init, NoStrandedWork
<1> QED BY InitTypeInv, NextTypeInv, NextStranded, <1>1, PTL DEF Spec

-----------------------------------------------------------------------------
(* Ownership of the packets.                                               *)

\* bkn_tx adds exactly the slot tx.cur to the pending ones.
LEMMA PendingQueued ==
    ASSUME TypeInv, free > 1, free' = free - 1, dirty' = dirty
    PROVE  /\ ~Pending(cur)
           /\ \A i \in Slots : Pending(i)' <=> Pending(i) \/ i = cur
BY TxAssumption DEF TypeInv, TypeOK, RingAccounting, Pending, Ahead, Slot, Slots

\* Reclaiming k slots takes exactly the first k from the pending ones.
LEMMA PendingReclaimed ==
    ASSUME TypeInv, NEW k \in 0 .. MAX_TX_DCBS, k =< MAX_TX_DCBS - free,
           free' = free + k, dirty' = Slot(dirty, k)
    PROVE  \A i \in Slots : (Pending(i)' <=> Pending(i) /\ Ahead(i) >= k)
                            /\ (Ahead(i) < k => Pending(i))
BY TxAssumption DEF TypeInv, TypeOK, Pending, Ahead, Slot, Slots

\* Nothing is pending on a ring that is all free.
LEMMA PendingNone ==
    ASSUME NEW d \in Slots, dirty' = d, free' = MAX_TX_DCBS
    PROVE  \A i \in Slots : ~Pending(i)'
BY TxAssumption DEF Pending, Ahead, Slots

\* A step that leaves the ring and its packets alone leaves what is pending alone.
LEMMA PendingSame ==
    ASSUME TypeInv, free' = free, dirty' = dirty
    PROVE  \A i \in Slots : Pending(i)' <=> Pending(i)
BY DEF Pending, Ahead

\* The packet of a call in progress is a packet, owned by the driver.
LEMMA CallOwned ==
    ASSUME TypeInv, SkbOwnership, NEW n \in Netifs, xmit[n] # NoSkb
    PROVE  xmit[n] \in live /\ xmit[n] \in Skbs
BY DEF SkbOwnership, TypeInv, TypeOK

LEMMA NextOwnership == TypeInv /\ TypeInv' /\ SkbOwnership /\ [Next]_vars => SkbOwnership'
<1> SUFFICES ASSUME TypeInv, TypeInv', SkbOwnership, [Next]_vars PROVE SkbOwnership'
    OBVIOUS
<1> USE TxAssumption
<1>a. ASSUME NEW n \in Netifs, XmitBegin(n) PROVE SkbOwnership'
    <2>1. \A i \in Slots : Pending(i)' <=> Pending(i)
        BY <1>a, PendingSame DEF XmitBegin, ring
    <2>2. PICK s \in Skbs \ live : xmit' = [xmit EXCEPT ![n] = s] /\ live' = live \union {s}
        BY <1>a DEF XmitBegin
    <2> QED BY <1>a, <2>1, <2>2 DEF SkbOwnership, XmitBegin, TypeInv, TypeOK, ring
<1>b. ASSUME NEW n \in Netifs, TxQueue(n) PROVE SkbOwnership'
    <2>1. ~Pending(cur) /\ \A i \in Slots : Pending(i)' <=> Pending(i) \/ i = cur
        BY <1>b, PendingQueued DEF TxQueue, Room
    <2>2. cur \in Slots /\ xmit[n] # NoSkb /\ live' = live
          /\ skb' = [skb EXCEPT ![cur] = xmit[n]] /\ xmit' = [xmit EXCEPT ![n] = NoSkb]
        BY <1>b DEF TxQueue, TypeInv, TypeOK
    <2> QED BY <2>1, <2>2 DEF SkbOwnership, TypeInv, TypeOK
<1>c. ASSUME NEW n \in Netifs, TxMapError(n) PROVE SkbOwnership'
    <2>1. \A i \in Slots : Pending(i)' <=> Pending(i)
        BY <1>c, PendingSame DEF TxMapError
    <2>2. ~Pending(cur)
        BY <1>c DEF TypeInv, TypeOK, RingAccounting, Pending, Ahead, Slot, Slots, TxMapError, Room
    <2>3. \A i \in Slots : Pending(i) => skb'[i] = skb[i]
        BY <1>c, <2>2 DEF TxMapError, TypeInv, TypeOK
    <2>4. live' = live \ {xmit[n]} /\ xmit' = [xmit EXCEPT ![n] = NoSkb] /\ xmit[n] # NoSkb
        BY <1>c DEF TxMapError, DropXmit
    <2> QED BY <2>1, <2>3, <2>4 DEF SkbOwnership, TypeInv, TypeOK
<1>d. ASSUME NEW n \in Netifs, DropXmit(n), xmit[n] # NoSkb, UNCHANGED ring PROVE SkbOwnership'
    <2>1. \A i \in Slots : Pending(i)' <=> Pending(i)
        BY <1>d, PendingSame DEF ring
    <2> QED BY <1>d, <2>1 DEF SkbOwnership, DropXmit, TypeInv, TypeOK, ring
<1>e. ASSUME NEW c \in Contexts, NEW k \in 0 .. MAX_TX_DCBS, DmaTxCompleting(c, k)
      PROVE  SkbOwnership'
    <2>1. k =< MAX_TX_DCBS - free /\ free' = free + k /\ dirty' = Slot(dirty, k)
        BY <1>e DEF DmaTxCompleting, TypeInv, TypeOK
    <2>2. \A i \in Slots : (Pending(i)' <=> Pending(i) /\ Ahead(i) >= k)
                           /\ (Ahead(i) < k => Pending(i))
        BY <1>e, <2>1, PendingReclaimed
    <2>3. \A i \in Slots : Ahead(i) \in Int
        BY DEF Ahead, Slots, TypeInv, TypeOK
    <2>4. /\ skb' = [i \in Slots |-> IF Ahead(i) < k THEN NoSkb ELSE skb[i]]
          /\ live' = live \ {skb[i] : i \in {j \in Slots : Ahead(j) < k}}
          /\ xmit' = xmit
        BY <1>e DEF DmaTxCompleting
    <2>5. \A i \in Slots : Pending(i)' <=> Pending(i) /\ ~(Ahead(i) < k)
        BY <1>e, <2>2, <2>3
    <2>6. \A i \in Slots : Pending(i)' => skb'[i] = skb[i]
        BY <2>5, <2>4
    <2>7. \A s : s \in live' <=> \/ \E i \in Slots : Pending(i)' /\ skb'[i] = s
                               \/ \E n \in Netifs : xmit'[n] # NoSkb /\ xmit'[n] = s
        BY <2>2, <2>4, <2>5, <2>6 DEF SkbOwnership
    <2> QED BY <2>4, <2>5, <2>6, <2>7 DEF SkbOwnership
<1>f. ASSUME AbortAndClean, xmit' = xmit PROVE SkbOwnership'
    <2>1. dirty' \in Slots /\ free' = MAX_TX_DCBS
        BY <1>f DEF AbortAndClean, TypeInv, TypeOK
    <2>2. \A i \in Slots : ~Pending(i)'
        BY <2>1, PendingNone
    <2> QED BY <1>f, <2>2 DEF AbortAndClean, SkbOwnership, TypeInv, TypeOK
<1>g. ASSUME UNCHANGED <<free, dirty, skb, xmit, live>> PROVE SkbOwnership'
    <2>1. \A i \in Slots : Pending(i)' <=> Pending(i)
        BY <1>g, PendingSame
    <2> QED BY <1>g, <2>1 DEF SkbOwnership
<1> QED
    BY <1>a, <1>b, <1>c, <1>d, <1>e, <1>f, <1>g
       DEF Next, BknTx, DmaTx, TxReject, TxNoResource, Open, Stop, DmaSnapshot, BaseOpen, BaseStop,
           DmaInfoTx, HwSendSkb, HwSendApi, HwReset, HwInit, vars, ring, netdev

\* Every packet the driver takes is owned by exactly one call or one pending descriptor,
\* and freed once, on a ring of any size and with resets at any time.
THEOREM OwnershipCorrect == Spec => []SkbOwnership
<1>1. Init => SkbOwnership
    BY TxAssumption DEF Init, SkbOwnership, Pending, Ahead, Slots
<1>2. TypeInv /\ SkbOwnership /\ [Next]_vars => SkbOwnership'
    BY NextTypeInv, NextOwnership
<1> QED BY InitTypeInv, NextTypeInv, <1>1, <1>2, PTL DEF Spec

-----------------------------------------------------------------------------
(* The channel is started only when it is idle.                            *)

\* A device like the default one: the base device is not suspended, resets stay out of
\* the unlocked window, an abort clears the status.
Default == ~BaseDevSuspend /\ QuietResets /\ AbortClears

\* Who runs the channel: the API while api_active, else the packets of the ring.  A
\* completion is for one of the two, and nobody starts the channel while it is handled.
LineInv ==
    /\ ~suspended /\ seen["open"] = "idle"
    /\ seen["poll"] # "idle" => seen["poll"] = "done" /\ hw = Idle /\ stat
    /\ hw # Idle => ~stat
    /\ stat => free < MAX_TX_DCBS \/ api_active
    /\ hw = Api => api_active
    /\ hw.mode = "skb" => ~api_active /\ free < MAX_TX_DCBS
    /\ ~overrun
    /\ reported <= sent /\ (api_active /\ stat => reported < sent)

\* The engine is idle, sends a packet, or sends a chain of the API.
LEMMA Engine ==
    ASSUME TypeOK
    PROVE  /\ hw = Idle \/ hw = Api \/ (hw.mode = "skb" /\ hw # Idle /\ hw # Api)
           /\ Idle.mode # "skb" /\ Api.mode # "skb" /\ Api # Idle
           /\ \A i \in Slots : SkbAt(i).mode = "skb" /\ SkbAt(i) # Idle /\ SkbAt(i) # Api
BY DEF TypeOK, Modes, Idle, Api, SkbAt

LEMMA NextLine == ASSUME Default, TypeInv, LineInv, [Next]_vars PROVE LineInv'
<1> USE TxAssumption DEF Default
<1>1. TypeOK
    BY DEF TypeInv
<1>2. /\ Api # Idle /\ Idle.mode # "skb" /\ Api.mode # "skb"
      /\ \A i \in Slots : SkbAt(i).mode = "skb" /\ SkbAt(i) # Idle /\ SkbAt(i) # Api
      /\ hw = Idle \/ hw = Api \/ (hw.mode = "skb" /\ hw # Idle /\ hw # Api)
    BY <1>1, Engine
<1>3. free \in 1 .. MAX_TX_DCBS /\ cur \in Slots /\ reported \in Nat /\ sent \in Nat
    BY <1>1 DEF TypeOK
<1>a. ASSUME NEW n \in Netifs, TxQueue(n) PROVE LineInv'
    <2>1. free' = free - 1 /\ UNCHANGED <<api_active, suspended, seen, reported, sent>>
        BY <1>a DEF TxQueue, chains
    <2>2. CASE MayStart
        <3>1. hw = Idle /\ ~stat /\ seen["poll"] = "idle"
            BY <1>2, <1>3, <2>2 DEF LineInv, MayStart
        <3>2. hw' = SkbAt(cur) /\ ~stat' /\ ~overrun' /\ ~api_active /\ free' < MAX_TX_DCBS
            BY <1>a, <1>3, <2>1, <2>2, <3>1 DEF TxQueue, StartChannel, MayStart, LineInv
        <3> QED BY <1>2, <1>3, <2>1, <3>1, <3>2 DEF LineInv
    <2>3. CASE ~MayStart
        <3>1. UNCHANGED <<hw, stat, overrun>> /\ free' < MAX_TX_DCBS
            BY <1>a, <1>3, <2>1, <2>3 DEF TxQueue
        <3> QED BY <2>1, <3>1 DEF LineInv
    <2> QED BY <2>2, <2>3
<1>b. CASE HwSendSkb
    <2>1. /\ (hw' = Idle /\ stat') \/ (hw'.mode = "skb" /\ hw' # Api /\ UNCHANGED stat)
          /\ UNCHANGED <<free, api_active, suspended, seen, reported, sent, overrun>>
          /\ hw.mode = "skb"
        BY <1>b DEF HwSendSkb, netdev, chains, SkbAt, Api
    <2>2. ~api_active /\ free < MAX_TX_DCBS /\ hw # Idle
        BY <1>2, <2>1 DEF LineInv
    <2> QED BY <1>2, <2>1, <2>2 DEF LineInv
<1>c. CASE HwSendApi
    BY <1>c, <1>2, <1>3 DEF HwSendApi, LineInv, ring, netdev
<1>d. CASE DmaSnapshot
    <2>1. /\ seen' = [seen EXCEPT !["poll"] = "done"] /\ stat
          /\ UNCHANGED <<free, api_active, suspended, reported, sent, hw, stat, overrun>>
        BY <1>d DEF DmaSnapshot, ring, netdev, engine, chains
    <2>2. seen'["open"] = seen["open"] /\ seen'["poll"] = "done"
        BY <1>1, <2>1 DEF TypeOK, Contexts
    <2> QED BY <2>1, <2>2 DEF LineInv
<1>e. ASSUME NEW c \in Contexts, NEW k \in 0 .. MAX_TX_DCBS, DmaTxCompleting(c, k)
      PROVE  LineInv'
    <2> DEFINE on == seen[c] = "done"
               left == MAX_TX_DCBS - free - k
               first == Slot(dirty, k)
               toApi == on /\ api_queued > 0 /\ (api_active \/ left = 0)
               toSkb == on /\ ~toApi /\ left > 0
    <2>1. c = "poll" /\ seen["poll"] = "done" /\ hw = Idle /\ stat /\ on
        BY <1>e DEF DmaTxCompleting, LineInv, Contexts
    <2>2. left \in 0 .. MAX_TX_DCBS - 1 /\ first \in Slots /\ free' = free + k
          /\ free' = MAX_TX_DCBS - left
        BY <1>e, <1>1, SlotIsSlot DEF DmaTxCompleting, TypeOK
    <2>3. /\ reported' = reported + (IF api_active THEN 1 ELSE 0) /\ sent' = sent
          /\ api_active' <=> toApi
          /\ ~stat' /\ ~overrun'
          /\ hw' = IF toApi THEN Api ELSE IF toSkb THEN SkbAt(first) ELSE Idle
          /\ ~suspended'
          /\ seen' = [seen EXCEPT !["poll"] = "idle"]
        <3>1. reported' = reported + (IF api_active THEN 1 ELSE 0) /\ sent' = sent
              /\ seen' = [seen EXCEPT !["poll"] = "idle"] /\ ~suspended'
            BY <1>e, <2>1 DEF DmaTxCompleting, LineInv
        <3>2. api_active' <=> toApi
            BY <1>e, <2>1 DEF DmaTxCompleting
        <3>3. hw' = IF toApi THEN Api ELSE IF toSkb THEN SkbAt(first) ELSE Idle
            BY <1>e, <2>1 DEF DmaTxCompleting
        <3>4. ~stat' /\ ~overrun'
            BY <1>e, <2>1 DEF DmaTxCompleting, LineInv
        <3> QED BY <3>1, <3>2, <3>3, <3>4
    <2>4. seen'["open"] = seen["open"] /\ seen'["poll"] = "idle"
        BY <1>1, <2>3 DEF TypeOK, Contexts
    <2> HIDE DEF left, first
    <2>5. reported' <= sent'
        BY <1>3, <2>1, <2>3 DEF LineInv
    <2>6. /\ hw' = Api => api_active'
          /\ hw'.mode = "skb" => ~api_active' /\ free' < MAX_TX_DCBS
        <3>1. CASE toApi
            BY <1>2, <2>3, <3>1
        <3>2. CASE toSkb
            BY <1>2, <2>2, <2>3, <3>2
        <3>3. CASE ~toApi /\ ~toSkb
            BY <1>2, <2>3, <3>3
        <3> QED BY <3>1, <3>2, <3>3
    <2> QED BY <2>3, <2>4, <2>5, <2>6 DEF LineInv
<1>f. CASE BaseOpen
    BY <1>f DEF BaseOpen, LineInv, ring, engine, chains
<1>g. CASE BaseStop
    BY <1>g DEF BaseStop, LineInv, ring, engine, chains
<1>h. CASE DmaInfoTx
    <2>1. UNCHANGED <<free, suspended, seen, reported, sent>>
        BY <1>h DEF DmaInfoTx, ring
    <2>2. CASE free = MAX_TX_DCBS /\ ~api_active /\ ~suspended
        <3>1. hw = Idle /\ ~stat /\ seen["poll"] = "idle"
            BY <1>2, <1>3, <2>2 DEF LineInv
        <3>2. hw' = Api /\ ~stat' /\ ~overrun' /\ api_active'
            BY <1>h, <2>2, <3>1 DEF DmaInfoTx, StartChannel, LineInv
        <3> QED BY <1>2, <2>1, <3>1, <3>2 DEF LineInv
    <2>3. CASE ~(free = MAX_TX_DCBS /\ ~api_active /\ ~suspended)
        BY <1>h, <2>1, <2>3 DEF DmaInfoTx, LineInv
    <2> QED BY <2>2, <2>3
<1>i. CASE HwReset \/ HwInit
    <2>1. ~InWindow /\ AbortAndClean /\ UNCHANGED <<seen, overrun, reported, sent>>
          /\ (suspended' = suspended \/ suspended' = (suspended \/ (BaseDevSuspend /\ ~base_up)))
        BY <1>i DEF HwReset, HwInit, ResetAllowed, netdev, chains
    <2>2. seen["poll"] = "idle" /\ seen["open"] = "idle"
        BY <2>1 DEF InWindow, Contexts
    <2>3. hw' = Idle /\ ~stat' /\ ~api_active' /\ ~suspended'
        BY <2>1 DEF AbortAndClean, LineInv
    <2> QED BY <1>2, <2>1, <2>2, <2>3 DEF LineInv
<1>j. ASSUME UNCHANGED <<free, api_active, suspended, seen, reported, sent, hw, stat, overrun>>
      PROVE  LineInv'
    BY <1>j DEF LineInv
<1> QED
    BY <1>a, <1>b, <1>c, <1>d, <1>e, <1>f, <1>g, <1>h, <1>i, <1>j
       DEF Next, BknTx, DmaTx, XmitBegin, TxMapError, TxReject, TxNoResource, Open, Stop,
           vars, ring, netdev, engine, chains

LEMMA InitLine == ASSUME Default, Init PROVE LineInv
BY TxAssumption DEF Default, Init, LineInv, Idle, Api, Contexts

\* With the base device not suspended, and resets that stay out of the unlocked window,
\* bkn_tx, DMA_INFO and the completion handler never start a channel that runs.
THEOREM OverrunCorrect == ASSUME Default PROVE Spec => []NoOverrun
<1>1. LineInv => NoOverrun
    BY DEF LineInv, NoOverrun
<1>2. Init => LineInv
    BY InitLine
<1>3. TypeInv /\ LineInv /\ [Next]_vars => LineInv'
    BY NextLine
<1> QED BY InitTypeInv, NextTypeInv, <1>1, <1>2, <1>3, PTL DEF Spec

\* Under the same conditions each TX_DONE is for a chain whose packets were sent.
THEOREM CompletionCorrect == ASSUME Default PROVE Spec => []NoFalseCompletion
<1>1. LineInv => NoFalseCompletion
    BY DEF LineInv, NoFalseCompletion
<1>2. Init => LineInv
    BY InitLine
<1>3. TypeInv /\ LineInv /\ [Next]_vars => LineInv'
    BY NextLine
<1> QED BY InitTypeInv, NextTypeInv, <1>1, <1>2, <1>3, PTL DEF Spec

LEMMA NextHeard ==
    ASSUME Default, TypeInv, LineInv, CompletionHeard, [Next]_vars
    PROVE  CompletionHeard'
<1>a. ASSUME NEW n \in Netifs, TxQueue(n) PROVE CompletionHeard'
    BY <1>a DEF TxQueue, StartChannel, CompletionHeard
<1>b. CASE HwSendSkb
    <2>1. hw # Idle
        BY <1>b DEF HwSendSkb, Idle
    <2> QED BY <1>b, <2>1 DEF HwSendSkb, CompletionHeard
<1>c. CASE HwSendApi
    BY <1>c DEF HwSendApi, CompletionHeard, Api, Idle
<1>d. ASSUME NEW c \in Contexts, NEW k \in 0 .. MAX_TX_DCBS, DmaTxCompleting(c, k)
      PROVE  CompletionHeard'
    <2>1. c = "poll" /\ seen[c] = "done"
        BY <1>d DEF DmaTxCompleting, LineInv, Contexts
    <2>2. ~stat' /\ (hw' # Idle => irq')
        BY <1>d, <2>1 DEF DmaTxCompleting
    <2> QED BY <2>2 DEF CompletionHeard
<1>e. CASE DmaInfoTx
    BY <1>e DEF DmaInfoTx, StartChannel, CompletionHeard
<1>f. CASE HwReset \/ HwInit
    BY <1>f DEF HwReset, HwInit, AbortAndClean, Default, CompletionHeard
<1>g. ASSUME UNCHANGED <<hw, stat, irq>> PROVE CompletionHeard'
    BY <1>g DEF CompletionHeard
<1> QED
    BY <1>a, <1>b, <1>c, <1>d, <1>e, <1>f, <1>g
       DEF Next, BknTx, DmaTx, XmitBegin, TxMapError, TxReject, TxNoResource, Open, Stop,
           DmaSnapshot, BaseOpen, BaseStop, vars, ring, engine

\* Under the same conditions the interrupt of the channel is enabled as long as the engine
\* runs or its completion is not handled.
THEOREM HeardCorrect == ASSUME Default PROVE Spec => []CompletionHeard
<1>1. Init => LineInv /\ CompletionHeard
    BY InitLine DEF Init, CompletionHeard
<1>2. TypeInv /\ LineInv /\ CompletionHeard /\ [Next]_vars => LineInv' /\ CompletionHeard'
    BY NextLine, NextHeard
<1> QED BY InitTypeInv, NextTypeInv, <1>1, <1>2, PTL DEF Spec

-----------------------------------------------------------------------------
(* Where the engine is on the ring.                                        *)

\* Of the pending slots, the first m are done.
Prefix(m) == \A i \in Slots : Pending(i) => (done[i] <=> Ahead(i) < m)

\* Some first slots are done and the others are not.
SomeDone == \E m \in 0 .. MAX_TX_DCBS - free : Prefix(m)

\* The engine stands on the first slot that is not done.
OnFirst == hw.mode = "skb" => Pending(hw.pos) /\ Prefix(Ahead(hw.pos))

\* While the API has the channel no pending slot is done.
NoneDone == api_active => Prefix(0)

\* Chain bits of pending slots lead to pending slots.
ChainInside == \A i \in Slots : Pending(i) /\ chained[i] => i + 1 \in Slots /\ Pending(i + 1)

EngineInv == SomeDone /\ OnFirst /\ NoneDone /\ ChainInside

\* Distances from tx.dirty and slots determine each other.
LEMMA AheadFacts ==
    ASSUME TypeInv
    PROVE  /\ \A i \in Slots : Ahead(i) \in 0 .. MAX_TX_DCBS - 1 /\ Slot(dirty, Ahead(i)) = i
           /\ \A i, j \in Slots : Ahead(i) = Ahead(j) => i = j
           /\ \A k \in 0 .. MAX_TX_DCBS - 1 :
                 Slot(dirty, k) \in Slots /\ Ahead(Slot(dirty, k)) = k
BY TxAssumption DEF TypeInv, TypeOK, Ahead, Slot, Slots

\* bkn_tx uses the slot after the pending ones.
LEMMA CurFacts ==
    ASSUME TypeInv, free > 1
    PROVE  cur \in Slots /\ Ahead(cur) = MAX_TX_DCBS - free /\ ~Pending(cur)
BY TxAssumption DEF TypeInv, TypeOK, RingAccounting, Pending, Ahead, Slot, Slots

\* A packet more leaves the done ones as they are.
LEMMA PrefixQueued ==
    ASSUME TypeInv, NEW n \in Netifs, TxQueue(n), NEW m \in 0 .. MAX_TX_DCBS - free, Prefix(m)
    PROVE  Prefix(m)'
<1>1. /\ free > 1 /\ free' = free - 1 /\ dirty' = dirty /\ done' = [done EXCEPT ![cur] = FALSE]
    BY DEF TxQueue, Room
<1>2. \A i \in Slots : Pending(i)' <=> Pending(i) \/ i = cur
    BY <1>1, PendingQueued
<1>3. cur \in Slots /\ Ahead(cur) = MAX_TX_DCBS - free /\ done \in [Slots -> BOOLEAN]
      /\ MAX_TX_DCBS \in Nat /\ free \in Nat
    BY <1>1, CurFacts, TxAssumption DEF TypeInv, TypeOK
<1>4. \A i \in Slots : Ahead(i)' = Ahead(i)
    BY <1>1 DEF Ahead
<1> SUFFICES ASSUME NEW i \in Slots, Pending(i)' PROVE done'[i] <=> Ahead(i)' < m
    BY DEF Prefix
<1>5. CASE i = cur
    BY <1>1, <1>3, <1>4, <1>5
<1>6. CASE i # cur
    <2>1. Pending(i) /\ done'[i] = done[i]
        BY <1>1, <1>2, <1>3, <1>6
    <2>2. QED
        BY <1>4, <2>1 DEF Prefix
<1> QED BY <1>5, <1>6

\* The engine is done with one slot more.
LEMMA PrefixSent ==
    ASSUME TypeInv, HwSendSkb, NEW p \in Slots, hw.pos = p, Pending(p),
           NEW a \in Nat, a = Ahead(p), Prefix(a)
    PROVE  Prefix(a + 1)'
<1>1. free' = free /\ dirty' = dirty /\ done' = [done EXCEPT ![p] = TRUE]
    BY DEF HwSendSkb
<1>2. \A i \in Slots : Pending(i)' <=> Pending(i)
    BY <1>1, PendingSame
<1>3. \A i \in Slots : Ahead(i)' = Ahead(i)
    BY <1>1 DEF Ahead
<1>4. done \in [Slots -> BOOLEAN]
    BY DEF TypeInv, TypeOK
<1> SUFFICES ASSUME NEW i \in Slots, Pending(i) PROVE done'[i] <=> Ahead(i) < a + 1
    BY <1>2, <1>3 DEF Prefix
<1>5. CASE i = p
    BY <1>1, <1>4, <1>5
<1>6. CASE i # p
    <2>1. Ahead(i) # a /\ Ahead(i) \in Int
        BY <1>6, AheadFacts, TxAssumption
    <2>2. done'[i] = done[i]
        BY <1>1, <1>4, <1>6
    <2>3. done[i] <=> Ahead(i) < a
        BY DEF Prefix
    <2> QED BY <2>1, <2>2, <2>3
<1> QED BY <1>5, <1>6

\* bkn_do_tx reclaims all slots that are done, and after that none is.
LEMMA PrefixReclaimed ==
    ASSUME TypeInv, NEW m \in 0 .. MAX_TX_DCBS - free, Prefix(m),
           NEW k \in 0 .. MAX_TX_DCBS, k <= MAX_TX_DCBS - free, CompletedRun(k)
    PROVE  k = m
<1>1. MAX_TX_DCBS \in Nat /\ free \in 1 .. MAX_TX_DCBS
    BY TxAssumption DEF TypeInv, TypeOK
<1>2. ~(k < m)
    <2> SUFFICES ASSUME k < m PROVE FALSE
        OBVIOUS
    <2>1. k \in 0 .. MAX_TX_DCBS - 1 /\ k < MAX_TX_DCBS - free
        BY <1>1
    <2> DEFINE i == Slot(dirty, k)
    <2>2. i \in Slots /\ Ahead(i) = k
        BY <2>1, AheadFacts
    <2> HIDE DEF i
    <2>3. Pending(i) /\ ~done[i]
        BY <2>1, <2>2 DEF Pending, CompletedRun
    <2> QED BY <2>2, <2>3 DEF Prefix
<1>3. ~(m < k)
    <2> SUFFICES ASSUME m < k PROVE FALSE
        OBVIOUS
    <2>1. m \in 0 .. MAX_TX_DCBS - 1 /\ m < MAX_TX_DCBS - free
        BY <1>1
    <2> DEFINE i == Slot(dirty, m)
    <2>2. i \in Slots /\ Ahead(i) = m
        BY <2>1, AheadFacts
    <2> HIDE DEF i
    <2>3. Pending(i) /\ done[i]
        BY <2>1, <2>2 DEF Pending, CompletedRun
    <2> QED BY <2>2, <2>3 DEF Prefix
<1> QED BY <1>1, <1>2, <1>3

\* The slot after a pending one in memory, if pending too, is the next on the ring.
LEMMA NextAhead ==
    ASSUME TypeInv, NEW i \in Slots, i + 1 \in Slots, Pending(i), Pending(i + 1)
    PROVE  Ahead(i + 1) = Ahead(i) + 1
BY TxAssumption DEF TypeInv, TypeOK, Pending, Ahead, Slots

\* An engine on p, a slots after tx.dirty, of which a are done, is on the first to do.
LEMMA EngineAt ==
    ASSUME NEW p \in Slots, NEW a \in Nat, hw'.pos = p, Pending(p)', Ahead(p)' = a, Prefix(a)'
    PROVE  OnFirst'
BY DEF OnFirst, Prefix, Pending, Ahead

\* Where the engine is on the ring when it runs.
LEMMA EnginePos ==
    ASSUME TypeInv, EngineInv, hw.mode = "skb"
    PROVE  /\ hw.pos \in Slots /\ Pending(hw.pos) /\ Prefix(Ahead(hw.pos))
           /\ Ahead(hw.pos) \in 0 .. MAX_TX_DCBS - free
<1>1. hw.pos \in Slots
    BY DEF TypeInv, TypeOK, Modes, Idle, Api, SkbAt
<1> QED BY <1>1, TxAssumption, AheadFacts DEF EngineInv, OnFirst, Pending, TypeInv, TypeOK

\* Steps that neither fill nor reclaim a descriptor.
LEMMA EngineSame ==
    ASSUME TypeInv, EngineInv, free' = free, dirty' = dirty,
           \A i \in Slots : Pending(i) => done'[i] = done[i] /\ chained'[i] = chained[i],
           hw' = hw \/ hw'.mode # "skb",
           api_active' => api_active \/ free = MAX_TX_DCBS
    PROVE  EngineInv'
<1>1. \A i \in Slots : (Pending(i)' <=> Pending(i)) /\ Ahead(i)' = Ahead(i)
    BY PendingSame DEF Ahead
<1>2. ASSUME NEW m, Prefix(m) PROVE Prefix(m)'
    BY <1>1, <1>2 DEF Prefix
<1>3. SomeDone'
    BY <1>2 DEF EngineInv, SomeDone
<1>4. ASSUME hw'.mode = "skb" PROVE OnFirst'
    <2>1. hw' = hw
        BY <1>4
    <2>2. PICK p \in Slots, a \in Nat : p = hw.pos /\ a = Ahead(p) /\ Pending(p) /\ Prefix(a)
        BY <1>4, <2>1, EnginePos, TxAssumption DEF TypeInv, TypeOK
    <2>3. Prefix(a)' /\ Pending(p)' /\ Ahead(p)' = a /\ hw'.pos = p
        BY <1>1, <1>2, <2>1, <2>2
    <2> QED BY <2>3, EngineAt
<1>5. OnFirst'
    BY <1>4 DEF OnFirst
<1>6. NoneDone'
    <2>1. CASE api_active
        BY <2>1, <1>2 DEF EngineInv, NoneDone
    <2>2. CASE free = MAX_TX_DCBS
        <3>1. \A i \in Slots : ~Pending(i)'
            BY <2>2, TxAssumption, PendingNone DEF TypeInv, TypeOK
        <3> QED BY <3>1 DEF NoneDone, Prefix
    <2> QED BY <2>1, <2>2 DEF NoneDone
<1>7. ChainInside'
    BY <1>1 DEF EngineInv, ChainInside
<1> QED BY <1>3, <1>5, <1>6, <1>7 DEF EngineInv

LEMMA EngineQueued ==
    ASSUME Default, TypeInv, LineInv, EngineInv, NEW n \in Netifs, TxQueue(n)
    PROVE  EngineInv'
<1>1. /\ free > 1 /\ free' = free - 1 /\ dirty' = dirty /\ api_active' = api_active
      /\ chained' = [chained EXCEPT ![cur] = FALSE]
    BY DEF TxQueue, Room
<1>2. cur \in Slots /\ Ahead(cur) = MAX_TX_DCBS - free /\ MAX_TX_DCBS \in Nat
      /\ free \in 1 .. MAX_TX_DCBS /\ chained \in [Slots -> BOOLEAN]
    BY <1>1, CurFacts, TxAssumption DEF TypeInv, TypeOK
<1>3. \A i \in Slots : (Pending(i)' <=> Pending(i) \/ i = cur) /\ Ahead(i)' = Ahead(i)
    BY <1>1, PendingQueued DEF Ahead
<1>4. SomeDone'
    BY <1>1, <1>2, PrefixQueued DEF EngineInv, SomeDone
<1>5. NoneDone'
    BY <1>1, <1>2, PrefixQueued DEF EngineInv, NoneDone
<1>6. ChainInside'
    BY <1>1, <1>2, <1>3 DEF EngineInv, ChainInside
<1>7. OnFirst'
    <2>1. CASE MayStart
        <3>1. free = MAX_TX_DCBS /\ hw' = SkbAt(cur)
            BY <2>1 DEF TxQueue, MayStart, StartChannel
        <3>2. Prefix(0)
            BY <3>1, <1>2, AheadFacts DEF Prefix, Pending
        <3>3. Prefix(0)'
            BY <1>2, <3>2, PrefixQueued
        <3>4. hw'.pos = cur
            BY <3>1 DEF SkbAt
        <3>5. PICK p \in Slots : p = cur
            BY <1>2
        <3>6. Pending(p)' /\ Ahead(p)' = 0 /\ hw'.pos = p
            BY <1>2, <1>3, <3>1, <3>4, <3>5
        <3> QED BY <3>3, <3>6, EngineAt
    <2>2. CASE ~MayStart /\ hw.mode = "skb"
        <3>1. hw' = hw
            BY <2>2 DEF TxQueue
        <3>2. PICK p \in Slots, a \in 0 .. MAX_TX_DCBS - free :
                  p = hw.pos /\ a = Ahead(p) /\ Pending(p) /\ Prefix(a)
            BY <2>2, EnginePos
        <3>3. Prefix(a)' /\ Pending(p)' /\ Ahead(p)' = a /\ hw'.pos = p /\ a \in Nat
            BY <1>2, <1>3, <3>1, <3>2, PrefixQueued
        <3> QED BY <3>3, EngineAt
    <2>3. CASE ~MayStart /\ hw.mode # "skb"
        BY <2>3 DEF TxQueue, OnFirst
    <2> QED BY <2>1, <2>2, <2>3
<1> QED BY <1>4, <1>5, <1>6, <1>7 DEF EngineInv

LEMMA EngineSent ==
    ASSUME TypeInv, LineInv, EngineInv, HwSendSkb
    PROVE  EngineInv'
<1>1. free' = free /\ dirty' = dirty /\ chained' = chained /\ api_active' = api_active
      /\ hw.mode = "skb"
    BY DEF HwSendSkb
<1>2. PICK p \in Slots, a \in 0 .. MAX_TX_DCBS - free :
          p = hw.pos /\ a = Ahead(p) /\ Pending(p) /\ Prefix(a)
    BY <1>1, EnginePos
<1>3. /\ a \in Nat /\ a + 1 \in Nat /\ a + 1 \in 0 .. MAX_TX_DCBS - free
      /\ MAX_TX_DCBS \in Nat /\ free \in Nat
    BY <1>2, TxAssumption DEF TypeInv, TypeOK, Pending
<1>4. Prefix(a + 1)'
    BY <1>2, <1>3, PrefixSent
<1>5. \A i \in Slots : (Pending(i)' <=> Pending(i)) /\ Ahead(i)' = Ahead(i)
    BY <1>1, PendingSame DEF Ahead
<1>6. SomeDone'
    BY <1>1, <1>3, <1>4 DEF SomeDone
<1>7. NoneDone'
    BY <1>1 DEF LineInv, NoneDone
<1>8. ChainInside'
    BY <1>1, <1>5 DEF EngineInv, ChainInside
<1>9. OnFirst'
    <2>1. CASE chained[p]
        <3>1. p + 1 \in Slots /\ Pending(p + 1)
            BY <2>1, <1>2 DEF EngineInv, ChainInside
        <3>2. Ahead(p + 1) = a + 1
            BY <3>1, <1>2, NextAhead
        <3>3. hw'.pos = p + 1
            BY <2>1, <1>2 DEF HwSendSkb, SkbAt
        <3>4. PICK q \in Slots : q = p + 1
            BY <3>1
        <3>5. hw'.pos = q /\ Pending(q)' /\ Ahead(q)' = a + 1
            BY <3>1, <3>2, <3>3, <3>4, <1>5
        <3> QED BY <3>5, <1>3, <1>4, EngineAt
    <2>2. CASE ~chained[p]
        BY <2>2, <1>2 DEF HwSendSkb, Idle, OnFirst
    <2> QED BY <2>1, <2>2
<1> QED BY <1>6, <1>7, <1>8, <1>9 DEF EngineInv

\* A completion is handled only when the engine is idle: afterwards no slot is done.
LEMMA EngineCompleted ==
    ASSUME TypeInv, TypeInv', LineInv, EngineInv,
           NEW c \in Contexts, NEW k \in 0 .. MAX_TX_DCBS, DmaTxCompleting(c, k)
    PROVE  EngineInv' /\ Prefix(0)' /\ Prefix(k)
<1> DEFINE left == MAX_TX_DCBS - free - k
           first == Slot(dirty, k)
           toApi == api_queued > 0 /\ (api_active \/ left = 0)
           toSkb == ~toApi /\ left > 0
<1>1. c = "poll" /\ seen[c] = "done" /\ hw = Idle
    BY DEF DmaTxCompleting, LineInv, Contexts
<1>2. /\ free' = free + k /\ dirty' = first /\ k <= MAX_TX_DCBS - free
      /\ done' = [i \in Slots |-> IF Ahead(i) < k THEN FALSE ELSE done[i]]
      /\ chained' = [i \in Slots |-> chained[i] \/ (toSkb /\ Linked(i, first, left))]
      /\ hw' = IF toApi THEN Api ELSE IF toSkb THEN SkbAt(first) ELSE Idle
      /\ IF api_active THEN k = 0 ELSE CompletedRun(k)
    BY <1>1, TxAssumption DEF DmaTxCompleting, TypeInv, TypeOK
<1>3. /\ MAX_TX_DCBS \in Nat /\ free \in 1 .. MAX_TX_DCBS /\ dirty \in Slots /\ first \in Slots
      /\ \A i \in Slots : Ahead(i) \in Nat
    BY TxAssumption, SlotIsSlot, AheadFacts DEF TypeInv, TypeOK
<1>4. \A i \in Slots : Pending(i)' <=> Pending(i) /\ Ahead(i) >= k
    BY <1>2, PendingReclaimed
<1>5. \A i \in Slots : Pending(i)' => Ahead(i)' = Ahead(i) - k
    BY <1>2, <1>3, <1>4 DEF Ahead, Slot, Slots, Pending
<1>6. Prefix(k)
    BY <1>2, <1>3, PrefixReclaimed DEF EngineInv, SomeDone, NoneDone
<1> HIDE DEF first
<1>7. Prefix(0)'
    <2> SUFFICES ASSUME NEW i \in Slots, Pending(i)' PROVE ~done'[i] /\ ~(Ahead(i)' < 0)
        BY DEF Prefix
    <2>1. ~(Ahead(i) < k) /\ Pending(i) /\ Ahead(i)' = Ahead(i) - k
        BY <1>3, <1>4, <1>5
    <2> QED BY <2>1, <1>2, <1>3, <1>6 DEF Prefix
<1>8. SomeDone' /\ NoneDone'
    <2>1. 0 \in 0 .. MAX_TX_DCBS - free'
        BY <1>2, <1>3
    <2> QED BY <2>1, <1>7 DEF SomeDone, NoneDone
<1>9. OnFirst'
    <2>1. CASE toSkb
        <3>1. hw'.pos = first /\ dirty' = first
            BY <2>1, <1>2 DEF SkbAt
        <3>2. PICK p \in Slots : p = first
            BY <1>3
        <3>3. Ahead(p)' = 0
            BY <3>1, <3>2, <1>3 DEF Ahead, Slots
        <3>4. Pending(p)'
            BY <3>3, <2>1, <1>2, <1>3 DEF Pending
        <3> QED BY <3>1, <3>2, <3>3, <3>4, <1>7, EngineAt
    <2>2. CASE ~toSkb
        <3>1. hw' = Api \/ hw' = Idle
            BY <2>2, <1>2
        <3> QED BY <3>1 DEF OnFirst, Api, Idle
    <2> QED BY <2>1, <2>2
<1>10. ChainInside'
    <2> SUFFICES ASSUME NEW i \in Slots, Pending(i)', chained'[i]
                 PROVE  i + 1 \in Slots /\ Pending(i + 1)'
        BY DEF ChainInside
    <2>1. CASE chained[i]
        <3>1. i + 1 \in Slots /\ Pending(i + 1) /\ Pending(i) /\ Ahead(i) >= k
            BY <2>1, <1>4 DEF EngineInv, ChainInside
        <3>2. Ahead(i + 1) = Ahead(i) + 1
            BY <3>1, NextAhead
        <3>3. Ahead(i + 1) >= k
            BY <3>1, <3>2, <1>3
        <3> QED BY <1>4, <3>1, <3>3
    <2>2. CASE ~chained[i]
        <3>1. Linked(i, first, left)
            BY <2>2, <1>2
        <3>2. i + 1 \in Slots /\ i + 1 >= first /\ i + 1 - first < left
            BY <3>1, <1>2, <1>3 DEF Linked, Slots
        <3>3. dirty' = first /\ MAX_TX_DCBS - free' = left
            BY <1>2, <1>3
        <3>4. PICK j \in Slots : j = i + 1
            BY <3>2
        <3>5. PICK d \in Nat : d = j - first /\ d < left
            BY <3>2, <3>4, <1>3 DEF Slots
        <3>6. Ahead(j)' = d
            BY <3>2, <3>3, <3>4, <3>5 DEF Ahead
        <3>7. Pending(j)'
            BY <3>3, <3>5, <3>6 DEF Pending
        <3> QED BY <3>4, <3>7
    <2> QED BY <2>1, <2>2
<1> QED BY <1>6, <1>7, <1>8, <1>9, <1>10 DEF EngineInv

LEMMA EngineReset ==
    ASSUME TypeInv', AbortAndClean
    PROVE  EngineInv'
<1>1. free' = MAX_TX_DCBS /\ hw' = Idle /\ api_active' = FALSE /\ dirty' \in Slots
    BY DEF AbortAndClean, TypeInv, TypeOK
<1>2. \A i \in Slots : ~Pending(i)'
    BY <1>1, PendingNone
<1>3. Prefix(0)' /\ 0 \in 0 .. MAX_TX_DCBS - free'
    BY <1>1, <1>2, TxAssumption DEF Prefix
<1> QED BY <1>1, <1>2, <1>3 DEF EngineInv, SomeDone, OnFirst, NoneDone, ChainInside, Idle

LEMMA NextEngine ==
    ASSUME Default, TypeInv, TypeInv', LineInv, EngineInv, [Next]_vars
    PROVE  EngineInv'
<1>a. ASSUME NEW n \in Netifs, TxMapError(n) PROVE EngineInv'
    <2>1. /\ free' = free /\ dirty' = dirty /\ hw' = hw /\ api_active' = api_active
          /\ done' = [done EXCEPT ![cur] = FALSE] /\ chained' = [chained EXCEPT ![cur] = FALSE]
          /\ free > 1
        BY <1>a DEF TxMapError, Room, engine
    <2>2. \A i \in Slots : Pending(i) => done'[i] = done[i] /\ chained'[i] = chained[i]
        BY <2>1, CurFacts DEF TypeInv, TypeOK
    <2> QED BY <2>1, <2>2, EngineSame
<1>b. CASE HwSendApi
    <2>1. UNCHANGED <<free, dirty, done, chained, api_active>> /\ hw' = Idle
        BY <1>b DEF HwSendApi, ring
    <2> QED BY <2>1, EngineSame DEF Idle
<1>c. CASE DmaInfoTx
    <2>1. /\ UNCHANGED <<free, dirty, done, chained>>
          /\ hw' = hw \/ hw' = Api
          /\ api_active' => api_active \/ free = MAX_TX_DCBS
        BY <1>c DEF DmaInfoTx, StartChannel, ring
    <2> QED BY <2>1, EngineSame DEF Api
<1>d. ASSUME UNCHANGED <<free, dirty, done, chained, hw, api_active>> PROVE EngineInv'
    BY <1>d, EngineSame
<1> QED
    BY <1>a, <1>b, <1>c, <1>d, EngineQueued, EngineSent, EngineCompleted, EngineReset
       DEF Next, BknTx, DmaTx, XmitBegin, TxReject, TxNoResource, Open, Stop, DmaSnapshot,
           BaseOpen, BaseStop, HwReset, HwInit, vars, ring, engine

LEMMA InitEngine == ASSUME Init PROVE EngineInv
<1>1. free = MAX_TX_DCBS /\ dirty = 0 /\ hw = Idle /\ api_active = FALSE
    BY DEF Init
<1>2. \A i \in Slots : ~Pending(i)
    BY <1>1, TxAssumption DEF Pending, Ahead, Slots
<1>3. Prefix(0) /\ 0 \in 0 .. MAX_TX_DCBS - free
    BY <1>1, <1>2, TxAssumption DEF Prefix
<1> QED BY <1>1, <1>2, <1>3 DEF EngineInv, SomeDone, OnFirst, NoneDone, ChainInside, Idle

\* Under the same conditions the engine takes the pending packets in their order and never
\* leaves them: it stands on the first that is not done, and chain bits lead to pending ones.
THEOREM EngineCorrect == ASSUME Default PROVE Spec => []EngineOnRing
<1>1. TypeInv /\ EngineInv => EngineOnRing
    BY EnginePos DEF EngineInv, ChainInside, EngineOnRing, Prefix
<1>2. Init => LineInv /\ EngineInv
    BY InitLine, InitEngine
<1>3. TypeInv /\ TypeInv' /\ LineInv /\ EngineInv /\ [Next]_vars => LineInv' /\ EngineInv'
    BY NextLine, NextEngine
<1> QED BY InitTypeInv, NextTypeInv, <1>1, <1>2, <1>3, PTL DEF Spec

-----------------------------------------------------------------------------
(* The ring is a FIFO.                                                     *)

\* A list with an element more at its end, and one with an element less at its front.
LEMMA LongerByOne ==
    ASSUME NEW S, NEW l \in Nat, NEW s \in [1 .. l -> S], NEW t \in [1 .. l + 1 -> S],
           \A j \in 1 .. l : t[j] = s[j]
    PROVE  t = Append(s, t[l + 1])
<1>1. s \in Seq(S) /\ Len(s) = l /\ t \in Seq(S) /\ Len(t) = l + 1 /\ t[l + 1] \in S
    BY IsASeq, LenProperties
<1> DEFINE u == Append(s, t[l + 1])
<1>2. /\ u \in Seq(S) /\ Len(u) = l + 1
      /\ \A j \in 1 .. l : u[j] = s[j]
      /\ u[l + 1] = t[l + 1]
    BY <1>1, AppendProperties
<1> HIDE DEF u
<1>3. \A j \in 1 .. l + 1 : t[j] = u[j]
    BY <1>2
<1>4. t = u
    BY <1>1, <1>2, <1>3, SeqEqual
<1> QED BY <1>4 DEF u

LEMMA ShorterByOne ==
    ASSUME NEW S, NEW l \in Nat, NEW s \in [1 .. l + 1 -> S], NEW t \in [1 .. l -> S],
           \A j \in 1 .. l : t[j] = s[j + 1]
    PROVE  s # <<>> /\ s[1] = Head(s) /\ t = Tail(s)
<1>1. s \in Seq(S) /\ Len(s) = l + 1 /\ t \in Seq(S) /\ Len(t) = l
    BY IsASeq, LenProperties
<1>2. s # <<>> /\ s[1] = Head(s)
    BY <1>1
<1>3. Tail(s) \in Seq(S) /\ Len(Tail(s)) = l /\ \A j \in 1 .. l : Tail(s)[j] = s[j + 1]
    BY <1>1, <1>2, HeadTailProperties
<1> QED BY <1>1, <1>2, <1>3, SeqEqual

\* The packets of the pending slots but for the first m.
Rest(m) == [j \in 1 .. (MAX_TX_DCBS - free - m) |-> skb[Slot(dirty, m + j - 1)]]

\* As many slots are done as the first that are.
LEMMA PrefixCount ==
    ASSUME TypeInv, NEW m \in 0 .. MAX_TX_DCBS - free, Prefix(m)
    PROVE  Cardinality({i \in Slots : Pending(i) /\ done[i]}) = m
<1> DEFINE D == {i \in Slots : Pending(i) /\ done[i]}
           at == [j \in 0 .. m - 1 |-> Slot(dirty, j)]
<1>1. MAX_TX_DCBS \in Nat /\ free \in 1 .. MAX_TX_DCBS /\ m \in Nat
    BY TxAssumption DEF TypeInv, TypeOK
<1>2. \A i \in Slots : i \in D <=> Ahead(i) < m
    BY <1>1, AheadFacts DEF Prefix, Pending
<1>3. \A j \in 0 .. m - 1 : Slot(dirty, j) \in Slots /\ Ahead(Slot(dirty, j)) = j
    BY <1>1, AheadFacts
<1>4. at \in [0 .. m - 1 -> D]
    BY <1>1, <1>2, <1>3
<1>5. \A a, b \in 0 .. m - 1 : at[a] = at[b] => a = b
    BY <1>3
<1>6. \A i \in D : \E j \in 0 .. m - 1 : at[j] = i
    <2> SUFFICES ASSUME NEW i \in D PROVE \E j \in 0 .. m - 1 : at[j] = i
        OBVIOUS
    <2>1. Ahead(i) \in 0 .. m - 1 /\ Slot(dirty, Ahead(i)) = i
        BY <1>1, <1>2, AheadFacts
    <2> QED BY <2>1
<1> HIDE DEF D, at
<1>7. at \in Bijection(0 .. m - 1, D)
    BY <1>4, <1>5, <1>6, Fun_IsBij
<1>8. ExistsBijection(0 .. m - 1, D)
    BY <1>7 DEF ExistsBijection
<1>9. IsFiniteSet(0 .. m - 1) /\ Cardinality(0 .. m - 1) = m
    BY <1>1, FS_Interval
<1>10. Cardinality(D) = m
    BY <1>8, <1>9, FS_Bijection
<1> QED BY <1>10 DEF D

UnsentAt == \A m \in 0 .. MAX_TX_DCBS - free : Prefix(m) => Unsent = Rest(m)

LEMMA UnsentRest == TypeInv => UnsentAt
BY PrefixCount DEF UnsentAt, Unsent, Rest

\* What is left on the ring are packets, those of the slots after the first m.
LEMMA RestFacts ==
    ASSUME TypeInv, NEW m \in 0 .. MAX_TX_DCBS - free
    PROVE  /\ MAX_TX_DCBS - free - m \in Nat
           /\ Rest(m) \in [1 .. (MAX_TX_DCBS - free - m) -> Skbs \union {NoSkb}]
           /\ \A j \in 1 .. (MAX_TX_DCBS - free - m) :
                 /\ Slot(dirty, m + j - 1) \in Slots
                 /\ Pending(Slot(dirty, m + j - 1))
                 /\ Ahead(Slot(dirty, m + j - 1)) = m + j - 1
<1>1. MAX_TX_DCBS \in Nat /\ free \in 1 .. MAX_TX_DCBS /\ skb \in [Slots -> Skbs \union {NoSkb}]
    BY TxAssumption DEF TypeInv, TypeOK
<1>2. \A j \in 1 .. (MAX_TX_DCBS - free - m) : m + j - 1 \in 0 .. MAX_TX_DCBS - 1
    BY <1>1
<1>3. \A j \in 1 .. (MAX_TX_DCBS - free - m) :
          Slot(dirty, m + j - 1) \in Slots /\ Ahead(Slot(dirty, m + j - 1)) = m + j - 1
    BY <1>2, AheadFacts
<1>4. \A j \in 1 .. (MAX_TX_DCBS - free - m) : Pending(Slot(dirty, m + j - 1))
    BY <1>1, <1>3 DEF Pending
<1> QED BY <1>1, <1>3, <1>4 DEF Rest

\* bkn_tx accepts a packet.
LEMMA FifoQueued ==
    ASSUME TypeInv, TypeInv', EngineInv, UnsentAt, UnsentAt', NEW n \in Netifs, TxQueue(n)
    PROVE  Fifo!Accept(xmit[n])
<1>1. /\ free > 1 /\ free' = free - 1 /\ dirty' = dirty /\ wire' = wire /\ resets' = resets
      /\ skb' = [skb EXCEPT ![cur] = xmit[n]]
    BY DEF TxQueue, Room
<1>2. PICK m \in 0 .. MAX_TX_DCBS - free : Prefix(m)
    BY DEF EngineInv, SomeDone
<1>3. PICK l \in Nat : l = MAX_TX_DCBS - free - m
    BY <1>2, RestFacts
<1>4. /\ MAX_TX_DCBS \in Nat /\ free \in 1 .. MAX_TX_DCBS /\ cur \in Slots /\ dirty \in Slots
      /\ skb \in [Slots -> Skbs \union {NoSkb}] /\ skb' \in [Slots -> Skbs \union {NoSkb}]
    BY TxAssumption DEF TypeInv, TypeOK
<1>5. Prefix(m)' /\ m \in 0 .. MAX_TX_DCBS - free' /\ MAX_TX_DCBS - free' - m = l + 1
    BY <1>1, <1>2, <1>3, <1>4, PrefixQueued
<1> DEFINE t == [j \in 1 .. l + 1 |-> skb'[Slot(dirty, m + j - 1)]]
<1>6. Unsent = Rest(m) /\ Unsent' = t
    <2>1. Unsent' = [j \in 1 .. (MAX_TX_DCBS - free' - m) |-> skb'[Slot(dirty', m + j - 1)]]
        BY <1>5 DEF UnsentAt, Rest, Slot
    <2> QED BY <2>1, <1>1, <1>2, <1>5 DEF UnsentAt
<1>7. Slot(dirty, m + (l + 1) - 1) = cur
    BY <1>3, <1>4 DEF TypeInv, RingAccounting, Slot
<1>8. \A j \in 1 .. l : Slot(dirty, m + j - 1) \in Slots /\ Slot(dirty, m + j - 1) # cur
    BY <1>1, <1>2, <1>3, RestFacts, CurFacts
<1>9. t \in [1 .. l + 1 -> Skbs \union {NoSkb}]
    <2>1. \A j \in 1 .. l + 1 : Slot(dirty, m + j - 1) \in Slots
        <3> SUFFICES ASSUME NEW j \in 1 .. l + 1 PROVE Slot(dirty, m + j - 1) \in Slots
            OBVIOUS
        <3>1. CASE j = l + 1
            BY <3>1, <1>4, <1>7
        <3>2. CASE j # l + 1
            <4>1. j \in 1 .. l
                BY <3>2
            <4> QED BY <4>1, <1>8
        <3> QED BY <3>1, <3>2
    <2> QED BY <2>1, <1>4
<1>10. \A j \in 1 .. l : t[j] = Rest(m)[j]
    <2>1. \A j \in 1 .. l : j \in 1 .. l + 1 /\ t[j] = skb[Slot(dirty, m + j - 1)]
        BY <1>1, <1>4, <1>8
    <2> QED BY <2>1, <1>3 DEF Rest
<1>11. t[l + 1] = xmit[n]
    BY <1>1, <1>4, <1>7
<1> HIDE DEF t
<1>12. Rest(m) \in [1 .. l -> Skbs \union {NoSkb}]
    BY <1>2, <1>3, RestFacts
<1>13. t = Append(Rest(m), t[l + 1])
    BY <1>9, <1>10, <1>12, LongerByOne
<1> QED BY <1>1, <1>6, <1>11, <1>13 DEF Fifo!Accept

\* The engine sends the oldest packet.
LEMMA FifoSent ==
    ASSUME TypeInv, TypeInv', EngineInv, UnsentAt, UnsentAt', HwSendSkb
    PROVE  Fifo!Transmit
<1>1. /\ hw.mode = "skb" /\ free' = free /\ dirty' = dirty /\ skb' = skb /\ resets' = resets
      /\ wire' = skb[hw.pos]
    BY DEF HwSendSkb
<1>2. PICK p \in Slots, a \in 0 .. MAX_TX_DCBS - free :
          p = hw.pos /\ a = Ahead(p) /\ Pending(p) /\ Prefix(a)
    BY <1>1, EnginePos
<1>3. MAX_TX_DCBS \in Nat /\ free \in 1 .. MAX_TX_DCBS /\ a \in Nat
    BY <1>2, TxAssumption DEF TypeInv, TypeOK
<1>4. PICK l \in Nat : MAX_TX_DCBS - free - a = l + 1
    <2>1. MAX_TX_DCBS - free - a - 1 \in Nat
        BY <1>2, <1>3 DEF Pending
    <2> QED BY <2>1, <1>3
<1>5. Prefix(a + 1)' /\ a + 1 \in 0 .. MAX_TX_DCBS - free /\ MAX_TX_DCBS - free - (a + 1) = l
    BY <1>2, <1>3, <1>4, PrefixSent
<1> DEFINE t == Rest(a + 1)
<1>6. Unsent = Rest(a) /\ Unsent' = t
    <2>1. Unsent' = [j \in 1 .. (MAX_TX_DCBS - free' - (a + 1)) |->
                       skb'[Slot(dirty', a + 1 + j - 1)]]
        BY <1>1, <1>5 DEF UnsentAt, Rest, Slot
    <2> QED BY <2>1, <1>1, <1>2 DEF UnsentAt, Rest
<1>7. Rest(a) \in [1 .. l + 1 -> Skbs \union {NoSkb}] /\ t \in [1 .. l -> Skbs \union {NoSkb}]
    BY <1>2, <1>4, <1>5, RestFacts
<1>8. \A j \in 1 .. l : t[j] = Rest(a)[j + 1]
    <2> SUFFICES ASSUME NEW j \in 1 .. l PROVE t[j] = Rest(a)[j + 1]
        OBVIOUS
    <2>1. a + 1 + j - 1 = a + (j + 1) - 1 /\ j + 1 \in 1 .. l + 1
        BY <1>3
    <2> QED BY <2>1, <1>4, <1>5 DEF Rest
<1>9. Rest(a)[1] = skb[p]
    <2>1. Slot(dirty, a + 1 - 1) = p
        BY <1>2, <1>3, AheadFacts
    <2> QED BY <2>1, <1>4 DEF Rest
<1> HIDE DEF t
<1>10. Rest(a) # <<>> /\ Rest(a)[1] = Head(Rest(a)) /\ t = Tail(Rest(a))
    BY <1>7, <1>8, ShorterByOne
<1> QED BY <1>1, <1>2, <1>6, <1>9, <1>10 DEF Fifo!Transmit

\* Reclaiming packets that were sent takes nothing from the queue.
LEMMA FifoCompleted ==
    ASSUME TypeInv, TypeInv', LineInv, EngineInv, UnsentAt, UnsentAt',
           NEW c \in Contexts, NEW k \in 0 .. MAX_TX_DCBS, DmaTxCompleting(c, k)
    PROVE  Unsent' = Unsent
<1>1. /\ free' = free + k /\ dirty' = Slot(dirty, k) /\ k <= MAX_TX_DCBS - free
      /\ skb' = [i \in Slots |-> IF Ahead(i) < k THEN NoSkb ELSE skb[i]]
    BY TxAssumption DEF DmaTxCompleting, TypeInv, TypeOK
<1>2. MAX_TX_DCBS \in Nat /\ free \in 1 .. MAX_TX_DCBS /\ dirty \in Slots
      /\ k \in 0 .. MAX_TX_DCBS - free
    BY <1>1, TxAssumption DEF TypeInv, TypeOK
<1>3. Prefix(k) /\ Prefix(0)'
    BY EngineCompleted
<1>4. PICK l \in Nat : l = MAX_TX_DCBS - free - k
    BY <1>2
<1>5. Unsent = [j \in 1 .. l |-> skb[Slot(dirty, k + j - 1)]]
    BY <1>2, <1>3, <1>4 DEF UnsentAt, Rest
<1>6. Unsent' = [j \in 1 .. l |-> skb'[Slot(dirty', j - 1)]]
    <2>1. 0 \in 0 .. MAX_TX_DCBS - free' /\ MAX_TX_DCBS - free' - 0 = l
        BY <1>1, <1>2, <1>4
    <2>2. Unsent' = [j \in 1 .. (MAX_TX_DCBS - free' - 0) |-> skb'[Slot(dirty', 0 + j - 1)]]
        BY <1>3, <2>1 DEF UnsentAt, Rest, Slot
    <2>3. \A j \in 1 .. l : 0 + j - 1 = j - 1
        BY <1>4
    <2> QED BY <2>1, <2>2, <2>3
<1>7. \A j \in 1 .. l : skb'[Slot(dirty', j - 1)] = skb[Slot(dirty, k + j - 1)]
    <2> SUFFICES ASSUME NEW j \in 1 .. l
                 PROVE  skb'[Slot(dirty', j - 1)] = skb[Slot(dirty, k + j - 1)]
        OBVIOUS
    <2>1. Slot(dirty', j - 1) = Slot(dirty, k + (j - 1)) /\ k + (j - 1) = k + j - 1
        BY <1>1, <1>2, <1>4, SlotAdd
    <2>2. Slot(dirty, k + j - 1) \in Slots /\ Ahead(Slot(dirty, k + j - 1)) = k + j - 1
        BY <1>2, <1>4, RestFacts
    <2>3. ~(k + j - 1 < k)
        BY <1>2, <1>4
    <2> QED BY <1>1, <2>1, <2>2, <2>3
<1> QED BY <1>5, <1>6, <1>7

\* A reset empties the queue.
LEMMA FifoReset ==
    ASSUME TypeInv', UnsentAt', AbortAndClean
    PROVE  Unsent' = <<>>
<1>1. free' = MAX_TX_DCBS /\ 0 \in 0 .. MAX_TX_DCBS - free' /\ MAX_TX_DCBS - free' - 0 = 0
    BY TxAssumption DEF AbortAndClean
<1>2. \A i \in Slots : ~Pending(i)'
    BY <1>1, PendingNone DEF TypeInv, TypeOK
<1>3. Prefix(0)'
    BY <1>2 DEF Prefix
<1>4. Unsent' = [j \in 1 .. 0 |-> skb'[Slot(dirty', 0 + j - 1)]]
    BY <1>1, <1>3 DEF UnsentAt, Rest, Slot
<1> QED BY <1>4

\* Steps that leave the pending slots alone.
LEMMA FifoSame ==
    ASSUME TypeInv, EngineInv, UnsentAt, UnsentAt', free' = free, dirty' = dirty,
           \A i \in Slots : Pending(i) => done'[i] = done[i] /\ skb'[i] = skb[i]
    PROVE  Unsent' = Unsent
<1>1. \A i \in Slots : (Pending(i)' <=> Pending(i)) /\ Ahead(i)' = Ahead(i)
    BY PendingSame DEF Ahead
<1>2. PICK m \in 0 .. MAX_TX_DCBS - free : Prefix(m)
    BY DEF EngineInv, SomeDone
<1>3. Prefix(m)'
    BY <1>1, <1>2 DEF Prefix
<1>4. Unsent = [j \in 1 .. (MAX_TX_DCBS - free - m) |-> skb[Slot(dirty, m + j - 1)]]
    BY <1>2 DEF UnsentAt, Rest
<1>5. Unsent' = [j \in 1 .. (MAX_TX_DCBS - free - m) |-> skb'[Slot(dirty, m + j - 1)]]
    BY <1>2, <1>3 DEF UnsentAt, Rest, Slot
<1>6. \A j \in 1 .. (MAX_TX_DCBS - free - m) :
          skb'[Slot(dirty, m + j - 1)] = skb[Slot(dirty, m + j - 1)]
    BY <1>2, RestFacts
<1> QED BY <1>4, <1>5, <1>6

LEMMA NextFifo ==
    ASSUME TypeInv, TypeInv', LineInv, EngineInv, UnsentAt, UnsentAt', [Next]_vars
    PROVE  [Fifo!Next]_<<Unsent, wire, resets>>
<1>a. ASSUME NEW n \in Netifs, TxQueue(n) PROVE Fifo!Next
    <2>1. xmit[n] \in Skbs
        BY <1>a DEF TxQueue, TypeInv, TypeOK
    <2> QED BY <1>a, <2>1, FifoQueued DEF Fifo!Next
<1>b. CASE HwSendSkb
    BY <1>b, FifoSent DEF Fifo!Next
<1>c. ASSUME NEW c \in Contexts, NEW k \in 0 .. MAX_TX_DCBS, DmaTxCompleting(c, k)
      PROVE  UNCHANGED <<Unsent, wire, resets>>
    <2>1. wire' = wire /\ resets' = resets
        BY <1>c DEF DmaTxCompleting
    <2> QED BY <1>c, <2>1, FifoCompleted
<1>d. CASE HwReset \/ HwInit
    <2>1. AbortAndClean /\ resets' = resets + 1 /\ wire' = wire
        BY <1>d DEF HwReset, HwInit
    <2> QED BY <2>1, FifoReset DEF Fifo!Next, Fifo!Flush
<1>e. ASSUME NEW n \in Netifs, TxMapError(n) PROVE UNCHANGED <<Unsent, wire, resets>>
    <2>1. /\ free > 1 /\ UNCHANGED <<free, dirty, wire, resets>>
          /\ done' = [done EXCEPT ![cur] = FALSE] /\ skb' = [skb EXCEPT ![cur] = xmit[n]]
        BY <1>e DEF TxMapError, Room, engine
    <2>2. \A i \in Slots : Pending(i) => done'[i] = done[i] /\ skb'[i] = skb[i]
        BY <2>1, CurFacts DEF TypeInv, TypeOK
    <2> QED BY <2>1, <2>2, FifoSame
<1>f. ASSUME UNCHANGED <<free, dirty, done, skb, wire, resets>>
      PROVE  UNCHANGED <<Unsent, wire, resets>>
    BY <1>f, FifoSame
<1> QED
    BY <1>a, <1>b, <1>c, <1>d, <1>e, <1>f
       DEF Next, BknTx, DmaTx, XmitBegin, TxReject, TxNoResource, Open, Stop, DmaSnapshot,
           BaseOpen, BaseStop, DmaInfoTx, HwSendApi, vars, ring, engine

LEMMA InitFifo ==
    ASSUME TypeInv, UnsentAt, Init
    PROVE  Fifo!Init
<1>1. free = MAX_TX_DCBS /\ dirty = 0 /\ wire = NoSkb /\ resets = 0
    BY DEF Init
<1>2. Prefix(0) /\ 0 \in 0 .. MAX_TX_DCBS - free /\ MAX_TX_DCBS - free - 0 = 0
    BY <1>1, TxAssumption DEF Prefix, Pending, Ahead, Slots
<1>3. Unsent = [j \in 1 .. 0 |-> skb[Slot(dirty, 0 + j - 1)]]
    BY <1>2 DEF UnsentAt, Rest
<1> QED BY <1>1, <1>3 DEF Fifo!Init

\* Under the same conditions the ring implements the FIFO of TxFifo: accepted packets leave
\* in their order, each once, and none is lost but by a reset.
THEOREM FifoCorrect == ASSUME Default PROVE Spec => ImplementsFifo
<1>1. Init => LineInv /\ EngineInv
    BY InitLine, InitEngine
<1>2. TypeInv /\ TypeInv' /\ LineInv /\ EngineInv /\ [Next]_vars => LineInv' /\ EngineInv'
    BY NextLine, NextEngine
<1>3. TypeInv /\ UnsentAt /\ Init => Fifo!Init
    BY InitFifo
<1>4. TypeInv /\ TypeInv' /\ LineInv /\ EngineInv /\ UnsentAt /\ UnsentAt' /\ [Next]_vars
          => [Fifo!Next]_<<Unsent, wire, resets>>
    BY NextFifo
<1> QED BY InitTypeInv, NextTypeInv, UnsentRest, <1>1, <1>2, <1>3, <1>4, PTL
           DEF Spec, ImplementsFifo, Fifo!Spec
=============================================================================
