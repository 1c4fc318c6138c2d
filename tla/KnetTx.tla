------------------------------- MODULE KnetTx -------------------------------
(***************************************************************************)
(* The Tx side of one KNET device (bcm-knet.c), for a channel that does    *)
(* not run Continuous DMA.  One descriptor ring carries the SKBs of all    *)
(* network interfaces; the same DMA channel also carries the descriptor    *)
(* chains of the BCM Tx API.  The ring is shared by bkn_tx (network        *)
(* stack), the DMA_INFO, HW_RESET and HW_INIT commands (ioctl or command   *)
(* thread), the completion handling of the interrupt or NAPI poll, and     *)
(* bkn_open/bkn_stop of the base device, all serialised by sinfo->lock.    *)
(*                                                                         *)
(* The lock is not held throughout dev_do_dma: after dma_stat is read, and *)
(* before its Tx bit is acted on, each received packet is handed to the    *)
(* stack with the lock released.  DmaSnapshot and DmaTx are those two      *)
(* halves.                                                                 *)
(***************************************************************************)
EXTENDS Integers, Sequences, FiniteSets

CONSTANTS
    MAX_TX_DCBS,      \* descriptors in the ring
    Netifs,           \* virtual network interfaces of the device
    Skbs, NoSkb,      \* socket buffers; the NULL pointer
    BaseDevSuspend,   \* module parameter basedev_suspend (forced by use_napi)
    RxTraffic,        \* Rx packets open the unlocked window in dev_do_dma
    QuietResets,      \* HW_RESET and HW_INIT come only outside that window
    AbortClears,      \* aborting an idle channel clears its status (xgs, not xgsm and xgsx)
    MaxApiChains,     \* bound: DMA_INFO commands in a behaviour
    MaxResets         \* bound: HW_RESET and HW_INIT commands after the first

ASSUME TxAssumption ==
    /\ MAX_TX_DCBS \in Nat /\ MAX_TX_DCBS >= 2
    /\ NoSkb \notin Skbs
    /\ BaseDevSuspend \in BOOLEAN
    /\ RxTraffic \in BOOLEAN
    /\ QuietResets \in BOOLEAN
    /\ AbortClears \in BOOLEAN
    /\ MaxApiChains \in Nat
    /\ MaxResets \in Nat

VARIABLES
    free, cur, dirty,   \* sinfo->tx.free, .cur, .dirty
    skb,                \* tx.desc[i].skb
    done, chained,      \* bits 31 (done) and 16 (chain) of descriptor i
    api_active,         \* sinfo->tx.api_active
    api_queued,         \* length of sinfo->tx.api_dcb_list
    irq,                \* Tx bit of sinfo->irq_mask
    suspended,          \* sinfo->basedev_suspended
    stopped,            \* interfaces whose Tx queue is stopped
    up, base_up,        \* open interfaces; base device open
    xmit,               \* the SKB of a bkn_tx call in progress
    live,               \* SKBs the driver owns: allocated and not freed
    hw,                 \* DMA channel: what it runs, and the descriptor index
    stat,               \* chain-done bit of the DMA status register
    seen,               \* dma_stat as read by a dev_do_dma in progress
    submitted, sent, reported,  \* API chains: given, on the wire, TX_DONE posted
    resets,             \* HW_RESET and HW_INIT commands so far
    overrun,            \* history: the channel was started while it was running
    wire                \* history: the last packet the engine sent from the ring

ring == <<free, cur, dirty, skb, done, chained>>
netdev == <<stopped, up, base_up, suspended, xmit>>
engine == <<hw, stat, overrun, wire>>
chains == <<submitted, sent, reported>>
vars == <<ring, api_active, api_queued, irq, netdev, live, engine, seen, chains, resets>>

-----------------------------------------------------------------------------
(* The ring.                                                               *)

Slots == 0 .. MAX_TX_DCBS - 1

\* The slot k places after i (indices wrap by comparison, never by division).
Slot(i, k) == IF i + k >= MAX_TX_DCBS THEN i + k - MAX_TX_DCBS ELSE i + k

\* How many places slot i is after tx.dirty.
Ahead(i) == IF i >= dirty THEN i - dirty ELSE i - dirty + MAX_TX_DCBS

\* Slots handed to the hardware and not yet reclaimed.
Pending(i) == Ahead(i) < MAX_TX_DCBS - free

\* Mutant: all pending slots are taken to be done.
AllCompleted(k) == k = MAX_TX_DCBS - free

\* The first k slots from tx.dirty are done, and the next one is not.
CompletedRun(k) ==
    /\ \A i \in Slots : Ahead(i) < k => done[i]
    /\ \A i \in Slots : Pending(i) /\ Ahead(i) = k => ~done[i]

Idle == [mode |-> "idle", pos |-> 0]
SkbAt(i) == [mode |-> "skb", pos |-> i]
Api == [mode |-> "api", pos |-> 0]

\* dev_dma_chan_clear, dev_irq_mask_enable, dev_dma_chan_start.
StartChannel(at) ==
    /\ hw' = at
    /\ stat' = FALSE
    /\ irq' = TRUE
    /\ overrun' = (overrun \/ hw # Idle)

\* Mutants: the test follows the decrement of tx.free; api_active is not looked at.
MayStartLate == free = MAX_TX_DCBS - 1 /\ ~api_active
MayStartOverApi == free = MAX_TX_DCBS

\* bkn_tx_dma_start starts the channel for the packet at tx.cur.
MayStart == free = MAX_TX_DCBS /\ ~api_active

Contexts == {"poll", "open"}   \* callers of dev_do_dma: interrupt or poll; bkn_open

InWindow == \E c \in Contexts : seen[c] # "idle"
LockFree == RxTraffic \/ ~InWindow

-----------------------------------------------------------------------------
(* Initial state: the device after its first HW_INIT, no interface open.   *)

Init ==
    /\ free = MAX_TX_DCBS /\ cur = 0 /\ dirty = 0
    /\ skb = [i \in Slots |-> NoSkb]
    /\ done = [i \in Slots |-> FALSE] /\ chained = [i \in Slots |-> FALSE]
    /\ api_active = FALSE /\ api_queued = 0 /\ irq = FALSE
    /\ suspended = BaseDevSuspend /\ base_up = FALSE
    /\ stopped = {} /\ up = {} /\ xmit = [n \in Netifs |-> NoSkb]
    /\ live = {}
    /\ hw = Idle /\ stat = FALSE /\ overrun = FALSE /\ wire = NoSkb
    /\ seen = [c \in Contexts |-> "idle"]
    /\ submitted = 0 /\ sent = 0 /\ reported = 0 /\ resets = 0

-----------------------------------------------------------------------------
(* The network stack.  The stack tests the queue state before it calls     *)
(* bkn_tx and outside the driver's lock, so a call may arrive after the    *)
(* queue was stopped.  It waits for such calls before it closes a device.  *)

XmitBegin(n) ==
    /\ n \in up /\ n \notin stopped /\ xmit[n] = NoSkb
    /\ \E s \in Skbs \ live :
          xmit' = [xmit EXCEPT ![n] = s] /\ live' = live \union {s}
    /\ UNCHANGED <<ring, api_active, api_queued, irq, stopped, up, base_up, suspended,
                   engine, seen, chains, resets>>

\* Mutant: the last descriptor is used too.
RoomForLast == free > 0

\* bkn_tx keeps one descriptor free.
Room == free > 1

\* Mutant: the failing call forgets to free the packet.
DropXmitLeaking(n) ==
    /\ live' = live
    /\ xmit' = [xmit EXCEPT ![n] = NoSkb]

\* Frees the packet of the call in progress.
DropXmit(n) ==
    /\ live' = live \ {xmit[n]}
    /\ xmit' = [xmit EXCEPT ![n] = NoSkb]

\* bkn_suspend_tx when at most one descriptor is left.
CheckTxResources(f) == stopped' = IF f <= 1 THEN Netifs ELSE stopped

\* bkn_tx puts the packet on the ring.  The channel is started at once if nothing
\* else is on it (bkn_tx_dma_start); otherwise the completion handler will.
TxQueue(n) ==
    /\ LockFree /\ xmit[n] # NoSkb /\ Room
    /\ skb' = [skb EXCEPT ![cur] = xmit[n]]
    /\ done' = [done EXCEPT ![cur] = FALSE]
    /\ chained' = [chained EXCEPT ![cur] = FALSE]
    /\ IF MayStart THEN StartChannel(SkbAt(cur)) ELSE UNCHANGED <<hw, stat, overrun, irq>>
    /\ cur' = Slot(cur, 1)
    /\ free' = free - 1
    /\ xmit' = [xmit EXCEPT ![n] = NoSkb]
    /\ CheckTxResources(free - 1)
    /\ UNCHANGED <<dirty, api_active, api_queued, up, base_up, suspended, live, wire,
                   seen, chains, resets>>

\* DMA mapping of the packet fails: it is freed, but the descriptor still points to it.
TxMapError(n) ==
    /\ LockFree /\ xmit[n] # NoSkb /\ Room
    /\ skb' = [skb EXCEPT ![cur] = xmit[n]]
    /\ done' = [done EXCEPT ![cur] = FALSE]
    /\ chained' = [chained EXCEPT ![cur] = FALSE]
    /\ DropXmit(n)
    /\ UNCHANGED <<free, cur, dirty, api_active, api_queued, irq, stopped, up, base_up,
                   suspended, engine, seen, chains, resets>>

\* The packet fails a check (link down, which is tested without the lock; encapsulation,
\* length, memory, call-back): freed, call ends.
TxReject(n) ==
    /\ xmit[n] # NoSkb
    /\ DropXmit(n)
    /\ UNCHANGED <<ring, api_active, api_queued, irq, stopped, up, base_up, suspended,
                   engine, seen, chains, resets>>

\* No descriptor: the packet is freed, and all queues are stopped (again).
TxNoResource(n) ==
    /\ LockFree /\ xmit[n] # NoSkb /\ ~Room
    /\ DropXmit(n)
    /\ CheckTxResources(free)
    /\ UNCHANGED <<ring, api_active, api_queued, irq, up, base_up, suspended,
                   engine, seen, chains, resets>>

-----------------------------------------------------------------------------
(* The DMA engine (hardware).                                              *)

\* Sends the packet of one descriptor; goes on to the next one in memory if the
\* chain bit says so, else stops and raises chain-done.
HwSendSkb ==
    /\ hw.mode = "skb"
    /\ done' = [done EXCEPT ![hw.pos] = TRUE]
    /\ wire' = skb[hw.pos]
    /\ IF chained[hw.pos]
       THEN hw' = SkbAt(hw.pos + 1) /\ UNCHANGED stat
       ELSE hw' = Idle /\ stat' = TRUE
    /\ UNCHANGED <<free, cur, dirty, skb, chained, api_active, api_queued, irq, netdev,
                   live, overrun, seen, chains, resets>>

\* Sends the packets of an API chain.
HwSendApi ==
    /\ hw = Api
    /\ hw' = Idle /\ stat' = TRUE /\ sent' = sent + 1
    /\ UNCHANGED <<ring, api_active, api_queued, irq, netdev, live, overrun, wire, seen,
                   submitted, reported, resets>>

-----------------------------------------------------------------------------
(* dev_do_dma.                                                             *)

\* The interrupt or poll handler takes the lock and reads dma_stat.  A poll run for
\* the sake of an Rx channel acts on the Tx bit too, whatever the interrupt mask is.
DmaSnapshot ==
    /\ LockFree /\ seen["poll"] = "idle"
    /\ stat /\ (irq \/ RxTraffic)
    /\ seen' = [seen EXCEPT !["poll"] = "done"]
    /\ UNCHANGED <<ring, api_active, api_queued, irq, netdev, live, engine, chains, resets>>

\* The pending slots that bkn_tx_chain_done links into one chain: all but the last,
\* and never past the end of the ring.
Linked(i, from, pending) == i >= from /\ i < MAX_TX_DCBS - 1 /\ i - from < pending - 1

\* The Tx half of dev_do_dma, when k descriptors have completed: bkn_do_tx reclaims
\* them, and bkn_tx_chain_done picks what the channel runs next: a queued API chain if
\* the API had the channel or the ring is empty, else the packets left on the ring.
\* Clearing the chain-done bit disables the channel.
\* bkn_open then tries bkn_api_tx once more.
DmaTxCompleting(c, k) ==
    LET on == seen[c] = "done"
        opening == c = "open"
        freed == {i \in Slots : Ahead(i) < k}
        left == MAX_TX_DCBS - free - k
        first == Slot(dirty, k)
        toApi == on /\ api_queued > 0 /\ (api_active \/ left = 0)
        toSkb == on /\ ~toApi /\ left > 0
        queued == IF toApi THEN api_queued - 1 ELSE api_queued
        again == opening /\ queued > 0
    IN
    /\ seen[c] # "idle"
    /\ IF on /\ ~api_active THEN k <= MAX_TX_DCBS - free /\ CompletedRun(k) ELSE k = 0
    /\ skb' = [i \in Slots |-> IF i \in freed THEN NoSkb ELSE skb[i]]
    /\ live' = live \ {skb[i] : i \in freed}
    /\ done' = [i \in Slots |-> IF i \in freed THEN FALSE ELSE done[i]]
    /\ dirty' = first
    /\ free' = free + k
    /\ chained' = [i \in Slots |-> chained[i] \/ (toSkb /\ Linked(i, first, left))]
    /\ reported' = reported + (IF on /\ api_active THEN 1 ELSE 0)
    /\ api_queued' = IF again THEN queued - 1 ELSE queued
    /\ api_active' = IF opening THEN again ELSE IF on THEN toApi ELSE api_active
    /\ irq' = IF toApi \/ toSkb \/ again THEN TRUE ELSE IF on THEN FALSE ELSE irq
    /\ hw' = IF toApi \/ again THEN Api ELSE IF toSkb THEN SkbAt(first)
             ELSE IF on THEN Idle ELSE hw
    /\ stat' = (stat /\ ~on /\ ~again)
    /\ overrun' = (\/ overrun
                   \/ hw # Idle /\ (toApi \/ toSkb \/ again)
                   \/ again /\ (toApi \/ toSkb))
    /\ stopped' = IF ((on /\ ~toApi) \/ (opening /\ ~again)) /\ free + k > 1
                  THEN {} ELSE stopped
    /\ suspended' = (suspended /\ ~opening)
    /\ seen' = [seen EXCEPT ![c] = "idle"]
    /\ cur' = cur
    /\ UNCHANGED <<up, base_up, xmit, wire, submitted, sent, resets>>

DmaTx(c) == \E k \in 0 .. MAX_TX_DCBS : DmaTxCompleting(c, k)

-----------------------------------------------------------------------------
(* bkn_open and bkn_stop.  The stack's rtnl lock admits one at a time.     *)

RtnlFree == seen["open"] = "idle"

Open(n) ==
    /\ RtnlFree /\ n \notin up
    /\ up' = up \union {n}
    /\ stopped' = IF suspended THEN stopped ELSE stopped \ {n}
    /\ UNCHANGED <<ring, api_active, api_queued, irq, base_up, suspended, xmit, live,
                   engine, seen, chains, resets>>

Stop(n) ==
    /\ RtnlFree /\ n \in up /\ xmit[n] = NoSkb
    /\ up' = up \ {n}
    /\ stopped' = stopped \union {n}
    /\ UNCHANGED <<ring, api_active, api_queued, irq, base_up, suspended, xmit, live,
                   engine, seen, chains, resets>>

\* Opening the base device ends a suspension: dev_do_dma first (DmaTx("open") ends it).
BaseOpen ==
    /\ RtnlFree /\ LockFree /\ ~base_up
    /\ base_up' = TRUE
    /\ IF suspended
       THEN seen' = [seen EXCEPT !["open"] = IF stat THEN "done" ELSE "none"]
       ELSE UNCHANGED seen
    /\ UNCHANGED <<ring, api_active, api_queued, irq, stopped, up, suspended, xmit, live,
                   engine, chains, resets>>

BaseStop ==
    /\ RtnlFree /\ LockFree /\ base_up
    /\ base_up' = FALSE
    /\ suspended' = (suspended \/ BaseDevSuspend)
    /\ stopped' = IF BaseDevSuspend THEN Netifs ELSE stopped
    /\ UNCHANGED <<ring, api_active, api_queued, irq, up, xmit, live, engine, seen,
                   chains, resets>>

-----------------------------------------------------------------------------
(* Commands.                                                               *)

\* DMA_INFO with a Tx chain: hold back the stack, queue the chain, start it if the
\* channel carries nothing.
DmaInfoTx ==
    /\ LockFree /\ submitted < MaxApiChains
    /\ submitted' = submitted + 1
    /\ stopped' = Netifs
    /\ IF free = MAX_TX_DCBS /\ ~api_active /\ ~suspended
       THEN api_active' = TRUE /\ StartChannel(Api) /\ UNCHANGED api_queued
       ELSE api_queued' = api_queued + 1 /\ UNCHANGED <<api_active, hw, stat, overrun, irq>>
    /\ UNCHANGED <<ring, wire, up, base_up, suspended, xmit, live, seen, sent, reported, resets>>

\* bkn_dma_abort_tx, then bkn_clean_tx_dcbs: the channel is stopped, API chains are
\* forgotten, pending packets freed.
AbortAndClean ==
    /\ irq' = FALSE /\ hw' = Idle
    /\ stat' = (stat /\ hw = Idle /\ ~AbortClears)
    /\ api_queued' = 0 /\ api_active' = FALSE
    /\ skb' = [i \in Slots |-> IF Pending(i) THEN NoSkb ELSE skb[i]]
    /\ live' = live \ {skb[i] : i \in {j \in Slots : Pending(j)}}
    /\ free' = MAX_TX_DCBS

ResetAllowed ==
    /\ LockFree /\ resets < MaxResets
    /\ QuietResets => ~InWindow

HwReset ==
    /\ ResetAllowed
    /\ AbortAndClean
    /\ dirty' = cur
    /\ resets' = resets + 1
    /\ UNCHANGED <<cur, done, chained, netdev, overrun, wire, seen, chains>>

HwInit ==
    /\ ResetAllowed
    /\ AbortAndClean
    /\ cur' = 0 /\ dirty' = 0
    /\ done' = [i \in Slots |-> FALSE] /\ chained' = [i \in Slots |-> FALSE]
    /\ suspended' = (suspended \/ (BaseDevSuspend /\ ~base_up))
    /\ resets' = resets + 1
    /\ UNCHANGED <<stopped, up, base_up, xmit, overrun, wire, seen, chains>>

-----------------------------------------------------------------------------
BknTx(n) == TxQueue(n) \/ TxMapError(n) \/ TxReject(n) \/ TxNoResource(n)

Next ==
    \/ \E n \in Netifs : XmitBegin(n) \/ BknTx(n) \/ Open(n) \/ Stop(n)
    \/ HwSendSkb \/ HwSendApi
    \/ DmaSnapshot
    \/ \E c \in Contexts : DmaTx(c)
    \/ BaseOpen \/ BaseStop \/ DmaInfoTx \/ HwReset \/ HwInit

Spec == Init /\ [][Next]_vars

\* The engine runs what it was given, an enabled interrupt is served and its handler
\* ends, a bkn_tx call ends.  Nobody has to send, to open or to close anything.
Fairness ==
    /\ WF_vars(HwSendSkb) /\ WF_vars(HwSendApi)
    /\ WF_vars(DmaSnapshot)
    /\ \A c \in Contexts : WF_vars(DmaTx(c))
    /\ \A n \in Netifs : WF_vars(BknTx(n))

FairSpec == Spec /\ Fairness

-----------------------------------------------------------------------------
(* Properties.                                                             *)

Modes == {Idle, Api} \union {SkbAt(i) : i \in Slots}

\* Types of the variables; in particular the DMA engine and the indices of bkn_tx stay
\* on the ring, and at least one descriptor stays free.
TypeOK ==
    /\ free \in 1 .. MAX_TX_DCBS /\ cur \in Slots /\ dirty \in Slots
    /\ skb \in [Slots -> Skbs \union {NoSkb}]
    /\ done \in [Slots -> BOOLEAN] /\ chained \in [Slots -> BOOLEAN]
    /\ api_active \in BOOLEAN /\ api_queued \in Nat /\ irq \in BOOLEAN
    /\ suspended \in BOOLEAN /\ base_up \in BOOLEAN
    /\ stopped \in SUBSET Netifs /\ up \in SUBSET Netifs
    /\ xmit \in [Netifs -> Skbs \union {NoSkb}]
    /\ live \in SUBSET Skbs /\ wire \in Skbs \union {NoSkb}
    /\ hw \in Modes /\ stat \in BOOLEAN /\ overrun \in BOOLEAN
    /\ seen \in [Contexts -> {"idle", "none", "done"}]
    /\ submitted \in Nat /\ sent \in Nat /\ reported \in Nat /\ resets \in Nat

\* tx.free counts exactly the slots outside [dirty, cur): the three indices that bkn_tx,
\* bkn_do_tx and the clean-up move separately never drift apart, and one slot always
\* stays free, so that an empty and a full ring cannot be confused.
RingAccounting ==
    /\ free >= 1
    /\ cur = Slot(dirty, MAX_TX_DCBS - free)

\* The driver owns the SKBs on the ring and those of calls in progress and no other, each
\* of them once: every accepted SKB is freed exactly once, whatever order completion,
\* reset and failing bkn_tx calls come in (the pointer a failed mapping leaves behind is
\* never followed).
SkbOwnership ==
    LET onRing == {i \in Slots : Pending(i)}
        calls == {n \in Netifs : xmit[n] # NoSkb}
    IN /\ live = {skb[i] : i \in onRing} \union {xmit[n] : n \in calls}
       /\ \A i, j \in onRing : i # j => skb[i] # skb[j]
       /\ \A m, n \in calls : m # n => xmit[m] # xmit[n]
       /\ \A i \in onRing, n \in calls : skb[i] # xmit[n]

\* The engine only ever stands on a pending descriptor that it has not processed, with
\* all earlier ones processed and all later ones not, and chain bits never lead it past
\* the descriptors the driver filled.
EngineOnRing ==
    hw.mode = "skb" =>
       /\ Pending(hw.pos)
       /\ \A i \in Slots : Pending(i) => (done[i] <=> Ahead(i) < Ahead(hw.pos))
       /\ chained[hw.pos] => Pending(hw.pos + 1)

\* bkn_tx, the DMA_INFO command and the completion handler never start the channel
\* while it is running ("If netif Tx is idle then allow BCM API to send").
NoOverrun == ~overrun

\* A packet on the ring, or a running API chain, always has somebody who will take it
\* further: the engine, or a completion that is not handled yet.
NoStrandedWork ==
    (free < MAX_TX_DCBS \/ api_active) => (hw # Idle \/ stat)

\* As long as the engine runs or has finished unnoticed, its interrupt is enabled.
CompletionHeard == (hw # Idle \/ stat) => irq

\* TX_DONE is posted to the BCM API only for a chain whose packets are on the wire.
NoFalseCompletion == reported <= sent

\* Each packet the ring accepted ends: it is sent, or freed by a reset.
PacketsLeave == \A s \in Skbs : (s \in live) ~> (s \notin live)

\* Interfaces whose queue was stopped for lack of descriptors, or to let the API send,
\* may send again at some time, unless HW_RESET or HW_INIT intervenes.
QueuesResume ==
    \A n \in Netifs : (n \in stopped /\ n \in up) ~> (n \notin stopped \/ n \notin up \/ resets > 0)

\* The ring implements the FIFO that TxFifo promises.
Unsent ==
    LET sentNow == Cardinality({i \in Slots : Pending(i) /\ done[i]})
    IN [j \in 1 .. (MAX_TX_DCBS - free - sentNow) |-> skb[Slot(dirty, sentNow + j - 1)]]

Fifo == INSTANCE TxFifo WITH queue <- Unsent, flushes <- resets
ImplementsFifo == Fifo!Spec
=============================================================================
