------------------------------- MODULE KnetRx -------------------------------
(***************************************************************************)
(* One Rx channel of a KNET device (bcm-knet.c) in SKB mode, without       *)
(* Continuous DMA.  bkn_rx_refill posts socket buffers on a descriptor     *)
(* ring, the DMA engine fills them in order and stops at the end of the    *)
(* chain, and bkn_do_skb_rx empties them: each packet is dropped, copied   *)
(* to a buffer of the BCM Rx API, or given to the network stack, by the    *)
(* filter it matches.  A packet for the API with no API buffer suspends    *)
(* the channel until the DMA_INFO command brings buffers.                  *)
(*                                                                         *)
(* bkn_do_skb_rx is called by the interrupt or poll ("irq") and by the     *)
(* DMA_INFO command ("cmd").  It releases the driver's lock while a packet *)
(* is given to the network stack and uses the same descriptor afterwards.  *)
(***************************************************************************)
EXTENDS Integers

CONSTANTS
    MAX_RX_DCBS,     \* descriptors in the ring
    Bufs, NoBuf,     \* socket buffers; the NULL pointer
    Budget,          \* descriptors one dev_do_dma may take
    Sites,           \* which of the hazards below occur, chosen once for a behaviour
    QuietResets,     \* HW_RESET comes only when no packet waits in the ring
    AbortClears,     \* aborting an idle channel clears its status (xgs, not xgsm and xgsx)
    ApiChainLen,     \* descriptors of an API chain
    Overlap,         \* bkn_do_skb_rx may be entered, and the channel be reset, while a
                     \* packet is given to the stack
    MaxApiChains,    \* bound: API chains queued at a time
    MaxResets        \* bound: HW_RESET and HW_INIT commands after the first

ASSUME RxAssumption ==
    /\ MAX_RX_DCBS \in Nat /\ MAX_RX_DCBS >= 2
    /\ NoBuf \notin Bufs
    /\ Budget \in Nat \ {0} /\ ApiChainLen \in Nat \ {0}
    /\ Sites \subseteq {"late", "api", "both", "small"}
    /\ QuietResets \in BOOLEAN /\ AbortClears \in BOOLEAN /\ Overlap \in BOOLEAN
    /\ MaxApiChains \in Nat /\ MaxResets \in Nat

\* Sites: "late", descriptor memory is updated after the interrupt; "api", packets go to
\* the BCM Rx API; "both"; "small", to the API, whose buffers may be too small.

VARIABLES
    free, cur, dirty,   \* sinfo->rx[chan].free, .cur, .dirty
    skb,                \* rx.desc[i].skb
    done, chained,      \* bits 31 (done) and 16 (chain) of descriptor i
    running, chain_complete, api_wait,     \* of sinfo->rx[chan]
    api_left,           \* descriptors left in api_dcb_chain, 0 if there is none
    api_queued,         \* length of api_dcb_list
    timer,              \* sinfo->timer_queued
    hw,                 \* descriptor the engine fills next, or Halted
    rx_chans,           \* 1 once HW_INIT has told how many Rx channels there are
    site,               \* member of Sites, chosen at the start
    late,               \* the engine signalled descriptor hw, its memory is not updated yet
    desc_done, chain_done,   \* bits of the DMA status register
    ctx,                \* where each caller of bkn_do_skb_rx is
    stack,              \* buffers the network stack holds
    twice,              \* history: a buffer was given away that was not the driver's
    resets              \* HW_RESET and HW_INIT commands since the first HW_INIT

ring == <<free, cur, dirty, skb, done, chained>>
state == <<running, chain_complete, api_wait, timer, rx_chans>>
api == <<api_left, api_queued>>
engine == <<hw, late, desc_done, chain_done, site>>
history == <<twice, resets>>
vars == <<ring, state, api, engine, ctx, stack, history>>

-----------------------------------------------------------------------------
Slots == 0 .. MAX_RX_DCBS - 1
Slot(i, k) == IF i + k >= MAX_RX_DCBS THEN i + k - MAX_RX_DCBS ELSE i + k
Ahead(i) == IF i >= dirty THEN i - dirty ELSE i - dirty + MAX_RX_DCBS

\* Slots with a buffer posted to the hardware and not taken back.
Posted(i) == Ahead(i) < free

Halted == MAX_RX_DCBS     \* not a slot

Callers == {"irq", "cmd"}
Away == [at |-> "away", chain |-> FALSE, slot |-> 0, n |-> 0, retry |-> FALSE]

\* The lock is free if every caller is away, or out in the network stack.
Out(c) == ctx[c].at = "out"
LockFree == \A c \in Callers : ctx[c].at = "away" \/ Out(c)
Holds(c) == \A d \in Callers \ {c} : ctx[d].at = "away" \/ Out(d)

\* The lock is free, and nobody is in the middle of bkn_do_skb_rx unless Overlap is asked for.
RingFree == LockFree /\ (Overlap \/ \A c \in Callers : ~Out(c))

Init ==
    /\ free = 0 /\ cur = 0 /\ dirty = 0
    /\ skb = [i \in Slots |-> NoBuf]
    /\ done = [i \in Slots |-> FALSE] /\ chained = [i \in Slots |-> FALSE]
    /\ running = FALSE /\ chain_complete = FALSE /\ api_wait = FALSE
    /\ api_left = 0 /\ api_queued = 0 /\ timer = FALSE /\ rx_chans = 0
    /\ hw = Halted /\ late = FALSE /\ desc_done = FALSE /\ chain_done = FALSE
    /\ site \in Sites
    /\ ctx = [c \in Callers |-> Away]
    /\ stack = {} /\ twice = FALSE /\ resets = 0

-----------------------------------------------------------------------------
(* Hardware and network stack.                                             *)

\* The engine has filled a buffer: it goes on to the next descriptor if the chain bit
\* is set.
Finish ==
    /\ done' = [done EXCEPT ![hw] = TRUE]
    /\ hw' = IF chained[hw] THEN hw + 1 ELSE Halted

\* A packet arrives.  "In certain environments the DCB memory is updated after the
\* corresponding interrupt has been received": then HwUpdate follows.
HwPacket ==
    /\ hw # Halted /\ ~late
    /\ desc_done' = TRUE
    /\ chain_done' = (chain_done \/ ~chained[hw])
    /\ \/ Finish /\ UNCHANGED late
       \/ site \in {"late", "both"} /\ late' = TRUE /\ UNCHANGED <<done, hw>>
    /\ UNCHANGED <<site, free, cur, dirty, skb, chained, state, api, ctx, stack, history>>

HwUpdate ==
    /\ late
    /\ Finish
    /\ late' = FALSE
    /\ UNCHANGED <<free, cur, dirty, skb, chained, state, api, desc_done, chain_done, site, ctx,
                   stack, history>>

StackFrees ==
    /\ \E b \in stack : stack' = stack \ {b}
    /\ UNCHANGED <<ring, state, api, engine, ctx, history>>

-----------------------------------------------------------------------------
(* bkn_rx_refill and bkn_rx_restart.                                       *)

\* Refilling a slot sets the chain bit of the slot before it in memory.
ChainBits(from, k, bits) ==
    [i \in Slots |-> bits[i] \/ \E j \in 0 .. k - 1 : i + 1 = Slot(from, j)]

\* Starting at slot from, k slots of at most limit are posted; a slot that still has a
\* buffer keeps it.  Tokens, memory and the limit decide how many.  The buffer of the next
\* slot is freed if it cannot be mapped.
Refilled(kept, from, k, limit) ==
    LET new == {Slot(from, j) : j \in 0 .. k - 1}
        failed == IF k < limit THEN {Slot(from, k)} ELSE {}
        available == Bufs \ (stack \union {kept[i] : i \in Slots})
    IN {f \in [Slots -> Bufs \union {NoBuf}] :
          /\ \A i \in Slots :
                IF i \in new /\ kept[i] = NoBuf THEN f[i] \in available
                ELSE f[i] = kept[i] \/ (i \in failed /\ f[i] = NoBuf)
          /\ \A i, j \in new : i # j => f[i] # f[j]}

\* Mutant: the channel is started with what there is.
EnoughSome(posted) == posted > 0

\* The channel is started only with the whole ring posted.
Enough(posted) == posted = MAX_RX_DCBS

\* Mutant: the channel is started at the beginning of the ring.
StartAtZero(at) ==
    /\ hw' = 0 /\ late' = FALSE
    /\ desc_done' = FALSE /\ chain_done' = FALSE

\* Starts the channel at rx.dirty, after its status is cleared.
StartChannel(at) ==
    /\ hw' = at /\ late' = FALSE
    /\ desc_done' = FALSE /\ chain_done' = FALSE

Vacant == MAX_RX_DCBS - free

\* bkn_rx_refill; then bkn_rx_restart, if that starts the channel.
RefillAndRestart(started) ==
    \E k \in 0 .. Vacant :
        /\ started = Enough(free + k) /\ running' = started
        /\ skb' \in Refilled(skb, cur, k, Vacant)
        /\ chained' = ChainBits(cur, k, chained)
        /\ free' = free + k
        /\ cur' = Slot(cur, k)
        /\ started => StartChannel(dirty)

-----------------------------------------------------------------------------
(* bkn_do_skb_rx.                                                          *)

\* The caller is done with descriptor i: it may be refilled.
Advance(i) ==
    /\ done' = [done EXCEPT ![i] = FALSE]
    /\ dirty' = Slot(dirty, 1)
    /\ free' = free - 1

BudgetOf(c) == IF c = "irq" /\ ~ctx[c].retry THEN Budget ELSE MAX_RX_DCBS

\* A channel that does not run is left alone.
Enter == IF running THEN "rx" ELSE "chain"

\* The next descriptor is done, and the budget allows it.
More(c) == done[dirty] /\ ctx[c].n < BudgetOf(c)

Taking(c) == ctx[c].at = "rx" /\ Holds(c) /\ More(c)

MarkComplete == chain_complete' = (chain_complete \/ ~chained[dirty])

\* No filter, an unknown destination, no link: the buffer stays with its descriptor.
RxDrop(c) ==
    /\ Taking(c)
    /\ MarkComplete
    /\ Advance(dirty)
    /\ ctx' = [ctx EXCEPT ![c].n = @ + 1]
    /\ UNCHANGED <<cur, skb, chained, running, api_wait, timer, rx_chans, api, engine, stack, history>>

\* bkn_api_rx_copy_from_skb with a buffer: the last of a chain makes room for the next.
CopyToApi ==
    IF api_left > 1 THEN api_left' = api_left - 1 /\ UNCHANGED api_queued
    ELSE IF api_queued > 0 THEN api_left' = ApiChainLen /\ api_queued' = api_queued - 1
    ELSE api_left' = 0 /\ UNCHANGED api_queued

RxToApi(c) ==
    /\ Taking(c) /\ api_left > 0 /\ site # "late"
    /\ MarkComplete
    /\ CopyToApi
    /\ Advance(dirty)
    /\ ctx' = [ctx EXCEPT ![c].n = @ + 1]
    /\ UNCHANGED <<cur, skb, chained, running, api_wait, timer, rx_chans, engine, stack, history>>

\* No API buffer, or one that is too small: the channel is suspended, the packet stays.
RxApiWait(c) ==
    /\ Taking(c) /\ site # "late"
    /\ api_left = 0 \/ site = "small"
    /\ MarkComplete
    /\ api_wait' = TRUE
    /\ ctx' = [ctx EXCEPT ![c].at = "chain", ![c].n = 0]
    /\ UNCHANGED <<ring, running, timer, rx_chans, api, engine, stack, history>>

\* A copy for the API too, if the filter mirrors packets and there is a buffer.
Mirror == UNCHANGED api \/ (api_left > 0 /\ site # "late" /\ CopyToApi)

\* For a network interface: the buffer is given to the stack with the lock released.
RxUp(c) ==
    /\ Taking(c)
    /\ MarkComplete
    /\ Mirror
    /\ stack' = stack \union {skb[dirty]}
    /\ twice' = (twice \/ skb[dirty] = NoBuf \/ skb[dirty] \in stack)
    /\ ctx' = [ctx EXCEPT ![c].at = "out", ![c].slot = dirty]
    /\ UNCHANGED <<ring, running, api_wait, timer, rx_chans, engine, resets>>

\* For a network interface, but the call-back of knet-cb consumes the buffer.
RxCallback(c) ==
    /\ Taking(c)
    /\ MarkComplete
    /\ Mirror
    /\ stack' = stack \union {skb[dirty]}
    /\ twice' = (twice \/ skb[dirty] = NoBuf \/ skb[dirty] \in stack)
    /\ skb' = [skb EXCEPT ![dirty] = NoBuf]
    /\ Advance(dirty)
    /\ ctx' = [ctx EXCEPT ![c].n = @ + 1]
    /\ UNCHANGED <<cur, chained, running, api_wait, timer, rx_chans, engine, resets>>

\* Mutant: the descriptor keeps the buffer that was given away.
KeepSkb(i) == skb' = skb

\* "Ensure that we reallocate SKB for this DCB".
ForgetSkb(i) == skb' = [skb EXCEPT ![i] = NoBuf]

\* Back from the stack, with the lock.
RxBack(c) ==
    /\ Out(c) /\ \A d \in Callers \ {c} : ctx[d].at = "away" \/ Out(d)
    /\ ForgetSkb(ctx[c].slot)
    /\ Advance(ctx[c].slot)
    /\ ctx' = [ctx EXCEPT ![c].at = "rx", ![c].slot = 0, ![c].n = @ + 1]
    /\ UNCHANGED <<cur, chained, state, api, engine, stack, history>>

RxEnd(c) ==
    /\ ctx[c].at = "rx" /\ Holds(c) /\ ~More(c)
    /\ ctx' = [ctx EXCEPT ![c].at = "chain", ![c].n = 0]
    /\ UNCHANGED <<ring, state, api, engine, stack, history>>

-----------------------------------------------------------------------------
(* The callers: dev_do_dma and DMA_INFO.                                   *)

\* dev_do_dma reads the status register and clears the bits it acts on.
IrqEnter ==
    /\ ctx["irq"].at = "away" /\ RingFree
    /\ desc_done \/ chain_done
    /\ ctx' = [ctx EXCEPT !["irq"] =
                  [Away EXCEPT !.at = IF desc_done THEN Enter ELSE "chain", !.chain = chain_done]]
    /\ desc_done' = FALSE
    /\ UNCHANGED <<ring, state, api, hw, late, chain_done, site, stack, history>>

\* Chain-done handling is due after bkn_do_skb_rx, for an interrupt that read the
\* chain-done bit and for a DMA_INFO command that resumed a complete chain.
ChainDue(c) == IF c = "irq" THEN ctx[c].chain ELSE chain_complete

\* Mutant: a channel that waits for the API is restarted all the same.
MayRestartWaiting(c) == ChainDue(c)

\* bkn_rx_chain_done returns at once while the channel waits for API buffers.
MayRestart(c) == ChainDue(c) /\ (api_wait => ctx[c].retry)

\* Mutant: the bit is cleared whether it was read or not.
ClearChainDoneUnread(c) == chain_done' = (chain_done /\ c # "irq")

\* The interrupt's chain-done bit is cleared before bkn_rx_chain_done.
ClearChainDone(c) == chain_done' = (chain_done /\ ~(c = "irq" /\ ctx[c].chain))

NoRestart(c) ==
    /\ ctx[c].at = "chain" /\ Holds(c) /\ ~MayRestart(c)
    /\ ctx' = [ctx EXCEPT ![c] = Away]
    /\ ClearChainDone(c)
    /\ UNCHANGED <<ring, state, api, hw, late, desc_done, site, stack, history>>

\* More retries are of no use, up to the "Incomplete chain" that ends them: a packet waits
\* for the API, or the channel does not run and the bit was left by an abort.
RetriedInVain(c) == ctx[c].retry /\ (api_wait \/ ~running)

\* Not all of the chain was taken (descriptor memory updated late, or a small budget):
\* bkn_do_rx again.
SyncRetry(c) ==
    /\ ctx[c].at = "chain" /\ Holds(c) /\ MayRestart(c)
    /\ ~chain_complete /\ ~RetriedInVain(c)
    /\ ctx' = [ctx EXCEPT ![c].at = Enter, ![c].retry = TRUE]
    /\ UNCHANGED <<ring, state, api, engine, stack, history>>

\* The chain was taken, or the retries are used up: refill and restart, or set the timer.
ChainDone(c) ==
    /\ ctx[c].at = "chain" /\ Holds(c) /\ MayRestart(c)
    /\ chain_complete \/ RetriedInVain(c)
    /\ \E started \in BOOLEAN :
          /\ RefillAndRestart(started)
          /\ chain_complete' = ~started
          /\ timer' = (timer \/ ~started)
          /\ ~started => ClearChainDone(c) /\ UNCHANGED <<hw, late, desc_done>>
    /\ ctx' = [ctx EXCEPT ![c] = Away]
    /\ UNCHANGED <<dirty, done, api_wait, rx_chans, api, site, stack, history>>

\* DMA_INFO with an Rx chain: queued, and made the active one if there is none; a
\* channel that waited for it is resumed.
DmaInfoRx ==
    /\ LockFree /\ ctx["cmd"].at = "away" /\ api_queued < MaxApiChains
    /\ api_left = 0 /\ api_wait => RingFree
    /\ IF api_left > 0
       THEN /\ api_queued' = api_queued + 1
            /\ UNCHANGED <<api_left, api_wait, ctx>>
       ELSE /\ api_left' = ApiChainLen
            /\ api_wait' = FALSE
            /\ ctx' = IF api_wait THEN [ctx EXCEPT !["cmd"] = [Away EXCEPT !.at = Enter]] ELSE ctx
            /\ UNCHANGED api_queued
    /\ UNCHANGED <<ring, running, chain_complete, timer, rx_chans, engine, stack, history>>

\* A channel that does not run is refilled and restarted.
Resume ==
    /\ ~running
    /\ \E started \in BOOLEAN :
          /\ RefillAndRestart(started)
          /\ chain_complete' = (chain_complete /\ ~started)
          /\ ~started => UNCHANGED engine
    /\ UNCHANGED <<dirty, done, site>>

\* bkn_timer: set again until the channel runs.
Timer ==
    /\ timer /\ LockFree /\ rx_chans = 1
    /\ Resume \/ (running /\ UNCHANGED <<ring, running, chain_complete, engine>>)
    /\ timer' = ~running'
    /\ UNCHANGED <<rx_chans, api_wait, api, ctx, stack, history>>

\* bkn_rxtick, for a channel whose rate control has suppressed it.
RxTick ==
    /\ LockFree /\ rx_chans = 1
    /\ Resume
    /\ UNCHANGED <<timer, rx_chans, api_wait, api, ctx, stack, history>>

-----------------------------------------------------------------------------
(* HW_RESET and HW_INIT.                                                   *)

\* bkn_dma_abort_rx, and bkn_clean_rx_dcbs as far as both commands share it.
AbortAndClean ==
    /\ RingFree
    /\ resets' = resets + rx_chans /\ resets' <= MaxResets
    /\ QuietResets => ~late /\ \A i \in Slots : ~done[i]
    /\ twice' = (twice \/ \E i \in Slots : Posted(i) /\ skb[i] \in stack)
    /\ late' = FALSE
    /\ api_left' = 0 /\ api_queued' = 0 /\ api_wait' = FALSE
    /\ UNCHANGED <<timer, site, ctx, stack>>

\* xgsm and xgsx return early from the abort of a channel that is idle: its status bits
\* stay.
AbortStatus(started) ==
    LET cleared == AbortClears \/ hw # Halted \/ started
    IN desc_done' = (desc_done /\ ~cleared) /\ chain_done' = (chain_done /\ ~cleared)

\* Buffers left on the ring: those of slots that were not posted.
Cleaned == [i \in Slots |-> IF Posted(i) THEN NoBuf ELSE skb[i]]

\* Mutant: the slots are counted, rx.dirty stays.
CleanedDirtyStale == dirty

\* Where the loop of bkn_clean_rx_dcbs ends.
CleanedDirty == Slot(dirty, free)

HwReset ==
    /\ rx_chans = 1
    /\ AbortAndClean
    /\ skb' = Cleaned
    /\ dirty' = CleanedDirty /\ free' = 0
    /\ hw' = Halted /\ running' = FALSE
    /\ AbortStatus(FALSE)
    /\ UNCHANGED <<cur, done, chained, chain_complete, rx_chans>>

\* bkn_init_dcbs clears the descriptors; bkn_dma_init refills and restarts.
HwInit ==
    /\ AbortAndClean
    /\ done' = [i \in Slots |-> FALSE]
    /\ dirty' = 0 /\ rx_chans' = 1
    /\ \E k \in 0 .. MAX_RX_DCBS :
          /\ skb' \in Refilled(Cleaned, 0, k, MAX_RX_DCBS)
          /\ chained' = ChainBits(0, k, [i \in Slots |-> FALSE])
          /\ free' = k /\ cur' = Slot(0, k)
          /\ running' = Enough(k)
          /\ hw' = IF Enough(k) THEN 0 ELSE Halted
          /\ AbortStatus(Enough(k))
          /\ chain_complete' = (chain_complete /\ ~Enough(k))

-----------------------------------------------------------------------------
DoSkbRx(c) ==
    RxDrop(c) \/ RxToApi(c) \/ RxApiWait(c) \/ RxCallback(c) \/ RxUp(c) \/ RxBack(c) \/ RxEnd(c)

Next ==
    \/ HwPacket \/ HwUpdate \/ StackFrees
    \/ \E c \in Callers : DoSkbRx(c) \/ NoRestart(c) \/ SyncRetry(c) \/ ChainDone(c)
    \/ IrqEnter \/ DmaInfoRx \/ Timer \/ RxTick \/ HwReset \/ HwInit

Spec == Init /\ [][Next]_vars

\* Interrupts are served, callers run on, descriptor memory is updated, the timer runs and
\* finds memory and tokens at last, the stack frees buffers, and the application posts API
\* buffers.  Packets need not arrive, commands need not come, bkn_rxtick need not act.
Fairness ==
    /\ WF_vars(HwUpdate) /\ WF_vars(StackFrees)
    /\ WF_vars(IrqEnter) /\ WF_vars(DmaInfoRx)
    /\ \A c \in Callers : WF_vars(DoSkbRx(c) \/ NoRestart(c) \/ SyncRetry(c) \/ ChainDone(c))
    /\ SF_vars(running' = TRUE /\ Timer)

FairSpec == Spec /\ Fairness

-----------------------------------------------------------------------------
(* Properties.                                                             *)

\* Types and ranges: in particular a call of bkn_do_skb_rx takes no more descriptors than
\* the ring has, and rx.free never goes below zero or above the size of the ring.
TypeOK ==
    /\ free \in 0 .. MAX_RX_DCBS /\ cur \in Slots /\ dirty \in Slots
    /\ skb \in [Slots -> Bufs \union {NoBuf}]
    /\ done \in [Slots -> BOOLEAN] /\ chained \in [Slots -> BOOLEAN]
    /\ running \in BOOLEAN /\ chain_complete \in BOOLEAN /\ api_wait \in BOOLEAN
    /\ api_left \in 0 .. ApiChainLen /\ api_queued \in 0 .. MaxApiChains /\ timer \in BOOLEAN
    /\ rx_chans \in {0, 1}
    /\ hw \in Slots \union {Halted} /\ late \in BOOLEAN
    /\ desc_done \in BOOLEAN /\ chain_done \in BOOLEAN /\ site \in Sites
    /\ ctx \in [Callers -> [at : {"away", "rx", "out", "chain"}, chain : BOOLEAN, slot : Slots,
                            n : 0 .. MAX_RX_DCBS, retry : BOOLEAN]]
    /\ stack \in SUBSET Bufs /\ twice \in BOOLEAN /\ resets \in 0 .. MaxResets

\* rx.free, rx.cur and rx.dirty agree on which slots are posted, through partial refills,
\* restarts, waits for the API and resets.
RxAccounting == cur = Slot(dirty, free)

\* A buffer is posted in one slot at most, and a buffer the stack holds is in no slot,
\* except the one whose packet is being given to the stack.
BufferOwnership ==
    \A i \in Slots : skb[i] # NoBuf =>
        /\ \A j \in Slots : i # j => skb[i] # skb[j]
        /\ skb[i] \in stack => \E c \in Callers : Out(c) /\ ctx[c].slot = i

\* The engine only ever writes to a buffer that the driver posted and that is not the
\* network stack's, and it never leaves the ring (bkn_rx_refill, bkn_clean_rx_dcbs).
EngineOnBuffer ==
    hw # Halted =>
        /\ Posted(hw) /\ skb[hw] # NoBuf /\ skb[hw] \notin stack
        /\ chained[hw] => hw + 1 \in Slots

\* The engine never overwrites a packet that was not taken yet: the channel is restarted
\* only after every descriptor of the last chain was handed back.
NothingOverwritten == hw # Halted => ~done[hw]

\* "Suspend SKB Rx due to no API resources": while a packet waits for API buffers nothing
\* starts the engine again, which would begin with the descriptor of that very packet.
SuspendHolds == [][api_wait /\ api_wait' /\ hw = Halted => hw' = Halted]_vars

\* The packets in the ring are those of the first descriptors from rx.dirty on, where the
\* engine began and up to where it is.  bkn_do_skb_rx stops at the first descriptor that is
\* not done, so it leaves none behind and takes them in the order they came: over partial
\* refills, the end of the ring, where the chain ends, and a restart at any rx.dirty.
TakenInOrder ==
    \A i \in Slots : done[i] =>
        /\ Posted(i)
        /\ \A j \in Slots : Ahead(j) < Ahead(i) => done[j]
        /\ hw # Halted => Ahead(i) < Ahead(hw)

\* A channel that has stopped will be restarted by somebody: a chain-done interrupt, the
\* application's next API buffer, a caller, or the rate timer.
RestartDue ==
    hw = Halted =>
        \/ ~running \/ chain_done \/ api_wait
        \/ \E c \in Callers : ctx[c].at # "away"

\* No buffer is given to the network stack (3337-3345) twice, nor freed while the stack has it
\* ("Ensure that we reallocate SKB for this DCB").
GivenOnce == ~twice

\* A packet in the ring is taken.  One whose descriptor memory was updated after the
\* interrupt may stay until the next packet, but not beyond the end of the chain.
PacketsTaken ==
    \A i \in Slots : (done[i] /\ (site = "late" => hw = Halted)) ~> ~done[i]

\* A channel that has run to the end of its chain is started again, also after it waited
\* for the API and after there was no memory, unless HW_RESET or HW_INIT intervenes.
ChannelRestarts == (running /\ hw = Halted) ~> (hw # Halted \/ resets > 0)
=============================================================================
