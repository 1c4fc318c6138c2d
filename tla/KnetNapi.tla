------------------------------ MODULE KnetNapi ------------------------------
(***************************************************************************)
(* Interrupt and poll scheduling of one KNET device (bcm-knet.c): bkn_isr  *)
(* and the NAPI poll, opening and closing of the base device, and the way  *)
(* they keep one Rx channel (SKB mode, not Continuous DMA) going.          *)
(*                                                                         *)
(* The channel fills a chain of RING descriptors and stops; a driver that  *)
(* has taken all packets of the chain refills and restarts it.  The DMA    *)
(* status register has a descriptor-done and a chain-done bit; the         *)
(* interrupt line follows them while the device's bits of the hardware     *)
(* interrupt mask are set.  The driver's lock is released while a packet   *)
(* is given to the network stack, while a poll is scheduled and while a    *)
(* poll is reported complete: each is a point between two actions here.    *)
(***************************************************************************)
EXTENDS Naturals

CONSTANTS
    RING,          \* MAX_RX_DCBS
    Weights,       \* values of module parameter napi_weight
    CloseWithNapi  \* the base device may be closed even if the driver uses NAPI

ASSUME NapiAssumption ==
    /\ RING \in Nat /\ RING >= 1
    /\ Weights \subseteq Nat \ {0}
    /\ CloseWithNapi \in BOOLEAN

VARIABLES
    use_napi, basedev_suspend, weight,   \* module parameters, set once
    suspended,        \* sinfo->basedev_suspended
    base,             \* base device: "down", "opening", "up"
    irq_mask,         \* sinfo->irq_mask has bits set
    hwmask,           \* those bits are set in the hardware mask register
    napi_poll_mode, napi_poll_again,     \* of sinfo
    napi,             \* state of the NAPI context: "off", "ready", "scheduled"
    isr, poll,        \* where bkn_isr and bkn_poll are
    dma,              \* what each dev_do_dma in progress is about to do
    running,          \* sinfo->rx[chan].running
    filled, taken,    \* descriptors of the chain the hardware completed, the driver took
    desc_done, chain_done,   \* bits of the DMA status register
    timer             \* sinfo->timer_queued

params == <<use_napi, basedev_suspend, weight>>
napivars == <<napi_poll_mode, napi_poll_again, napi>>
chan == <<running, filled, taken, desc_done, chain_done>>
vars == <<params, suspended, base, irq_mask, hwmask, napivars, isr, poll, dma, chan, timer>>

-----------------------------------------------------------------------------
Callers == {"isr", "poll", "open"}    \* of dev_do_dma

NotCalled == [at |-> "none", chain |-> FALSE, n |-> 0]

\* A caller lets go of the lock while it hands packets up.
LockFree == \A c \in Callers : dma[c].at \in {"none", "rx"}

\* Nobody is in dev_do_dma.  (KnetRx shows what happens when two callers are.)
NoneInside == \A c \in Callers : dma[c].at = "none"

\* rx_dcbs_done may not exceed this in one dev_do_dma.
BudgetOf(c) == IF c = "poll" THEN weight ELSE RING

Init ==
    /\ use_napi \in BOOLEAN /\ basedev_suspend \in BOOLEAN /\ weight \in Weights
    /\ use_napi => basedev_suspend
    /\ suspended = basedev_suspend /\ base = "down"
    /\ irq_mask = ~suspended /\ hwmask = ~suspended
    /\ napi_poll_mode = FALSE /\ napi_poll_again = FALSE /\ napi = "off"
    /\ isr = "idle" /\ poll = "idle" /\ dma = [c \in Callers |-> NotCalled]
    /\ running = ~suspended /\ filled = 0 /\ taken = 0
    /\ desc_done = FALSE /\ chain_done = FALSE /\ timer = FALSE

-----------------------------------------------------------------------------
(* Hardware: a packet arrives and is written to the next descriptor.       *)

HwPacket ==
    /\ running /\ filled < RING
    /\ filled' = filled + 1
    /\ desc_done' = TRUE
    /\ chain_done' = (chain_done \/ filled + 1 = RING)
    /\ UNCHANGED <<params, suspended, base, irq_mask, hwmask, napivars, isr, poll, dma,
                   running, taken, timer>>

-----------------------------------------------------------------------------
(* dev_do_dma, for one Rx channel.                                         *)

\* Reads the status register; clears the descriptor-done bit before any descriptor is
\* looked at, so that a packet completed from here on sets it again.
ReadStatus(c) ==
    /\ dma' = [dma EXCEPT ![c] = [at |-> IF desc_done THEN "rx" ELSE "chain",
                                  chain |-> chain_done, n |-> 0]]
    /\ desc_done' = FALSE

\* The done bit of the next descriptor is set.
DescriptorDone == taken < filled

\* bkn_do_skb_rx takes a packet; the last of a chain asks for one more poll.
TakePacket(c) ==
    /\ dma[c].at = "rx" /\ running
    /\ dma[c].n < BudgetOf(c) /\ DescriptorDone
    /\ taken' = taken + 1
    /\ dma' = [dma EXCEPT ![c].n = @ + 1]
    /\ napi_poll_again' = (napi_poll_again \/ (napi_poll_mode /\ taken + 1 = RING))
    /\ UNCHANGED <<params, suspended, base, irq_mask, hwmask, napi_poll_mode, napi, isr, poll,
                   running, filled, desc_done, chain_done, timer>>

\* Ends with the budget, or at the first descriptor that is not done.
EndRx(c) ==
    /\ dma[c].at = "rx"
    /\ ~running \/ dma[c].n >= BudgetOf(c) \/ ~DescriptorDone
    /\ dma' = [dma EXCEPT ![c].at = "chain"]
    /\ UNCHANGED <<params, suspended, base, irq_mask, hwmask, napivars, isr, poll, chan, timer>>

\* bkn_rx_restart: clears the channel's status, enables its interrupt (in the hardware
\* too, unless a poll is in progress) and starts it; asks for one more poll.
Restart ==
    /\ running' = TRUE /\ filled' = 0 /\ taken' = 0
    /\ desc_done' = FALSE /\ chain_done' = FALSE
    /\ irq_mask' = TRUE /\ hwmask' = ~napi_poll_mode
    /\ napi_poll_again' = (napi_poll_again \/ napi_poll_mode)

\* bkn_rx_chain_done after a chain-done bit: takes what is left of the chain, refills it
\* if there is memory and restarts the channel unless the base device is suspended.
\* Without memory the timer tries again.
ChainDone(c) ==
    /\ dma[c].at = "chain"
    /\ dma' = [dma EXCEPT ![c].at = "end"]
    /\ \/ /\ ~dma[c].chain
          /\ UNCHANGED <<chan, irq_mask, hwmask, napi_poll_again, timer>>
       \/ /\ dma[c].chain /\ ~suspended
          /\ Restart
          /\ UNCHANGED timer
       \/ /\ dma[c].chain /\ suspended
          /\ running' = FALSE /\ taken' = filled /\ chain_done' = FALSE
          /\ UNCHANGED <<filled, desc_done, irq_mask, hwmask, napi_poll_again, timer>>
       \/ /\ dma[c].chain /\ ~suspended
          /\ running' = FALSE /\ taken' = filled /\ chain_done' = FALSE /\ timer' = TRUE
          /\ UNCHANGED <<filled, desc_done, irq_mask, hwmask, napi_poll_again>>
    /\ UNCHANGED <<params, suspended, base, napi_poll_mode, napi, isr, poll>>

\* Mutant: a timer that finds no memory is not set again.
TimerOnce ==
    /\ timer /\ LockFree
    /\ timer' = FALSE
    /\ UNCHANGED <<params, suspended, base, irq_mask, hwmask, napivars, isr, poll, dma, chan>>

\* bkn_timer finds memory (a run that finds none only sets the timer again).
Timer ==
    /\ timer /\ LockFree
    /\ timer' = FALSE
    /\ IF running \/ suspended
       THEN UNCHANGED <<chan, irq_mask, hwmask, napi_poll_again>>
       ELSE Restart
    /\ UNCHANGED <<params, suspended, base, napi_poll_mode, napi, isr, poll, dma>>

-----------------------------------------------------------------------------
(* bkn_isr.  The line may be shared, so it is also called when the device  *)
(* did not raise it; the kernel never runs it twice at a time.             *)

IsrEnter ==
    /\ isr = "idle" /\ irq_mask /\ LockFree
    /\ ~napi_poll_mode /\ (desc_done \/ chain_done)
    /\ IF use_napi
       THEN /\ napi_poll_mode' = TRUE /\ isr' = "schedule"
            /\ UNCHANGED <<hwmask, dma, desc_done>>
       ELSE /\ hwmask' = FALSE /\ isr' = "dma"
            /\ ReadStatus("isr")
            /\ UNCHANGED napi_poll_mode
    /\ UNCHANGED <<params, suspended, base, irq_mask, napi_poll_again, napi, poll, running, filled,
                   taken, chain_done, timer>>

\* bkn_schedule_napi_poll: does nothing but warn if the base device is not open.
IsrSchedule ==
    /\ isr = "schedule"
    /\ isr' = "remask"
    /\ napi' = IF napi = "ready" THEN "scheduled" ELSE napi
    /\ UNCHANGED <<params, suspended, base, irq_mask, hwmask, napi_poll_mode, napi_poll_again,
                   poll, dma, chan, timer>>

\* Mutant: the interrupt is disabled here even if the poll is over by now.
RemaskAlways == FALSE

\* The mask xgs_irq_mask_set writes for sinfo->irq_mask.
MaskToWrite == irq_mask /\ ~napi_poll_mode

IsrRemask ==
    /\ isr = "remask" /\ LockFree
    /\ isr' = "idle"
    /\ hwmask' = MaskToWrite
    /\ UNCHANGED <<params, suspended, base, irq_mask, napivars, poll, dma, chan, timer>>

\* Without NAPI: dev_do_dma again until it finds nothing, then enable the interrupt.
IsrDmaEnd ==
    /\ isr = "dma" /\ dma["isr"].at = "end"
    /\ IF dma["isr"].n > 0
       THEN ReadStatus("isr") /\ UNCHANGED <<isr, hwmask>>
       ELSE /\ dma' = [dma EXCEPT !["isr"] = NotCalled]
            /\ isr' = "idle" /\ hwmask' = MaskToWrite
            /\ UNCHANGED desc_done
    /\ UNCHANGED <<params, suspended, base, irq_mask, napivars, poll, running, filled, taken,
                   chain_done, timer>>

-----------------------------------------------------------------------------
(* bkn_poll, called by the kernel while the NAPI context is scheduled.     *)

PollEnter ==
    /\ napi = "scheduled" /\ poll = "idle" /\ LockFree
    /\ poll' = "dma"
    /\ napi_poll_again' = FALSE
    /\ ReadStatus("poll")
    /\ UNCHANGED <<params, suspended, base, irq_mask, hwmask, napi_poll_mode, napi, isr, running,
                   filled, taken, chain_done, timer>>

\* Nothing asked for another poll, and the budget was not used up.
PollDone == ~napi_poll_again /\ dma["poll"].n < BudgetOf("poll")

\* Mutant: the descriptor-done bit is cleared when the packets are taken, not before.
PollEndClearing ==
    /\ poll = "dma" /\ dma["poll"].at = "end"
    /\ poll' = IF PollDone THEN "complete" ELSE "idle"
    /\ dma' = [dma EXCEPT !["poll"] = NotCalled]
    /\ desc_done' = FALSE
    /\ UNCHANGED <<params, suspended, base, irq_mask, hwmask, napivars, isr, running, filled, taken,
                   chain_done, timer>>

PollEnd ==
    /\ poll = "dma" /\ dma["poll"].at = "end"
    /\ poll' = IF PollDone THEN "complete" ELSE "idle"
    /\ dma' = [dma EXCEPT !["poll"] = NotCalled]
    /\ UNCHANGED <<params, suspended, base, irq_mask, hwmask, napivars, isr, chan, timer>>

PollComplete ==
    /\ poll = "complete"
    /\ poll' = "unmask"
    /\ napi' = "ready"
    /\ UNCHANGED <<params, suspended, base, irq_mask, hwmask, napi_poll_mode, napi_poll_again,
                   isr, dma, chan, timer>>

PollUnmask ==
    /\ poll = "unmask" /\ LockFree
    /\ poll' = "idle"
    /\ napi_poll_mode' = FALSE
    /\ hwmask' = irq_mask
    /\ UNCHANGED <<params, suspended, base, irq_mask, napi_poll_again, napi, isr, dma, chan, timer>>

-----------------------------------------------------------------------------
(* bkn_open and bkn_stop of the base device.                               *)

Open ==
    /\ base = "down"
    /\ suspended => NoneInside
    /\ napi' = IF use_napi THEN "ready" ELSE napi
    /\ IF suspended
       THEN base' = "opening" /\ ReadStatus("open")
       ELSE base' = "up" /\ UNCHANGED <<dma, desc_done>>
    /\ UNCHANGED <<params, suspended, irq_mask, hwmask, napi_poll_mode, napi_poll_again, isr, poll,
                   running, filled, taken, chain_done, timer>>

\* After dev_do_dma: the suspension ends, bkn_resume_rx starts the channel if it stands.
OpenEnd ==
    /\ base = "opening" /\ dma["open"].at = "end"
    /\ base' = "up" /\ suspended' = FALSE
    /\ dma' = [dma EXCEPT !["open"] = NotCalled]
    /\ IF running THEN UNCHANGED <<chan, irq_mask, hwmask, napi_poll_again>> ELSE Restart
    /\ UNCHANGED <<params, napi_poll_mode, napi, isr, poll, timer>>

\* napi_disable waits for a poll to end.  The DMA channel keeps running.
Stop ==
    /\ base = "up" /\ LockFree
    /\ use_napi => CloseWithNapi
    /\ use_napi => napi = "ready"
    /\ napi' = IF use_napi THEN "off" ELSE napi
    /\ base' = "down"
    /\ suspended' = (suspended \/ basedev_suspend)
    /\ UNCHANGED <<params, irq_mask, hwmask, napi_poll_mode, napi_poll_again, isr, poll, dma, chan,
                   timer>>

-----------------------------------------------------------------------------
DoDma(c) == TakePacket(c) \/ EndRx(c) \/ ChainDone(c)

Next ==
    \/ HwPacket \/ Timer
    \/ \E c \in Callers : DoDma(c)
    \/ IsrEnter \/ IsrSchedule \/ IsrRemask \/ IsrDmaEnd
    \/ PollEnter \/ PollEnd \/ PollComplete \/ PollUnmask
    \/ Open \/ OpenEnd \/ Stop

Spec == Init /\ [][Next]_vars

\* The interrupt the device raises is served, handlers, polls and bkn_open run on, the
\* timer fires with memory available at last.  Packets need not arrive, and nobody has to
\* open or close the base device.
Fairness ==
    /\ WF_vars(hwmask /\ IsrEnter)
    /\ WF_vars(IsrSchedule) /\ WF_vars(IsrRemask) /\ WF_vars(IsrDmaEnd)
    /\ WF_vars(PollEnter) /\ WF_vars(PollEnd) /\ WF_vars(PollComplete) /\ WF_vars(PollUnmask)
    /\ \A c \in Callers : WF_vars(DoDma(c))
    /\ WF_vars(OpenEnd) /\ WF_vars(Timer)

FairSpec == Spec /\ Fairness

-----------------------------------------------------------------------------
(* Properties.                                                             *)

\* Types and ranges: the driver never takes a descriptor the hardware did not complete
\* (taken <= filled, the done-bit test of bkn_do_skb_rx).
TypeOK ==
    /\ use_napi \in BOOLEAN /\ basedev_suspend \in BOOLEAN /\ weight \in Weights
    /\ suspended \in BOOLEAN /\ base \in {"down", "opening", "up"}
    /\ irq_mask \in BOOLEAN /\ hwmask \in BOOLEAN
    /\ napi_poll_mode \in BOOLEAN /\ napi_poll_again \in BOOLEAN
    /\ napi \in {"off", "ready", "scheduled"}
    /\ isr \in {"idle", "schedule", "remask", "dma"}
    /\ poll \in {"idle", "dma", "complete", "unmask"}
    /\ dma \in [Callers -> [at : {"none", "rx", "chain", "end"}, chain : BOOLEAN,
                            n : Nat]]
    /\ running \in BOOLEAN /\ filled \in 0 .. RING /\ taken \in 0 .. RING /\ taken <= filled
    /\ desc_done \in BOOLEAN /\ chain_done \in BOOLEAN /\ timer \in BOOLEAN

\* A poll is on its way only in polling mode, and outside the interrupt handler the
\* hardware mask is clear then ("Disable interrupts until poll job is complete").
QuietWhilePolling ==
    /\ (napi = "scheduled" \/ poll # "idle") => napi_poll_mode
    /\ napi_poll_mode /\ isr = "idle" => ~hwmask

\* Nothing is lost between a poll or a handler that ends and the next interrupt: when
\* none is active, an unserved status bit finds the interrupt enabled.
InterruptArmed ==
    (isr = "idle" /\ ~napi_poll_mode /\ (desc_done \/ chain_done)) => hwmask

\* A packet in the ring is either announced by a status bit, or somebody is looking at
\* the ring already.
PacketAnnounced ==
    (taken < filled /\ NoneInside) =>
        (desc_done \/ chain_done \/ poll # "idle" \/ napi = "scheduled")

\* Packets written to the ring are given to the network stack, and the channel gets a
\* new chain when it has filled the old one.
PacketsTaken == (taken < filled) ~> (taken = filled)
ChannelRestarts == (filled = RING /\ ~suspended) ~> (filled < RING \/ suspended)

\* As long as the base device stays open, what the hardware signals is served
\* ("Start DMA when base device is started").
ServedWhileOpen == (base = "up" /\ desc_done) ~> (base # "up" \/ ~desc_done)
=============================================================================
