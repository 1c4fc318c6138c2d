------------------------------- MODULE BdeIrq -------------------------------
(***************************************************************************)
(* The interrupt of switch devices shared by two drivers: the user-mode    *)
(* driver behind linux-user-bde (primary handler, WAIT_FOR_INTERRUPT and   *)
(* mask ioctls) and KNET (secondary handler).  The kernel BDE keeps for    *)
(* each device what either driver last asked for and writes the union to   *)
(* the mask register (lkbde_irq_mask_set).                                 *)
(*                                                                         *)
(* Interrupt sources of a device: "u" has its mask in the shared register, *)
(* "v" in a register that only user mode writes, "k" belongs to KNET.  A   *)
(* source stays raised until its driver serves it.  The handler of a       *)
(* device, its KNET poll and the user-mode thread run on different         *)
(* processors; a handler step ends where it looks at state that another    *)
(* of them writes.  bkn_isr and the poll are modelled in KnetNapi: here    *)
(* they are one step each.  The devices are of one instance.               *)
(***************************************************************************)
EXTENDS Naturals, FiniteSets

CONSTANTS
    Devs,              \* devices of the instance
    KnetDevs,          \* those that KNET drives too
    Kinds,             \* primary handlers that KNET's devices may have, see KindNames
    OtherKinds,        \* and those that the other devices may have
    DisableDevs,       \* devices whose interrupts user mode may disable again
    EarlyKnetBits,     \* user mode enables "k" although KNET is not there yet
    UnloadWhilePolling \* KNET may be unloaded during a NAPI poll

\* "plain" stands for the handlers that never look at KNET and only write registers of user
\* mode (QE2K, FE2K, FE2KXT, BME3200, BM9600).
KindNames == {"cmic", "cmicm", "cmicx", "bcm88750", "plain"}

ASSUME IrqAssumption ==
    /\ IsFiniteSet(Devs) /\ KnetDevs \subseteq Devs /\ DisableDevs \subseteq Devs
    /\ Kinds \subseteq KindNames /\ OtherKinds \subseteq KindNames
    /\ EarlyKnetBits \in BOOLEAN /\ UnloadWhilePolling \in BOOLEAN

VARIABLES
    kind,      \* the device's handler, of linux-user-bde's _devices[d].isr
    imask,     \* ctrl->imask, ctrl->imask2, ctrl->fmask of the kernel BDE
    imask2,
    fmask,
    reg,       \* sources enabled in the hardware mask register that is shared
    direct,    \* sources enabled in the registers that user mode writes itself
    stat,      \* sources that are raised
    isr, isr2, \* the primary, the secondary handler is connected
    pc,        \* where the handler of the device is
    seen,      \* what it read at the start
    knet,      \* KNET on the device: "off", "init", "on", "stopping", "leaving"
    polling,   \* its napi_poll_mode
    intr,      \* res->intr
    user,      \* the user-mode thread: "wait", "woken" or "serve"
    todo       \* devices it still has to visit

masks == <<imask, imask2, fmask, reg>>
handlers == <<pc, seen>>
knetvars == <<isr2, knet, polling>>
uservars == <<isr, intr, user, todo>>
vars == <<kind, masks, direct, stat, handlers, knetvars, uservars>>

-----------------------------------------------------------------------------
KnetBits == {"k"}
UserBits == {"u", "v"}
Nothing == [m |-> {}, f |-> {}, s |-> {}]

\* The sources of user mode whose mask is in the shared register.
Shared(d) == IF kind[d] \in {"cmicx", "plain"} THEN {} ELSE {"u"}

\* Those whose mask is in a register of user mode alone.
Direct(d) == IF kind[d] = "cmic" THEN {} ELSE {"v"}

\* The device's interrupt line.
Raised(d) == stat[d] \cap (reg[d] \cup direct[d]) # {}

Init ==
    /\ \E k \in Kinds, o \in OtherKinds :
           kind = [d \in Devs |-> IF d \in KnetDevs THEN k ELSE o]
    /\ imask = [d \in Devs |-> {}] /\ imask2 = imask /\ fmask = imask
    /\ reg = imask /\ direct = imask /\ stat = imask
    /\ isr = [d \in Devs |-> FALSE] /\ isr2 = isr
    /\ pc = [d \in Devs |-> "idle"] /\ seen = [d \in Devs |-> Nothing]
    /\ knet = [d \in Devs |-> "off"] /\ polling = isr
    /\ intr = FALSE /\ user = "wait" /\ todo = {}

-----------------------------------------------------------------------------
(* Kernel BDE.                                                             *)

\* Mutant: the bits of the secondary driver are not filtered from the primary's.
MaskSetUnfiltered(d, mask) ==
    /\ imask' = [imask EXCEPT ![d] = mask]
    /\ reg' = [reg EXCEPT ![d] = mask \cup imask2[d]]
    /\ UNCHANGED <<imask2, fmask>>

\* lkbde_irq_mask_set of the primary driver, in one piece under ctrl->lock.
MaskSet(d, mask) ==
    LET m == mask \ fmask[d] IN
    /\ imask' = [imask EXCEPT ![d] = m]
    /\ reg' = [reg EXCEPT ![d] = m \cup imask2[d]]
    /\ UNCHANGED <<imask2, fmask>>

\* Mutant: the register gets only the secondary driver's bits.
MaskSet2Alone(d, mask, filter) ==
    /\ fmask' = [fmask EXCEPT ![d] = filter]
    /\ imask2' = [imask2 EXCEPT ![d] = mask \cap filter]
    /\ reg' = [reg EXCEPT ![d] = mask \cap filter]
    /\ UNCHANGED imask

\* lkbde_irq_mask_set of the secondary driver.
MaskSet2(d, mask, filter) ==
    /\ fmask' = [fmask EXCEPT ![d] = filter]
    /\ imask2' = [imask2 EXCEPT ![d] = mask \cap filter]
    /\ reg' = [reg EXCEPT ![d] = imask[d] \cup (mask \cap filter)]
    /\ UNCHANGED imask

-----------------------------------------------------------------------------
(* Hardware.                                                               *)

HwRaise(d) ==
    /\ \E b \in Shared(d) \cup Direct(d) \cup (IF knet[d] = "on" THEN KnetBits ELSE {}) :
           stat' = [stat EXCEPT ![d] = @ \cup {b}]
    /\ UNCHANGED <<kind, masks, direct, handlers, knetvars, uservars>>

-----------------------------------------------------------------------------
(* _isr: the primary handler, then the secondary one.                      *)

Goto(d, label) == pc' = [pc EXCEPT ![d] = label]

\* Where the primary handler begins: with a look at KNET's filter, or without one.
Entry(d) == CASE kind[d] = "plain" -> "notify"
              [] kind[d] = "bcm88750" -> "mask"
              [] OTHER -> "get"

Interrupt(d) ==
    /\ pc[d] = "idle" /\ Raised(d)
    /\ isr[d] \/ isr2[d]
    /\ Goto(d, IF isr[d] THEN Entry(d) ELSE "second")
    /\ UNCHANGED <<kind, masks, direct, stat, seen, knetvars, uservars>>

\* lkbde_irq_mask_get, without the lock; _cmicx_interrupt then reads KNET's status.
Get(d) ==
    /\ pc[d] = "get"
    /\ seen' = [seen EXCEPT ![d] = [m |-> imask[d] \cup imask2[d], f |-> fmask[d],
                                    s |-> IF kind[d] = "cmicx" THEN stat[d] \cap KnetBits
                                          ELSE {}]]
    /\ Goto(d, IF fmask[d] = {} THEN "mask" ELSE "test")
    /\ UNCHANGED <<kind, masks, direct, stat, knetvars, uservars>>

\* Mutant: left to the secondary handler whenever it has something to do.
AlsoKnet(d) == stat[d] \cap seen[d].f # {}

\* Nothing but the filtered sources is pending: all is left to the secondary handler.
OnlyKnet(d) == stat[d] \cap ((seen[d].m \ seen[d].f) \cup direct[d]) = {}

\* _cmic_interrupt writes back the mask it read; _cmicm_interrupt and _cmicd_interrupt
\* return.
Test(d) ==
    /\ pc[d] = "test" /\ kind[d] \in {"cmic", "cmicm"}
    /\ IF ~OnlyKnet(d) THEN Goto(d, "mask") /\ UNCHANGED masks
       ELSE /\ Goto(d, "second")
            /\ IF kind[d] = "cmic" THEN MaskSet(d, seen[d].m \ seen[d].f)
               ELSE UNCHANGED masks
    /\ seen' = [seen EXCEPT ![d] = Nothing]
    /\ UNCHANGED <<kind, direct, stat, knetvars, uservars>>

\* _cmicx_interrupt reads KNET's enable register; if a source it saw raised is enabled,
\* it clears that register past lkbde_irq_mask_set, and is done when no other register
\* has a source that is raised and enabled.
TestX(d) ==
    /\ pc[d] = "test" /\ kind[d] = "cmicx"
    /\ IF seen[d].s \cap reg[d] # {}
       THEN /\ reg' = [reg EXCEPT ![d] = {}]
            /\ Goto(d, IF stat[d] \cap direct[d] = {} THEN "second" ELSE "mask")
       ELSE UNCHANGED reg /\ Goto(d, "mask")
    /\ seen' = [seen EXCEPT ![d] = [m |-> {}, f |-> seen[d].f, s |-> {}]]
    /\ UNCHANGED <<kind, imask, imask2, fmask, direct, stat, knetvars, uservars>>

\* Masks the sources of user mode in the shared register.
Mask(d) ==
    /\ pc[d] = "mask"
    /\ IF kind[d] # "cmicx" THEN MaskSet(d, {})
       ELSE /\ reg' = IF seen[d].f = {} THEN [reg EXCEPT ![d] = {}] ELSE reg
            /\ UNCHANGED <<imask, imask2, fmask>>
    /\ Goto(d, "notify")
    /\ UNCHANGED <<kind, direct, stat, seen, knetvars, uservars>>

\* Masks the other registers and wakes the user-mode thread.  _bcm88750_interrupt does it
\* with lkbde_irq_mask_set, which forgets the primary's mask of the shared register once more
\* and enables what KNET's bits happen to stand for in the other ones.
Notify(d) ==
    /\ pc[d] = "notify"
    /\ \E left \in IF kind[d] = "bcm88750" /\ imask2[d] # {} THEN SUBSET Direct(d) ELSE {{}} :
           direct' = [direct EXCEPT ![d] = left]
    /\ imask' = IF kind[d] = "bcm88750" THEN [imask EXCEPT ![d] = {}] ELSE imask
    /\ intr' = TRUE
    /\ Goto(d, "second") /\ seen' = [seen EXCEPT ![d] = Nothing]
    /\ UNCHANGED <<kind, imask2, fmask, reg, stat, knetvars, isr, user, todo>>

\* bkn_isr: the interrupt is KNET's if a source of its own is raised and no poll is in
\* progress; it is masked until the poll is complete.
Second(d) ==
    /\ pc[d] = "second"
    /\ IF isr2[d] /\ knet[d] = "on" /\ ~polling[d] /\ stat[d] \cap KnetBits # {}
       THEN /\ polling' = [polling EXCEPT ![d] = TRUE]
            /\ MaskSet2(d, {}, KnetBits)
       ELSE UNCHANGED <<polling, masks>>
    /\ Goto(d, "idle")
    /\ UNCHANGED <<kind, direct, stat, seen, isr2, knet, uservars>>

-----------------------------------------------------------------------------
(* KNET.                                                                   *)

\* bkn_poll takes what is there, ...
PollServe(d) ==
    /\ polling[d] /\ stat[d] \cap KnetBits # {}
    /\ stat' = [stat EXCEPT ![d] = @ \ KnetBits]
    /\ UNCHANGED <<kind, masks, direct, handlers, knetvars, uservars>>

\* Mutant: the interrupt stays disabled.
PollEndMasked(d) ==
    /\ polling[d] /\ stat[d] \cap KnetBits = {}
    /\ polling' = [polling EXCEPT ![d] = FALSE]
    /\ UNCHANGED <<kind, masks, direct, stat, handlers, isr2, knet, uservars>>

\* ... and enables the interrupt when nothing is left (bkn_napi_poll_complete).
PollEnd(d) ==
    /\ polling[d] /\ stat[d] \cap KnetBits = {}
    /\ polling' = [polling EXCEPT ![d] = FALSE]
    /\ MaskSet2(d, IF knet[d] = "on" THEN KnetBits ELSE {}, KnetBits)
    /\ UNCHANGED <<kind, direct, stat, handlers, isr2, knet, uservars>>

\* bkn_dma_abort clears KNET's status, but xgsm and xgsx leave that of an idle channel.
DmaAbort(d) == stat' \in {stat, [stat EXCEPT ![d] = @ \ KnetBits]}

\* HW_INIT aborts DMA and disables KNET's interrupts before it connects the handler, ...
KnetInit(d) ==
    /\ knet[d] = "off"
    /\ knet' = [knet EXCEPT ![d] = "init"]
    /\ DmaAbort(d) /\ MaskSet2(d, {}, KnetBits)
    /\ UNCHANGED <<kind, direct, handlers, isr2, polling, uservars>>

\* ... and starts DMA then.
KnetStart(d) ==
    /\ knet[d] = "init"
    /\ knet' = [knet EXCEPT ![d] = "on"] /\ isr2' = [isr2 EXCEPT ![d] = TRUE]
    /\ MaskSet2(d, KnetBits, KnetBits)
    /\ UNCHANGED <<kind, direct, stat, handlers, polling, uservars>>

\* Unloading: _cleanup aborts DMA, disables the interrupt, ...
KnetStop(d) ==
    /\ knet[d] = "on"
    /\ UnloadWhilePolling \/ ~polling[d]
    /\ knet' = [knet EXCEPT ![d] = "stopping"]
    /\ DmaAbort(d) /\ MaskSet2(d, {}, KnetBits)
    /\ UNCHANGED <<kind, direct, handlers, isr2, polling, uservars>>

\* Mutant: the filter mask survives the handler.
KnetDisconnectFiltering(d) ==
    /\ knet[d] = "stopping"
    /\ knet' = [knet EXCEPT ![d] = "leaving"] /\ isr2' = [isr2 EXCEPT ![d] = FALSE]
    /\ UNCHANGED <<kind, masks, direct, stat, handlers, polling, uservars>>

\* ... disconnects the handler, which may be at work, ...
KnetDisconnect(d) ==
    /\ knet[d] = "stopping"
    /\ knet' = [knet EXCEPT ![d] = "leaving"] /\ isr2' = [isr2 EXCEPT ![d] = FALSE]
    /\ fmask' = [fmask EXCEPT ![d] = {}]
    /\ UNCHANGED <<kind, imask, imask2, reg, direct, stat, handlers, polling, uservars>>

\* ... and is gone when SYNC_IRQ or free_irq found no handler in progress.
KnetGone(d) ==
    /\ knet[d] = "leaving" /\ pc[d] = "idle"
    /\ knet' = [knet EXCEPT ![d] = "off"]
    /\ UNCHANGED <<kind, masks, direct, stat, handlers, isr2, polling, uservars>>

-----------------------------------------------------------------------------
(* User mode: ENABLE_INTERRUPTS and DISABLE_INTERRUPTS, and one thread     *)
(* that waits, visits every device and enables its interrupts again.       *)

\* LUBDE_ENABLE_INTERRUPTS, whether KNET is connected or not; the sources are enabled next.
Enable(d) ==
    /\ user = "wait" /\ ~isr[d]
    /\ isr' = [isr EXCEPT ![d] = TRUE]
    /\ user' = "serve" /\ todo' = {d}
    /\ UNCHANGED <<kind, masks, direct, stat, handlers, knetvars, intr>>

\* LUBDE_DISABLE_INTERRUPTS, of any thread of the process: it leaves the masks as they are,
\* and SYNC_IRQ or free_irq waits for a handler in progress.
Disable(d) ==
    /\ d \in DisableDevs /\ isr[d] /\ pc[d] = "idle"
    /\ isr' = [isr EXCEPT ![d] = FALSE]
    /\ UNCHANGED <<kind, masks, direct, stat, handlers, knetvars, intr, user, todo>>

\* LUBDE_WAIT_FOR_INTERRUPT: wait_event_interruptible, ...
Wake ==
    /\ user = "wait" /\ intr
    /\ user' = "woken"
    /\ UNCHANGED <<kind, masks, direct, stat, handlers, knetvars, isr, intr, todo>>

\* ... then the flag is reset, and the ioctl returns.
Reset ==
    /\ user = "woken"
    /\ intr' = FALSE
    /\ user' = "serve" /\ todo' = {d \in Devs : isr[d]}
    /\ UNCHANGED <<kind, masks, direct, stat, handlers, knetvars, isr>>

\* User mode serves its sources of the device and enables them: LUBDE_WRITE_IRQ_MASK for
\* the shared register, a plain write for the others.  Its mask may name KNET's sources.
Visit(d) ==
    /\ user = "serve" /\ d \in todo
    /\ stat' = [stat EXCEPT ![d] = @ \ UserBits]
    /\ \E extra \in {{}, KnetBits} :
           /\ extra # {} => Shared(d) # {} /\ (fmask[d] # {} \/ EarlyKnetBits)
           /\ IF Shared(d) = {} THEN UNCHANGED masks ELSE MaskSet(d, Shared(d) \cup extra)
    /\ direct' = [direct EXCEPT ![d] = Direct(d)]
    /\ todo' = todo \ {d}
    /\ user' = IF todo' = {} THEN "wait" ELSE "serve"
    /\ UNCHANGED <<kind, handlers, knetvars, isr, intr>>

-----------------------------------------------------------------------------
HandlerStep(d) ==
    Interrupt(d) \/ Get(d) \/ Test(d) \/ TestX(d) \/ Mask(d) \/ Notify(d) \/ Second(d)

Poll(d) == PollServe(d) \/ PollEnd(d)

KnetStep(d) ==
    KnetInit(d) \/ KnetStart(d) \/ KnetStop(d) \/ KnetDisconnect(d) \/ KnetGone(d)

UserStep == Wake \/ Reset \/ \E d \in Devs : Visit(d)

Next ==
    \/ \E d \in Devs : HwRaise(d) \/ HandlerStep(d) \/ Enable(d) \/ Disable(d)
    \/ \E d \in KnetDevs : Poll(d) \/ KnetStep(d)
    \/ UserStep

Spec == Init /\ [][Next]_vars

\* An interrupt whose line stays raised is delivered and its handler runs to its end, a
\* scheduled poll runs, and the user-mode thread is not starved: it comes to its wait even
\* if devices are disabled and enabled all the time.
FairSpec ==
    /\ Spec
    /\ \A d \in Devs : WF_vars(HandlerStep(d))
    /\ \A d \in KnetDevs : WF_vars(Poll(d))
    /\ WF_vars(UserStep) /\ SF_vars(Wake)

-----------------------------------------------------------------------------
(* Properties.                                                             *)

TypeOK ==
    /\ kind \in [Devs -> KindNames]
    /\ imask \in [Devs -> SUBSET {"u", "k"}]
    /\ imask2 \in [Devs -> SUBSET KnetBits] /\ fmask \in [Devs -> SUBSET KnetBits]
    /\ reg \in [Devs -> SUBSET {"u", "k"}] /\ direct \in [Devs -> SUBSET {"v"}]
    /\ stat \in [Devs -> SUBSET {"u", "v", "k"}]
    /\ isr \in [Devs -> BOOLEAN] /\ isr2 \in [Devs -> BOOLEAN]
    /\ pc \in [Devs -> {"idle", "get", "test", "mask", "notify", "second"}]
    /\ seen \in [Devs -> [m : SUBSET {"u", "k"}, f : SUBSET KnetBits, s : SUBSET KnetBits]]
    /\ knet \in [Devs -> {"off", "init", "on", "stopping", "leaving"}]
    /\ polling \in [Devs -> BOOLEAN]
    /\ intr \in BOOLEAN /\ user \in {"wait", "woken", "serve"} /\ todo \subseteq Devs

\* KNET's interrupt of the device is enabled in hardware exactly when it wants it to be.
KnetMaskKept(d) == "k" \in reg[d] <=> knet[d] = "on" /\ ~polling[d]

\* Whatever handler, user-mode thread and polls do at the same time, KNET's interrupt is
\* enabled in hardware exactly while KNET runs and no poll is in progress: user mode, which
\* writes the same register with masks of its own, neither enables nor disables it.
\* (CMICx writes the register past lkbde_irq_mask_set, see KnetHeard.)
KnetMaskShared ==
    \A d \in Devs : kind[d] # "cmicx" /\ fmask[d] # {} => KnetMaskKept(d)

\* The same of every device whose handler is not at work, CMICx included.
KnetHeard ==
    \A d \in Devs : pc[d] = "idle" /\ fmask[d] # {} => KnetMaskKept(d)

\* The user-mode sources of a device are disabled only while somebody is still to enable
\* them: a handler that has yet to set the flag, the flag itself, or the thread on its way
\* to the device.  So no interrupt is lost, although the flag is one for all devices and
\* reset after the wait.  (_cmic_interrupt may undo a mask, see UserHeardAll.)
UserEnabled(d) ==
    isr[d] /\ ~(Shared(d) \subseteq reg[d] /\ Direct(d) \subseteq direct[d]) =>
        pc[d] \in {"mask", "notify"} \/ intr \/ user = "woken" \/ d \in todo

UserHeard == \A d \in Devs : kind[d] # "cmic" => UserEnabled(d)

\* The same of every device.
UserHeardAll == \A d \in Devs : UserEnabled(d)

\* The kernel BDE filters the bits of a secondary driver only while there is one: once
\* KNET is disconnected the user-mode driver has all sources to itself.
FilterOwned == \A d \in Devs : fmask[d] # {} => knet[d] \notin {"leaving", "off"}

\* A source of user mode that is raised on an enabled device is served, unless user mode
\* disables the device or the handler undoes masks.
UserServed ==
    \A d \in Devs :
        kind[d] # "cmic" /\ isr[d] /\ stat[d] \cap UserBits # {}
            ~> ~isr[d] \/ stat[d] \cap UserBits = {}

\* A source of KNET that is raised is served, or KNET leaves.
KnetServed ==
    \A d \in KnetDevs :
        kind[d] # "cmicx" /\ knet[d] = "on" /\ "k" \in stat[d]
            ~> "k" \notin stat[d] \/ knet[d] # "on"
=============================================================================
