# Verification of the OpenNSL kernel modules

This directory models the concurrent core of the GPL kernel modules that OpenNSL ships
(`src/sdk-6.5.12-gpl-modules`): the KNET driver `bcm-knet.c`, which gives the packets of a
switch to the Linux network stack and to the BCM API in user space, and below it the kernel
BDE (`linux-kernel-bde.c`, `linux_dma.c`, `mpool.c`) and the user BDE (`linux-user-bde.c`),
which share interrupts, devices and DMA memory between drivers and processes.  The models
are TLA+, checked with TLC on small instances; central safety properties are proved for
every instance with TLAPS.

`KNET` below is `systems/linux/kernel/modules/bcm-knet/bcm-knet.c`; bare line numbers refer
to it.

## 1. The system

The repository holds the C headers of the OpenNSL API, a binary library, examples, and
the source of three kernel modules.  Only the kernel modules contain logic that can be
verified here.

| Part | State | Operations | Interacts with |
|---|---|---|---|
| KNET Tx | ring `tx.desc` with `free`, `cur`, `dirty`; `api_dcb_list`, `api_active`; queue state of every interface | `bkn_tx`, completion (`bkn_do_tx`, `bkn_tx_chain_done`), DMA_INFO (Tx), HW_RESET, HW_INIT, `bkn_open`, `bkn_stop` | network stack (calls, queue stop and wake), DMA channel 0, BCM API (chains in, TX_DONE out) |
| KNET Rx, SKB mode | per channel: ring with `free`, `cur`, `dirty`, `running`, `chain_complete`, `api_wait`, API chain and list, tokens | `bkn_rx_refill`, `bkn_rx_restart`, `bkn_do_skb_rx`, `bkn_rx_chain_done`, DMA_INFO (Rx), `bkn_timer`, `bkn_rxtick`, HW_RESET, HW_INIT | DMA channels, network stack (called with the lock released), BCM API |
| KNET Rx, API mode | chains of the API in place of a ring | `bkn_do_api_rx`, `bkn_api_rx_restart` | as above |
| KNET interrupts | `irq_mask`, `napi_poll_mode`, `napi_poll_again`, hardware mask | `bkn_isr`, `bkn_poll`, `dev_do_dma`, `bkn_open`, `bkn_stop` | kernel NAPI, kernel BDE (mask register) |
| KNET events | `dma_events`, event resources `_bkn_evt[]` with `evt_wq_put`, `evt_wq_get` | producers in the interrupt handler, `bkn_get_next_dma_event` (event thread or ioctl), VERSION, `bkn_knet_dev_inst_set` | user processes, one per instance |
| KNET tables | interface list and `ndevs`, filter list | NETIF_CREATE, NETIF_DESTROY, FILTER_CREATE, FILTER_DESTROY, lookup | Rx path |
| KNET rate control | tokens, burst, tick length | `bkn_rx_rate_config`, `bkn_rx_add_tokens` | Rx refill |
| Continuous DMA | halt addresses, reload descriptors | `bkn_cdma_goto`, `bkn_tx_cdma_chain_switch` | both rings |
| CMIC access | registers | `xgs_*`, `xgsm_*`, `xgsx_*`, dispatched by `dev_*` | hardware |
| Kernel BDE | device table, interrupt handlers, `imask`, `imask2`, `fmask` of each device | probe, `interrupt_connect`, `interrupt_disconnect`, `lkbde_irq_mask_set`, `_isr` | KNET, user BDE |
| DMA memory | blocks and segments of `linux_dma.c`, `mpool` list, device mappings | `_dma_segment_alloc`, `_alloc_mpool`, `mpool_alloc`, `mpool_free`, `_dma_cleanup` | both BDEs, page allocator |
| User BDE | `_bde_inst_resource[]`, `_dma_pool`, `_devices[].inst`, wait flags | `_instance_attach`, WAIT_FOR_INTERRUPT, mask ioctls, interrupt handlers of each CMIC | user processes |

How they run together: the network stack calls `bkn_tx`, `bkn_open` and `bkn_stop`; the
interrupt handler or the NAPI poll calls `dev_do_dma`; timers refill Rx rings; commands come
from an ioctl or a command thread.  One spin lock per device (`sinfo->lock`) serialises all of
them, with three deliberate gaps: while a received packet is given to the network stack,
while a NAPI poll is scheduled, and while it is completed.  Events are read without the
lock.

Below, the interrupt of a device runs two handlers one after the other, the user BDE's and
KNET's, which share one mask register; the user-mode thread, the polls and the handlers run
on different processors.  Table commands, ATTACH_INSTANCE and VERSION come from processes
at the same time, the last two without any lock.

What is hard here: work that starts before a gap and ends after it; one DMA channel shared
by two clients; interrupts that must be enabled exactly when nobody polls; a ring that can
be refilled, aborted and restarted at any index; counters that several handlers change
without a common lock; hardware that updates memory after it raised the interrupt.

What makes each part correct:

* Tx: every accepted packet is sent once or freed by a reset, in order; SKBs are freed
  exactly once; the channel is never started while it runs; stopped queues wake.
* Rx: the engine writes only to buffers the driver owns, no packet is overwritten before it
  was taken, no buffer is given away twice, a stopped channel starts again.
* Interrupts: no packet falls between a poll and the next interrupt; neither of the two
  drivers of a device changes the other's mask, and the sources of both are served.
* Events: no wakeup is lost, each instance gets its events, idle callers sleep.
* Tables: list and array agree, the right filter and interface get a packet, nothing is used
  after it was freed.
* Memory: disjoint aligned blocks inside the pool; a failure gives back what was taken.
* Instances: DMA memory, interrupt queue and event queue of its own for each process.

PROJECT.json lists the components with their status, and the hazards of the code at
their lines.

## 2. Modules

| Module | Models |
|---|---|
| `TxFifo` | What the Tx ring promises: a FIFO that accepts, transmits and is flushed |
| `KnetTx` | The Tx ring, its DMA channel, the BCM Tx API, queue control, resets |
| `KnetTxProofs` | Theorems about `KnetTx` |
| `KnetRx` | One Rx channel in SKB mode with both callers of `bkn_do_skb_rx` |
| `KnetRxProofs` | Theorems about `KnetRx` |
| `KnetNapi` | Interrupt handler, NAPI poll, `bkn_open`/`bkn_stop`, over a condensed Rx channel |
| `KnetNapiProofs` | Theorems about `KnetNapi` |
| `KnetEvents` | Event producers, event queues, `bkn_get_next_dma_event` |
| `KnetEventsProofs` | Theorems about `KnetEvents` |
| `KnetTables` | Interfaces and Rx filters: commands, lookup, matching, delivery |
| `KnetTablesProofs` | Theorems about `KnetTables` |
| `BdeIrq` | One interrupt, two drivers: kernel BDE masks, handlers of the user BDE, its thread, KNET |
| `BdeIrqProofs` | Theorems about `BdeIrq` |
| `BdeInstances` | ATTACH_INSTANCE of the user BDE, VERSION of KNET |
| `BdeInstancesProofs` | Theorems about `BdeInstances` |
| `Mpool` | The allocator of the DMA pool |
| `DmaMemory` | Segments, mappings and the life of the pool, around `Mpool` |
| `DmaMemoryProofs` | Theorems about `Mpool` and `DmaMemory` |
| `MC*` | Instances for TLC |

`DmaMemory` extends `Mpool`, the other models stand beside each other.  Where one leaves
out what another has, it takes the other's interface: `KnetRx` the outcome of `KnetTables`'
matching, `BdeIrq` one step of `KnetNapi`'s poll, `KnetEvents` the queues that
`BdeInstances` assigns.  The KNET rings do not use Continuous DMA.

### KnetTx

State and code correspond one to one: `free`, `cur`, `dirty`, `skb`, `api_active`,
`suspended`, `stopped`, `irq` (the Tx bit of `irq_mask`).  `done` and `chained` are bits 31
and 16 of a descriptor, `hw` and `stat` the engine and its chain-done bit.  `live` is the set
of SKBs the driver owns, `xmit` the SKB of a `bkn_tx` call in progress; `overrun`, `wire`,
`sent`, `reported` are history.

| Action | Code |
|---|---|
| `XmitBegin` | the stack's test of the queue state, outside the lock |
| `TxQueue`, `TxMapError`, `TxReject`, `TxNoResource` | the four ways through `bkn_tx` (4292) |
| `DmaSnapshot` | `dev_do_dma` (3805, 3836, 3882) reads the status; the lock may be released afterwards |
| `DmaTx` | the Tx end of `dev_do_dma`: `bkn_do_tx`, `bkn_tx_chain_done`, `bkn_api_tx`, `bkn_resume_tx`, in one step because the lock is held; for context `"open"` also the rest of `bkn_open` |
| `Open`, `Stop`, `BaseOpen`, `BaseStop` | `bkn_open`, `bkn_stop` (4120, 4247) |
| `DmaInfoTx` | `bkn_knet_dma_info` (6076-6123) |
| `HwReset`, `HwInit` | `bkn_knet_hw_reset`, `bkn_knet_hw_init` |
| `HwSendSkb`, `HwSendApi` | the DMA engine |

`RxTraffic` says whether Rx packets open the unlocked window.  `QuietResets` keeps resets out
of that window, `AbortClears` chooses the abort of `xgs` (1086), which clears the status of an
idle channel, rather than that of `xgsm` and `xgsx` (1258, 1458), which leave it.

### KnetRx

`ctx[c]` is the place of caller `c` (`"irq"`: interrupt or poll; `"cmd"`: DMA_INFO) in
`bkn_do_skb_rx` and what surrounds it; `"out"` is the call to the network stack.  `site` is
chosen once in a behaviour from `Sites`: whether descriptor memory is updated late
(`"late"`), packets go to the BCM API (`"api"`), both, or API buffers may be too small.
Filters, link state and call-backs become the choice between `RxDrop`, `RxToApi`,
`RxApiWait`, `RxUp` and `RxCallback`.  `RefillAndRestart` posts any number of buffers that
memory and tokens allow and starts the channel if the ring is full, as `bkn_rx_refill` and
`bkn_rx_restart` do.  `RetriedInVain` is the retry that gives up on an incomplete chain
(3432-3436).

While a packet is out the lock is free (`LockFree`): the engine, the timers, `bkn_rxtick` and a
DMA_INFO that only queues its chain go on then, always.  `RingFree` is the condition of what
would enter `bkn_do_skb_rx` a second time or reset the channel in that window: this happens
only with `Overlap`, which the passing runs exclude (see `KnetRxOverlap` below).  `AbortClears`
is as in `KnetTx`: without it, as for `xgsm` and `xgsx`, a reset leaves the chain-done and
descriptor-done bits of an idle channel (`AbortStatus`).

### KnetNapi

The Rx ring shrinks to two counters, `filled` and `taken`, of the current chain; what remains
exact is the status register, the masks (`irq_mask` in memory, `hwmask` in hardware), the
poll mode flags and the points at which the lock is released.  `IsrEnter`, `IsrSchedule` and
`IsrRemask` are the three sections of an interrupt in NAPI mode; `PollEnter`, the Rx steps,
`PollEnd`, `PollComplete` and `PollUnmask` those of a poll.

### KnetEvents

A caller of `bkn_get_next_dma_event` takes one step per shared access: the unlocked test of
`dma_events`, the locked read and reset, the comparison with the static `last_dev_no`, the
sleep, and the copy of `evt_wq_put`.  `evt_wq_put++` is a read and a write (`IsrCount`,
`IsrStore`), since handlers of two devices of one queue hold different locks.  `LastToRead`
says that no handler is overtaken twice between the two (see `OvertakenTwice` below).

### KnetTables

`ndev_list` and `ndevs` are the list and the array of interfaces, `rxpf_list` the list of
filters; an object of `ifmem` or `fmem` is allocated memory.  `NetifCreate`, `NetifDestroy`,
`FilterCreate` and `FilterDestroy` are the locked parts of the commands (6494-6890), one step
each; what follows after the unlock is a step of its own: `NetifAnswer` (the answer is made of
the interface), `NetifFree` (`unregister_netdev` and `free_netdev`) and `FilterFree`
(`kfree`).  `SetEntry` is the array with its growth by one chunk and its failing `kmalloc`.
`RxMatch` is `bkn_match_rx_pkt` and what follows up to the unlock, `RxClone` and `RxStack`
the two calls of the network stack without the lock.

### BdeIrq

A device has three sources: `"u"` (user mode, mask in the shared register), `"v"` (user mode,
mask in registers it writes itself), `"k"` (KNET).  `imask`, `imask2` and `fmask` are the
fields of the kernel BDE's control structure, `reg` and `direct` the hardware.  `MaskSet` and
`MaskSet2` are the two uses of `lkbde_irq_mask_set`, atomic under its lock; all reads and the
writes that go past it are steps of their own.  `kind` chooses the primary handler:

| `kind` | Handler | What differs |
|---|---|---|
| `"cmic"` | `_cmic_interrupt` | writes back the mask it read when the interrupt is KNET's alone |
| `"cmicm"` | `_cmicm_interrupt`, `_cmicd_interrupt` | returns in that case |
| `"cmicx"` | `_cmicx_interrupt` | clears KNET's enable register past the kernel BDE's lock |
| `"bcm88750"` | `_bcm88750_interrupt` | never looks at `fmask`; writes three mask registers with `lkbde_irq_mask_set`, of which only the first is the one shared with KNET |
| `"plain"` | those of QE2K, FE2K, FE2KXT, BME3200, BM9600 | write only registers of user mode |

`Interrupt` to `Second` are the steps of `_isr`, where `Entry` is the handler's first.  `Enable` and
`Disable` are the ioctls ENABLE_INTERRUPTS and DISABLE_INTERRUPTS, `Wake`, `Reset` and `Visit` the
user-mode thread, `KnetInit` and `KnetStart` HW_INIT, `KnetStop`, `KnetDisconnect` and `KnetGone`
`_cleanup`.  The two drivers come and go in any order.  `KnetDisconnect` is the assignment
`fmask = 0`, made while a handler may run, `KnetGone` the SYNC_IRQ or `free_irq` after it that
waits for the handler.  `DmaAbort` leaves KNET's status or clears it, as an idle channel's
abort does on different CMICs.  `DisableDevs` are the devices that user mode disables again.  A
`request_irq` that fails, and HW_RESET or HW_INIT of a KNET that is already connected, are left
out.

### BdeInstances

`Attach` to `Assign` are the reads and writes of `_instance_attach` in their order: validation,
`_dma_resource_alloc` (read, write), the choice of an element, its use, and the devices.
`Version` to `Enter` are `bkn_knet_dev_inst_set` with `bkn_create_inst`.  A process has the
identity of its instance, the set of its devices.

### Mpool and DmaMemory

`nodes` is the `mpool` list with head and tail, `held` the blocks callers have; `Create`,
`Alloc`, `Free` and `Destroy` are the four functions.  In `DmaMemory`,
`_find_largest_segment` is stepped through with its locals `i`, `j`, `b`, `e`, `found` as the
variables `blk`, `look`, `begin`, `end`, `found` (0 where they are dead): `FindLargest` clears
the tags, `PassBlock` to `EndScan` are the tests and bodies of its three nested loops, with
`EndSegment` for the new tags of a finished segment.  `Begin`, `MoreMemory` and `Release` are
the rest of `_dma_segment_alloc`, `Map` the mapping for each device with its two
error paths, `MakePool`, `Salloc`, `Sfree` and `Reload` the use of the memory and `_dma_cleanup`.

## 3. Runs

| Run | Instance | Result |
|---|---|---|
| `tx_hostile` | 3 descriptors, 3 packets, 1 interface, suspension, resets in the window, stale status | types, ring accounting, SKB ownership and progress hold |
| `tx_default` | 3 descriptors, 3 packets, 1 interface, no suspension, quiet resets, fairness | no overrun, no false TX_DONE, FIFO refinement hold, packets leave, queues resume |
| `napi` | chain of 3, budget 3 and 4, all parameters | mask and announcement invariants, liveness hold |
| `napi_reopen` | base device closed with NAPI | `ServedWhileOpen` violated |
| `rx` | 3 descriptors, 3 buffers, late updates or API packets | accounting, ownership, the engine's place, no overwriting, order of taking, restart, liveness hold |
| `rx_budget` | 3 descriptors, API packets, a budget of 2 descriptors | `SuspendHolds` violated |
| `events` | 3 devices in 2 instances, 1 caller each, 3 events | no lost wakeup, delivery hold |
| `tables` | 2 processes, 3 interfaces, 2 filters, chunks of 3, one failing `kmalloc` | lookup, memory use, choice of filter, delivery hold |
| `bde_irq` | a device with KNET and a handler of four kinds, a plain device beside it, fairness | mask sharing, no lost interrupt, filter ownership, service hold |
| `irq_deaf` | one CMICx device with KNET | `KnetHeard` violated |
| `memory` | segments of 3 blocks out of up to 7, 3 devices, 2 bus addresses, cache lines of 2 bytes | pool, search and balance of memory hold |
| `instances` | 3 devices in every partition of the configuration, 5 units of DMA memory | memory and queues of one's own hold |

### What the violated properties show

* `napi_reopen`.  `bkn_schedule_napi_poll` sets `napi_poll_mode` (3779) before it knows
  whether it can schedule a poll; nothing clears the flag if it cannot.
* `irq_deaf`.  `_cmicx_interrupt` clears KNET's enable register with a plain write, past the
  lock of `lkbde_irq_mask_set`, when it finds that the interrupt is for KNET alone.  It decides
  this from a status it read before; a poll that ends (or HW_INIT that starts DMA) in between
  enables the register, and the write undoes that.  KNET's interrupt is then disabled until
  something writes the mask again: KNET does so in `bkn_isr` or at the end of a poll, for which
  it needs an interrupt, so that it is left to one of the user-mode driver's on the same device.
* `rx_budget`.  `bkn_rx_chain_done` tests `api_wait` on entry only (3407).  If not all of the
  chain was taken, its retry loop calls `bkn_do_rx` again (3430); when the last packet then finds
  no API buffer, `api_wait` and `chain_complete` are both set, the loop ends, and the channel is
  refilled and restarted at the descriptor of the waiting packet (3440-3447), which the engine
  overwrites.  The loop finds packets to take whenever the call before it had a budget below the
  ring: a later channel gets what earlier channels left of MAX_RX_DCBS (3816), and
  `napi_weight` is a parameter.  The attempt to prove `NothingOverwritten` for every budget
  brought this out.

### A larger configuration

`KnetTxPair` checks the safety part of `tx_default` with two interfaces that compete for the
channel and two API chains, up to symmetry, which is not sound for liveness.  It passes too.

### Configurations that fail

These are not runs of the list, since each question is answered: they show why the passing
runs assume what they assume, and fail when TLC checks them.

| Configuration | Drops the assumption | What happens |
|---|---|---|
| `KnetTxOpen` | no suspension | `bkn_open` calls `bkn_api_tx` (4138) without testing that the channel is idle, as its other callers do: `NoOverrun` |
| `KnetRxLate` | late updates or API packets, not both | `bkn_rx_chain_done` returns early while the channel waits for the API (3407), after the chain-done bit was cleared; DMA_INFO restarts only a complete chain (6173): `RestartDue` |
| `KnetRxOverlap` | lock not taken during the stack call | the descriptor is forgotten after the lock was released (3341-3344), so the second caller gives the same buffer away: `GivenOnce` |
| `KnetRxSmallBuf` | API buffers are large enough | a buffer that is too small is treated as no buffer (3199), and the wait ends only if there was none (6164): `PacketsTaken` |
| `KnetEventsSpin` | (one more property) | `last_dev_no` (7128) belongs to all callers; callers of two instances make each other spin: `CallersWait` |
| `KnetEventsLost` | `OvertakenTwice` = FALSE | two events are counted while the handler of another device is between its read and its write of `evt_wq_put` (3399): the write takes the count down, the next event takes it back to `evt_wq_get`, and the caller sleeps on it: `NoLostWakeup` |
| `BdeIrqLost` | `UserHeard` without the exception of `_cmic_interrupt` | that handler writes back a mask it read earlier, and undoes what user mode enabled since: `UserHeardAll` |
| `BdeIrqUnload` | no unload during a poll | a poll that ends after the handler was disconnected sets `fmask` again: `FilterOwned` |
| `BdeIrqEarly` | user mode leaves KNET's bits alone until KNET is there | they stay in `imask`, and KNET cannot disable its own interrupt: `KnetMaskShared` |
| `KnetTablesApi` | SKB mode | `bkn_do_api_rx` looks at the filter after the unlocked call: `NoFreedUse` |
| `KnetTablesAnswer` | an interface is destroyed only after its CREATE was answered | the answer is made of freed memory: `NoFreedUse` |
| `DmaMemoryNone` | the page allocator has one block | no block at all: the contiguous segment at "address 0" is taken for memory, and page 0 is reserved: `MemoryBalanced` |
| `DmaMemoryHigh` | mapped below 4 GB | the mappings are undone by `_dma_pbase`, not yet set: `MemoryBalanced` |
| `DmaMemoryPartial` | (one more property) | out of blocks, a later search that finds no larger segment discards the one found before: `LargestReturned` |
| `BdeInstancesRace` | `OneAttach` | two attachments read the same `offset`: `OwnDma` |
| `BdeInstancesVersion` | `OneVersion` | two VERSIONs take the same event element: `OwnEvents` |
| `BdeInstancesSize` | `SameSize` | a process that asks for another size gets a second element, and `_instance_validate` looks at the device with the element's number: `OwnInterrupts` |
| `BdeInstancesChanged` | `SamePartition` | KNET keeps elements of instances that are gone: `OwnEvents` |

### Bounds and why they are enough

* A ring of 3 descriptors is the smallest on which indices wrap, two packets are pending
  (so that one chain bit is set), and a pending chain may or may not cross the end.  The code
  treats all indices alike except the last one in memory, which 3 includes.
* 3 SKBs fill the ring and leave one in a `bkn_tx` call that meets a full ring.
* `MaxApiChains` = 2 gives one chain on the channel and one queued (Tx); 1 queued besides the
  active one in Rx.  `MaxResets` bounds HW_RESET and HW_INIT after the first; one of them in a
  behaviour already meets every other state.
* In `KnetNapi` weights of 3 and 4 are a budget that a chain just uses up and one that it
  does not.
* In `KnetTables`, 3 interfaces make a hole in the IDs and with chunks of 3 one that grows the
  array; 2 filters in one list meet in every order of creation, priority and destruction;
  one failure of `kmalloc` leaves an interface that only the list has.
* In `BdeIrq`, 2 devices share one wait flag; KNET on one of them shows that the other is
  not disturbed.  The handler of KNET's device is chosen from `Kinds` at the start of a behaviour
  (a plain one shares no register with KNET), that of the other from `OtherKinds`, which is the
  plain one: all that it does to the first device is to set the flag.  Only KNET's
  device is disabled and enabled again (`DisableDevs`), the other one is enabled once.  The
  theorems have any mix of kinds and any set of such devices.
* In `DmaMemory`, a request of 3 blocks out of two rounds (3 and 2 more, at most 7) lets a
  segment grow at both ends, be discarded, and be found only in the second round.  The pool
  then has 12 bytes in lines of 2, for requests of 1 (rounded), 2 and 5.
* In `BdeInstances`, 3 devices give instances of one and of several devices, contiguous or not;
  5 units of memory do for some of the requests of 1, 2 and 4 and not for others.
* In `KnetEvents`, 3 events let one increment be lost and another follow.  The bound does not
  carry the safety property, which `KnetEventsProofs` shows for any number of events; it
  bounds the states for liveness.

### Assumptions of the passing runs

* Tx, `tx_default` only (`Default` in the proofs): resets do not fall into the unlocked window,
  the base device is not suspended, and an abort clears the channel's status.  Without the
  first or the second `NoOverrun` fails (the stale Tx bit of `dma_stat` restarts the channel;
  `KnetTxOpen`), without the third `NoFalseCompletion` (a completion left over from before the
  reset is reported for the chain that comes next).
* Rx: HW_RESET and HW_INIT come when no packet waits in the ring (`QuietResets`):
  `bkn_clean_rx_dcbs` leaves the done bits, and a restart by `bkn_rxtick` or `bkn_timer`
  would then find packets that were not received.  Nobody enters `bkn_do_skb_rx` and no reset
  comes while the stack is called (`Overlap` = FALSE): the code does not prevent it, and
  `KnetRxOverlap` shows that a buffer is then given away twice.  The passing runs and the
  theorems therefore say nothing of a second entry in this window, and the hazards it makes
  count as uncovered in PROJECT.json.  The proofs call these two assumptions `Quiet`.
  The retry loop of `bkn_rx_chain_done` is long enough for late memory updates
  (`rx_sync_retry`), memory is not updated late on a channel with packets for the API
  (`KnetRxLate`), and where there are such packets a call may take the whole ring (`Budget` >=
  ring, see `rx_budget`): with `Quiet` these are `Usual`.
* Aborting a channel succeeds.
* NAPI: the base device is not closed with NAPI (`CloseWithNapi` = FALSE, the subject of
  `napi_reopen`); `napi_weight` is at least the size of the chain.
* Events: device numbers are contiguous from 0, each instance has one caller, and callers
  come back for the next event.  Of the handlers of one queue none is overtaken by two others
  between its read and its write of `evt_wq_put` (`OvertakenTwice` = FALSE): these are
  a few instructions with interrupts off, but nothing in the code rules it out.
* Tables: SKB mode (`use_rx_skb`); an application destroys an interface only when it knows
  its ID from the answer to NETIF_CREATE (`KnownIdsOnly`); `kmalloc` fails at most `MaxFails`
  times, and `MaxFails + 1` is less than the entries of a chunk of the array.
* Interrupts: user mode does not enable KNET's sources before KNET is there (`EarlyKnetBits`
  = FALSE), and KNET is not unloaded during a poll (`UnloadWhilePolling` = FALSE).
* Memory: the page allocator has at least one block (`FirstBlockGiven`), devices see all
  memory below 4 GB (`Below4GB`); requests of 0 bytes are not made.
* Instances: processes attach, and send VERSION, one at a time (`OneAttach`, `OneVersion`), ask
  for the same size when they attach again (`SameSize`), and the division of the devices into
  instances does not change while the modules are loaded (`SamePartition`).

### Fairness and why the code justifies it

* `KnetTx`: the engine sends what it was given, an enabled interrupt is served and its handler
  ends, a `bkn_tx` call ends.  Nothing obliges the stack to send, the API to queue chains or
  anybody to open or close.
* `KnetRx`: enabled interrupts are served, callers run on, memory is updated at last, the stack
  frees buffers, and the application posts API buffers (that is its role; only the packets
  for the API depend on it).  Strong fairness of a timer run that succeeds stands for memory
  that is available again and again: `bkn_timer` sets itself again every jiffy while it fails.
  No packet, command or `bkn_rxtick` is required.
* `KnetNapi`: weak fairness of the interrupt only while the hardware mask lets it through,
  which is the point of the model; handlers, polls and `bkn_open` run on.
* `KnetEvents`: handlers end and callers are scheduled; signals and events need not come.
* `BdeIrq`: an interrupt whose line stays raised is delivered and its handler runs to its end, a
  scheduled poll runs, and the user-mode thread is not starved: its steps are taken, and a wait
  that begins again and again with the flag set ends at last, also if user mode disables and
  enables devices all the time (strong fairness of `Wake`: `wait_event_interruptible` returns at
  once when the flag is set).  Nothing obliges hardware to raise a source or user mode to enable
  one.

## 4. Proofs

`KnetTxProofs` proves, for every ring size of at least 2, every set of interfaces and SKBs and
any bounds (`TxAssumption`), where `Default` is `~BaseDevSuspend /\ QuietResets /\ AbortClears`:

| Theorem | Statement |
|---|---|
| `TypeCorrect` | `Spec => []TypeOK` |
| `AccountingCorrect` | `Spec => []RingAccounting` |
| `NothingStranded` | `Spec => []NoStrandedWork` |
| `OwnershipCorrect` | `Spec => []SkbOwnership` |
| `OverrunCorrect` | `Default => (Spec => []NoOverrun)` |
| `CompletionCorrect` | `Default => (Spec => []NoFalseCompletion)` |
| `HeardCorrect` | `Default => (Spec => []CompletionHeard)` |
| `EngineCorrect` | `Default => (Spec => []EngineOnRing)` |
| `FifoCorrect` | `Default => (Spec => ImplementsFifo)` |

The first four hold for every combination of the switches `BaseDevSuspend`, `RxTraffic`,
`QuietResets` and `AbortClears`.  The argument: `TypeOK` is not inductive, since the engine
goes to `hw.pos + 1` whenever a descriptor has the chain bit.  The inductive invariant
`TypeInv` adds `LastUnchained` (the last descriptor in memory never gets the bit, because the
loop at 3752 stops before it) and `RingAccounting` (free slots are exactly those outside
[dirty, cur), which `bkn_do_tx` needs to end at `cur`).  With `TypeInv`, `NoStrandedWork` is
inductive by itself: every action that leaves work on the ring starts the engine or leaves a
completion.  `SkbOwnership` is inductive with `TypeInv` before and after the step; its lemmas
(`PendingQueued`, `PendingReclaimed`, `PendingNone`, `PendingSame`) say how the set of pending
slots changes with each kind of index movement, by the arithmetic of `Slot` and `Ahead` in the
lemmas `SlotIsSlot`, `SlotAdd` and `SlotSame`.

The others need `Default`; `KnetTxOpen` and the assumptions in section 3 say what happens
without it.  `LineInv` says who has the channel: the API while `api_active`, else the packets of the
ring, and nobody while a completion is being handled, so that no step starts a running channel
and each completion is for a chain or a packet that was sent.  `EngineInv` says where the engine
is: some first pending slots are done (`Prefix`), the engine stands on the next one, none is
done while the API has the channel, and chain bits lead from pending to pending slots.  That
`bkn_do_tx` then reclaims exactly the done ones is `PrefixReclaimed`.  For `FifoCorrect`,
`PrefixCount` turns the number of done slots in the definition of `Unsent` into that prefix, so
that `Unsent` is the list of packets after it (`UnsentRest`); `bkn_tx` puts one at its end, the
engine takes one from its front, a completion moves `tx.dirty` over slots that are in the list
no more, and a reset empties it.

`BdeIrqProofs` proves, for any number of devices, any mix of kinds of handlers and any set of
devices with KNET (`IrqAssumption`):

| Theorem | Statement |
|---|---|
| `IrqTypeCorrect` | `Spec => []TypeOK` |
| `UserHeardCorrect` | `Spec => []UserHeard` |
| `KnetMaskCorrect` | `~EarlyKnetBits /\ ~UnloadWhilePolling => (Spec => []KnetMaskShared)` |
| `FilterCorrect` | the same for `FilterOwned` |

`MaskInv` ties, for each device, register and masks to what KNET is doing; its least
obvious part is that a handler which saw KNET's bit in the mask also saw the filter
(`seen`), since it writes the difference of the two later, and that `fmask` is set exactly
from HW_INIT to the disconnection.  `UserInv` adds to `UserHeard` that the
thread has nothing to do while it waits, and that `imask` too lacks a source of user mode only
while its enabling is due (`Due`): KNET's mask calls restore the register from `imask`, which
`_bcm88750_interrupt` clears once more after it has masked the register.

`KnetRxProofs` proves, for every ring size of at least 2, any buffers, budget, API chains and
bounds (`RxAssumption`):

| Theorem | Statement |
|---|---|
| `RxTypeCorrect` | `Quiet => (Spec => []TypeOK)` |
| `RxAccountingCorrect` | the same for `RxAccounting` |
| `BufferOwnershipCorrect` | the same for `BufferOwnership` |
| `NothingOverwrittenCorrect` | `Usual => (Spec => []NothingOverwritten)` |
| `EngineOnBufferCorrect` | the same for `EngineOnBuffer` |
| `TakenInOrderCorrect` | the same for `TakenInOrder` |
| `RestartDueCorrect` | the same for `RestartDue` |
| `SuspendHoldsCorrect` | `Usual => (Spec => SuspendHolds)` |

That `rx.free` stays above zero is not a matter of the indices alone: `bkn_do_skb_rx` takes
any descriptor whose done bit is set.  `RingInv` therefore follows the first
descriptor (`Wrap`): it is done only between the start of a whole ring and its being taken,
so that a caller which has gone round the ring stops there; chain bits never lead past the last
descriptor (`Chains`); and an interrupt that read the chain-done bit (`Status`) takes at least
one packet before it may restart.  `Called` says that the lock keeps callers apart and that a
packet given to the stack is the one at `rx.dirty`.  `BufferOwnership` is then inductive: a
refill posts only buffers used nowhere (`RefilledFacts`).

`EngineInv` says where the engine is.  The descriptors from `rx.dirty` up to it are done and no
other (`Front`), which is `TakenInOrder`; `chain_complete` is set from the last descriptor on,
and until that is taken a caller is at work on it or the API is waited for (`Complete`); and
while the engine has stopped the chain-done bit, or a caller that read it, is there (`Ended`).
So a restart finds the whole chain taken.  `SitesInv` is where `Usual` enters: a caller retries
only on a channel with late memory, and only one with API packets waits.

`DmaMemoryProofs` proves, for any line size, pools and sizes (`PoolAssumption`), any blocks,
request, growth and number of devices (`MemoryAssumption`):

| Theorem | Statement |
|---|---|
| `BlocksApartCorrect` | `PoolSpec => []BlocksApart` |
| `NothingLostCorrect` | `PoolSpec => []NothingLost` |
| `LargestFoundCorrect` | `Spec => []LargestFound` |
| `PoolInMemoryCorrect` | `Spec => [](BlocksApart /\ NothingLost)` |
| `ImplementsPool` | `PoolMayBeHere => (Spec => PoolSpec)` |
| `MemoryBalancedCorrect` | `FirstBlockGiven /\ Below4GB => (Spec => []MemoryBalanced)` |

`PoolInv` says that no element of the list reaches into a later one, all are aligned, inner
ones are not empty, and addresses of blocks in use are distinct: the last is why `mpool_free`,
which only compares addresses, removes the right one.

`SearchInv` is the argument for the search.  The segment being put together is a run of
blocks, and what was looked at in a round that found nothing is away from it (`Segment`).  A
segment that ends while too small has therefore no neighbour, also none among the segments
finished before (`Closed`), so any run of blocks that meets a finished segment lies inside it
and is not larger than the largest so far (`Covered`).  When all blocks are passed (`Passed`)
this covers every run.  A search that stops earlier has a whole segment, whose blocks are
tagged as the largest (`Whole`); then `Closed` need not hold, which is why it speaks only of
`seg_size < ReqBlocks`.  `LargestFound` needs no hypothesis: an entry that could not be
allocated is a segment of its own at address 0, away from all blocks.

`MemoryBalanced` needs both hypotheses, as `DmaMemoryNone` and `DmaMemoryHigh` show.
`FirstBlockGiven` gives `NotZero` (the first block makes a segment of one, and one at address 0
is not larger); `PoolPlaced` says that there is a pool only in mapped memory and from its one
end to the other, hence `PoolInMemoryCorrect`.  No client has a block when the list is empty
(`NoPoolNoBlocks`), so every step of `DmaMemory` is one of `Mpool` or leaves the pool alone:
`ImplementsPool`, where `PoolMayBeHere` says only that `Bases` and `PoolSizes` of `Mpool` have
the places and the size of pools in `DmaMemory`.  `Balanced` extends the property to every point
of an allocation: the pages are those of the blocks of a search, or those of the memory.

`BdeInstancesProofs` proves, for any number of devices, any set of partitions, any memory and
sizes (`InstancesAssumption`):

| Theorem | Statement |
|---|---|
| `OwnDmaCorrect` | `OneAttach /\ SameSize /\ SamePartition => (Spec => []OwnDma)` |
| `OwnInterruptsCorrect` | the same for `OwnInterrupts` |
| `OwnEventsCorrect` | `OneVersion /\ SamePartition => (Spec => []OwnEvents)` |

ATTACH_INSTANCE and VERSION share only the instance of a device, hence two invariants,
`AttachInv` and `EventInv`.  The first says what a process in the middle of
`_instance_attach` knows (`AttachPlace`: the memory it was given lies above all memory in
use), the second that event elements are handed out in their order, one to an instance
(`EventElements`).  That there is one for each instance is the pigeonhole argument of
`EnoughElements`.

`KnetEventsProofs` proves, for any number of devices and events and any division of the
devices into instances (`EventsAssumption`):

| Theorem | Statement |
|---|---|
| `EventsTypeCorrect` | `Spec => []TypeOK` |
| `NoLostWakeupCorrect` | `OneCaller /\ ~OvertakenTwice => (Spec => []NoLostWakeup)` |

`WakeInv` follows a caller through its round: an event of a device it has looked at already
(`Looked`) will be counted on top of what the caller has seen, or was (`Noticed`).  `CountInv`
says that a handler about to write `evt_wq_put` read at most one less than the present count,
so that the count does not go down; without it the count may come back to `evt_wq_get`.  The
state-space bound of `events` hides that case, which the attempt at this proof brought
out; `KnetEventsLost` shows it.

`KnetNapiProofs` proves, for chains of any length and any weights (`NapiAssumption`), also if
the base device may be closed with NAPI:

| Theorem | Statement |
|---|---|
| `NapiTypeCorrect` | `Spec => []TypeOK` |
| `InterruptArmedCorrect` | `Spec => []InterruptArmed` |
| `QuietCorrect` | `Spec => []QuietWhilePolling` |
| `PacketAnnouncedCorrect` | `WholeChain => (Spec => []PacketAnnounced)` |

`MaskInv` says that the hardware mask is the driver's when no handler and no poll is active, and
that a channel whose mask was never set has no status.  `PacketInv` says that packets of a
ring without a status bit are within the budget of a caller that is still looking
(`Looking`): this is where a weight below the chain's length would break it (`WholeChain`).

`KnetTablesProofs` proves, for any number of processes, interfaces, filters, packets and
channels and any contents of filters (`TablesAssumption`), in SKB mode (`use_rx_skb`), with
`KnownIdsOnly` and `FewFailures` (`MaxFails + 1 < NDEVS_CHUNK`):

| Theorem | Statement |
|---|---|
| `TablesTypeCorrect` | `Spec => []TypeOK` |
| `LookupRightCorrect` | `Spec => []LookupRight` |
| `NoFreedUseCorrect` | `Spec => []NoFreedUse` |
| `RightFilterCorrect` | `Spec => RightFilter` |
| `DeliveredRightCorrect` | `Spec => DeliveredRight` |

`IfaceInv` says that IDs rise along the list and pass the end of the array by no more than the
failures to let it grow: with `FewFailures` the one chunk that `bkn_knet_netif_create` adds is
then always enough for the ID it is added for, and the write to the new array stays inside it.
`FilterInv` orders the list by priority and, within a priority, by creation, which makes the
first match of the search the right one.  `DutyInv` says that what a process is about to free
is in no table and is no other process's to free, and `RxInv` what a packet in the unlocked
window refers to and which copies were made.

So every safety property of the passing runs has a theorem.  Only model-checked are the liveness
properties (`PacketsLeave`, `QueuesResume`, `PacketsTaken`, `ChannelRestarts`,
`EventsDelivered`, `UserServed`, `KnetServed`): temporal reasoning about fairness and ENABLED is
out of the prover's reach.

## 5. Not modelled

* Packet bytes: RCPU encapsulation, VLAN tags, Dune headers, padding, proc files, dumps, and
  statistics counters.  Nothing in the models depends on them.
* Register layouts, PCI, iProc and MDIO set-up, SPI and I2C, device probing and hot-plug:
  register and bus I/O, or calls of the kernel, without a protocol of their own.  This is
  most of `linux-kernel-bde.c`.
* `knet-cb`, `ksal`, `gmodule`: stateless wrappers; that a call-back may consume an SKB is in
  `KnetRx` and `KnetTx`.
* The OpenNSL library (binary), its headers, the examples, and the vendored JSON parser: they
  are most of the repository's lines, and hold no code of the running system.
* Continuous DMA: how the engine behaves at a halt address that moves is a property of the
  hardware which the source does not tell.
* Rx in API mode (`bkn_do_api_rx`): as a chain it is a ring that the application fills;
  only its use of a filter after the unlocked call is in `KnetTables` (`use_rx_skb`).
* Rx rate control: `KnetRx` lets a refill post any number of buffers, which covers every
  amount of tokens; the arithmetic itself is not checked.
* Unloading of KNET beyond its interrupts, WB_CLEANUP, `dev_reprobe`: rings and timers at unload.
* `dmaalloc=0`, `himem`, a system without a DMA pool (`dmasize=0`), blocks of 0 bytes; devices
  that are plugged in after instances were made; processes without an instance.

## 6. Running

`tlc -config KnetTx.cfg MCKnetTx` and so on for the other configurations; `tlapm
KnetTxProofs.tla`, and so on for the other `*Proofs` modules.  The longest run
takes between two and three minutes on two workers.
