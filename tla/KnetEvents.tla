----------------------------- MODULE KnetEvents -----------------------------
(***************************************************************************)
(* How DMA events reach the BCM API.  The interrupt handler of a device    *)
(* records an event (sinfo->dma_events), counts it in the event queue of   *)
(* the device's instance and wakes the queue.  bkn_get_next_dma_event,     *)
(* called by the event thread or by an ioctl of each user process, scans   *)
(* the devices of the caller's instance, returns the first event it finds, *)
(* and sleeps on the queue when a whole round finds nothing.               *)
(*                                                                         *)
(* The scan takes a device's lock only to take an event from it.  The      *)
(* place where a round ends, last_dev_no, is a static variable: all        *)
(* callers share it.                                                       *)
(***************************************************************************)
EXTENDS Integers, FiniteSets

CONSTANTS
    Units,          \* devices KNET has a sinfo for, numbered from 0
    Callers,        \* threads in bkn_get_next_dma_event
    Mask,           \* the units in each device's inst_id, {} for inst_id 0
    Asks,           \* units each caller may put in kmsg->hdr.unit
    OvertakenTwice, \* two handlers may count between the read and the write of a third
    MaxEvents       \* bound: events in a behaviour

ASSUME EventsAssumption ==
    /\ IsFiniteSet(Units) /\ Units = 0 .. Cardinality(Units) - 1 /\ 0 \in Units
    /\ Mask \in [Units -> SUBSET Units]
    /\ \A d, e \in Units : e \in Mask[d] => Mask[e] = Mask[d]
    /\ (\A d \in Units : d \in Mask[d]) \/ (\A d \in Units : Mask[d] = {})
    /\ Asks \in [Callers -> SUBSET Units]
    /\ OvertakenTwice \in BOOLEAN
    /\ MaxEvents \in Nat

VARIABLES
    dma_events,     \* devices with sinfo->dma_events # 0
    put, get,       \* evt_wq_put and evt_wq_get of each event queue
    isr,            \* where the handler of each device is, and the count it has read
    last_dev_no,    \* the static variable
    pc,             \* where each caller is
    dev_evt, dev_no,\* the unit each caller asks for, and the device it looks at
    raised          \* events so far

vars == <<dma_events, put, get, isr, last_dev_no, pc, dev_evt, dev_no, raised>>
queues == <<put, get>>
callers == <<pc, dev_evt, dev_no>>

-----------------------------------------------------------------------------
\* The devices of an instance share an event queue; inst_id 0 is legacy mode, with one
\* queue for all devices.
Queues == {Mask[d] : d \in Units}
QueueOf(c) == Mask[dev_evt[c]]

\* A caller skips the devices of other instances.
Skips(c, d) == Mask[d] # {} /\ dev_evt[c] \notin Mask[d]

Idle == [at |-> "idle", read |-> 0]

Init ==
    /\ dma_events = {}
    /\ put = [q \in Queues |-> 0] /\ get = [q \in Queues |-> 0]
    /\ isr = [d \in Units |-> Idle]
    /\ last_dev_no = 0
    /\ pc = [c \in Callers |-> "user"]
    /\ dev_evt \in {f \in [Callers -> Units] : \A c \in Callers : f[c] \in Asks[c]}
    /\ dev_no = [c \in Callers |-> 0]
    /\ raised = 0

-----------------------------------------------------------------------------
(* The interrupt handler of device d, under the lock of d.  Handlers of two *)
(* devices of one queue run in parallel, and evt_wq_put++ is not atomic.    *)

\* The lock of d is free: its handler is the only one that keeps it for several steps.
LockFree(d) == isr[d].at = "idle"

IsrEvent(d) ==
    /\ LockFree(d) /\ raised < MaxEvents
    /\ dma_events' = dma_events \union {d}
    /\ isr' = [isr EXCEPT ![d].at = "count"]
    /\ raised' = raised + 1
    /\ UNCHANGED <<queues, last_dev_no, callers>>

IsrCount(d) ==
    /\ isr[d].at = "count"
    /\ isr' = [isr EXCEPT ![d] = [at |-> "store", read |-> put[Mask[d]]]]
    /\ UNCHANGED <<dma_events, queues, last_dev_no, callers, raised>>

\* Nobody who will write the count read an older one.
LastToRead(d) ==
    \A e \in Units : isr[e].at = "store" /\ Mask[e] = Mask[d] => isr[d].read <= isr[e].read

IsrStore(d) ==
    /\ isr[d].at = "store"
    /\ OvertakenTwice \/ LastToRead(d)
    /\ put' = [put EXCEPT ![Mask[d]] = isr[d].read + 1]
    /\ isr' = [isr EXCEPT ![d] = [at |-> "wake", read |-> 0]]
    /\ UNCHANGED <<dma_events, get, last_dev_no, callers, raised>>

\* Mutant: only the callers that asked for the device itself are woken.
WokenOwn(d) == {c \in Callers : pc[c] = "asleep" /\ dev_evt[c] = d}

\* wake_up_interruptible: the sleepers of the queue check their condition again.
Woken(d) == {c \in Callers : pc[c] = "asleep" /\ QueueOf(c) = Mask[d]}

IsrWake(d) ==
    /\ isr[d].at = "wake"
    /\ pc' = [c \in Callers |-> IF c \in Woken(d) THEN "wait" ELSE pc[c]]
    /\ isr' = [isr EXCEPT ![d] = Idle]
    /\ UNCHANGED <<dma_events, queues, last_dev_no, dev_evt, dev_no, raised>>

-----------------------------------------------------------------------------
(* bkn_get_next_dma_event.                                                 *)

\* The next device; device 0 after the last.
After(d) == IF d + 1 \in Units THEN d + 1 ELSE 0

\* dev_no is a local variable: it means nothing outside the call.
Left(c) == dev_no' = [dev_no EXCEPT ![c] = dev_evt[c]]

Go(c, to) == pc' = [pc EXCEPT ![c] = to]

Call(c) ==
    /\ pc[c] = "user"
    /\ \E u \in Asks[c] :
          /\ dev_evt' = [dev_evt EXCEPT ![c] = u]
          /\ dev_no' = [dev_no EXCEPT ![c] = u]
          /\ last_dev_no' = u
    /\ Go(c, "scan")
    /\ UNCHANGED <<dma_events, queues, isr, raised>>

\* The next device is skipped, or its events are looked at without its lock.
Scan(c) ==
    /\ pc[c] = "scan"
    /\ LET d == After(dev_no[c]) IN
          /\ dev_no' = [dev_no EXCEPT ![c] = d]
          /\ Go(c, IF d \in Units /\ Skips(c, d) THEN "scan" ELSE IF d \in dma_events THEN "take" ELSE "round")
    /\ UNCHANGED <<dma_events, queues, isr, last_dev_no, dev_evt, raised>>

\* The events of the device are taken, with its lock.
Take(c) ==
    /\ pc[c] = "take" /\ LockFree(dev_no[c])
    /\ dma_events' = dma_events \ {dev_no[c]}
    /\ Go(c, "took")
    /\ UNCHANGED <<queues, isr, last_dev_no, dev_evt, dev_no, raised>>

Return(c) ==
    /\ pc[c] = "took"
    /\ last_dev_no' = dev_no[c]
    /\ Go(c, "user") /\ Left(c)
    /\ UNCHANGED <<dma_events, queues, isr, dev_evt, raised>>

\* The end of a round is where the static variable says.
Round(c) ==
    /\ pc[c] = "round"
    /\ Go(c, IF dev_no[c] = last_dev_no THEN "wait" ELSE "scan")
    /\ UNCHANGED <<dma_events, queues, isr, last_dev_no, dev_evt, dev_no, raised>>

\* wait_event_interruptible: sleep unless events were counted since the last time.
Counted(c) == get[QueueOf(c)] # put[QueueOf(c)]
Wait(c) ==
    /\ pc[c] = "wait"
    /\ Go(c, IF Counted(c) THEN "woken" ELSE "asleep")
    /\ UNCHANGED <<dma_events, queues, isr, last_dev_no, dev_evt, dev_no, raised>>

\* A signal interrupts the sleep, or is found pending after it: nothing is returned.
Signal(c) ==
    /\ pc[c] \in {"asleep", "woken"}
    /\ Go(c, "user") /\ Left(c)
    /\ UNCHANGED <<dma_events, queues, isr, last_dev_no, dev_evt, raised>>

\* Mutant: a caller that was woken waits for the next event without another round.
ResumeInSleep(c) ==
    /\ pc[c] = "woken"
    /\ get' = [get EXCEPT ![QueueOf(c)] = put[QueueOf(c)]]
    /\ Go(c, "wait")
    /\ UNCHANGED <<dma_events, put, isr, last_dev_no, dev_evt, dev_no, raised>>

\* The events counted so far are marked as seen, before the round that looks for them.
Resume(c) ==
    /\ pc[c] = "woken"
    /\ get' = [get EXCEPT ![QueueOf(c)] = put[QueueOf(c)]]
    /\ Go(c, "scan")
    /\ UNCHANGED <<dma_events, put, isr, last_dev_no, dev_evt, dev_no, raised>>

-----------------------------------------------------------------------------
IsrStep(d) == IsrCount(d) \/ IsrStore(d) \/ IsrWake(d)
CallerStep(c) ==
    Call(c) \/ Scan(c) \/ Take(c) \/ Return(c) \/ Round(c) \/ Wait(c) \/ Resume(c)

Next ==
    \/ \E d \in Units : IsrEvent(d) \/ IsrStep(d)
    \/ \E c \in Callers : CallerStep(c) \/ Signal(c)

Spec == Init /\ [][Next]_vars

\* A handler that has begun runs to its end, and a caller is scheduled; nothing makes a
\* signal or an event come.
Fairness ==
    /\ \A d \in Units : WF_vars(IsrStep(d))
    /\ \A c \in Callers : WF_vars(CallerStep(c))

FairSpec == Spec /\ Fairness

-----------------------------------------------------------------------------
\* Types, and: a caller looks at and takes events of devices of its own instance only
\* (bkn_get_next_dma_event 7156-7160).
TypeOK ==
    /\ dma_events \subseteq Units
    /\ put \in [Queues -> Nat] /\ get \in [Queues -> Nat]
    /\ isr \in [Units -> [at : {"idle", "count", "store", "wake"}, read : Nat]]
    /\ last_dev_no \in Units
    /\ pc \in [Callers -> {"user", "scan", "take", "took", "round", "wait", "woken", "asleep"}]
    /\ dev_evt \in [Callers -> Units] /\ dev_no \in [Callers -> Units]
    /\ \A c \in Callers : pc[c] \in {"take", "took", "round"} => ~Skips(c, dev_no[c])
    /\ raised \in 0 .. MaxEvents

\* No wakeup is lost: when a caller sleeps and none of the handlers of its queue is about
\* to wake it, no device of its queue has an event.  The counters are read and written
\* without a lock (bkn_get_next_dma_event 7175-7186 against the evt_wq_put++ of handlers of
\* several devices, 3399 and its like), so neither counts every event: what keeps the
\* promise is that the event is recorded before it is counted, and the count marked as
\* seen before the round that looks.  It holds as long as the count never goes down, and so
\* for handlers that are overtaken at most once.
NoLostWakeup ==
    \A c \in Callers :
        pc[c] = "asleep" =>
            \A d \in Units :
                (d \in dma_events /\ Mask[d] = QueueOf(c)) =>
                    \E e \in Units : Mask[e] = Mask[d] /\ isr[e].at # "idle"

\* Every event is taken: a device that has recorded an event has it fetched by the caller
\* of its instance (bkn_get_next_dma_event 7162-7169), whatever the other instance does.
EventsDelivered == \A d \in Units : d \in dma_events ~> d \notin dma_events

\* A caller with nothing to fetch sleeps on its queue: it does not stay in the loop of
\* bkn_get_next_dma_event (7148-7188).
CallersWait == \A c \in Callers : pc[c] = "scan" ~> pc[c] \in {"asleep", "user"}
=============================================================================
