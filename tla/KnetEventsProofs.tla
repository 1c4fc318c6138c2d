-------------------------- MODULE KnetEventsProofs --------------------------
(***************************************************************************)
(* Proofs about DMA events (KnetEvents): for any number of devices and     *)
(* events, any division of the devices into instances, each with one       *)
(* caller, no wakeup is lost, although handlers of several devices change  *)
(* evt_wq_put without a common lock.                                       *)
(***************************************************************************)
EXTENDS KnetEvents, FiniteSetTheorems, TLAPS

\* No instance has two callers.
OneCaller ==
    \A c, e \in Callers : \A u \in Asks[c], v \in Asks[e] : c # e => Mask[u] # Mask[v]

\* The last device.
Last == Cardinality(Units) - 1

-----------------------------------------------------------------------------
(* Devices and queues.                                                     *)

\* Devices are numbered from 0.
LEMMA UnitsInterval == Last \in Nat /\ Units = 0 .. Last
<1>1. Cardinality(Units) \in Nat
  BY EventsAssumption, FS_CardinalityType
<1>2. Units = 0 .. Last /\ 0 \in Units
  BY EventsAssumption DEF Last
<1>3. QED
  BY <1>1, <1>2 DEF Last

\* The device after the last is device 0.
LEMMA AfterUnit ==
    ASSUME NEW d \in Units
    PROVE  After(d) \in Units /\ After(d) = IF d = Last THEN 0 ELSE d + 1
BY UnitsInterval DEF After

\* A caller looks at the devices of its queue and skips the others.
LEMMA OwnQueue ==
    ASSUME NEW c \in Callers, dev_evt[c] \in Units, NEW d \in Units
    PROVE  /\ QueueOf(c) \in Queues /\ Mask[d] \in Queues
           /\ Skips(c, d) <=> Mask[d] # QueueOf(c)
<1>1. Mask[d] \in SUBSET Units /\ Mask[dev_evt[c]] \in SUBSET Units
  BY EventsAssumption
<1>2. \A x, y \in Units : y \in Mask[x] => Mask[y] = Mask[x]
  BY EventsAssumption
<1>3. (\A x \in Units : x \in Mask[x]) \/ (\A x \in Units : Mask[x] = {})
  BY EventsAssumption
<1>4. QED
  BY <1>1, <1>2, <1>3 DEF Queues, QueueOf, Skips

-----------------------------------------------------------------------------
(* Types.                                                                  *)

Places == {"user", "scan", "take", "took", "round", "wait", "woken", "asleep"}

\* Every step keeps the types.
LEMMA TypeStep ==
    ASSUME TypeOK, [Next]_vars
    PROVE  TypeOK'
<1> USE DEF queues, callers, Idle, Go, Left
<1>1. ASSUME NEW d \in Units, IsrEvent(d) PROVE TypeOK'
  <2>1. raised' \in 0 .. MaxEvents
    BY <1>1, EventsAssumption DEF TypeOK, IsrEvent
  <2>2. QED
    BY <1>1, <2>1 DEF TypeOK, IsrEvent, Skips
<1>2. ASSUME NEW d \in Units, IsrCount(d) PROVE TypeOK'
  <2>1. Mask[d] \in Queues
    BY DEF Queues
  <2>2. put[Mask[d]] \in Nat
    BY <2>1 DEF TypeOK
  <2>3. QED
    BY <1>2, <2>2 DEF TypeOK, IsrCount, Skips
<1>3. ASSUME NEW d \in Units, IsrStore(d) PROVE TypeOK'
  <2>1. isr[d].read + 1 \in Nat
    BY DEF TypeOK
  <2>2. put' \in [Queues -> Nat]
    BY <1>3, <2>1 DEF TypeOK, IsrStore
  <2>3. QED
    BY <1>3, <2>2 DEF TypeOK, IsrStore, Skips
<1>4. ASSUME NEW d \in Units, IsrWake(d) PROVE TypeOK'
  <2>1. pc' \in [Callers -> Places]
    BY <1>4 DEF TypeOK, IsrWake, Places
  <2>2. \A c \in Callers : pc'[c] \in {"take", "took", "round"} => pc[c] = pc'[c]
    BY <1>4 DEF TypeOK, IsrWake
  <2>3. QED
    BY <1>4, <2>1, <2>2 DEF TypeOK, IsrWake, Skips, Places
<1>5. ASSUME NEW c \in Callers, Call(c) PROVE TypeOK'
  <2>1. PICK u \in Asks[c] : /\ dev_evt' = [dev_evt EXCEPT ![c] = u]
                             /\ dev_no' = [dev_no EXCEPT ![c] = u]
                             /\ last_dev_no' = u
    BY <1>5 DEF Call
  <2>2. u \in Units
    BY EventsAssumption
  <2>3. QED
    BY <1>5, <2>1, <2>2 DEF TypeOK, Call, Skips
<1>6. ASSUME NEW c \in Callers, Scan(c) PROVE TypeOK'
  <2> DEFINE d == After(dev_no[c])
             to == IF d \in Units /\ Skips(c, d) THEN "scan"
                   ELSE IF d \in dma_events THEN "take" ELSE "round"
  <2>1. dev_no' = [dev_no EXCEPT ![c] = d] /\ pc' = [pc EXCEPT ![c] = to]
    BY <1>6 DEF Scan
  <2>2. d \in Units
    BY AfterUnit DEF TypeOK
  <2>3. to \in Places /\ (to \in {"take", "took", "round"} => ~Skips(c, d))
    BY <2>2 DEF Places
  <2> HIDE DEF d, to
  <2>4. pc' \in [Callers -> Places] /\ dev_no' \in [Callers -> Units]
    BY <2>1, <2>2, <2>3 DEF TypeOK, Places
  <2>5. \A e \in Callers : pc'[e] \in {"take", "took", "round"} => ~Skips(e, dev_no'[e])
    BY <2>1, <2>3 DEF TypeOK
  <2>6. UNCHANGED <<dma_events, queues, isr, last_dev_no, dev_evt, raised>>
    BY <1>6 DEF Scan
  <2>7. QED
    BY <2>4, <2>5, <2>6 DEF TypeOK, Skips, Places
<1>7. ASSUME NEW c \in Callers, Take(c) PROVE TypeOK'
  BY <1>7 DEF TypeOK, Take, Skips
<1>8. ASSUME NEW c \in Callers, Return(c) PROVE TypeOK'
  BY <1>8 DEF TypeOK, Return, Skips
<1>9. ASSUME NEW c \in Callers, Round(c) PROVE TypeOK'
  BY <1>9 DEF TypeOK, Round, Skips
<1>10. ASSUME NEW c \in Callers, Wait(c) PROVE TypeOK'
  BY <1>10 DEF TypeOK, Wait, Skips
<1>11. ASSUME NEW c \in Callers, Signal(c) PROVE TypeOK'
  BY <1>11 DEF TypeOK, Signal, Skips
<1>12. ASSUME NEW c \in Callers, Resume(c) PROVE TypeOK'
  <2>1. put[QueueOf(c)] \in Nat
    BY DEF TypeOK, QueueOf, Queues
  <2>2. QED
    BY <1>12, <2>1 DEF TypeOK, Resume, Skips
<1>13. CASE UNCHANGED vars
  BY <1>13 DEF TypeOK, vars, Skips
<1>14. QED
  BY <1>1, <1>2, <1>3, <1>4, <1>5, <1>6, <1>7, <1>8, <1>9, <1>10, <1>11, <1>12, <1>13
     DEF Next, IsrStep, CallerStep

\* Queues, handlers and callers stay in their types, and a caller takes events only of
\* devices of its own instance.
THEOREM EventsTypeCorrect == Spec => []TypeOK
<1>1. Init => TypeOK
  <2> SUFFICES ASSUME Init PROVE TypeOK
    OBVIOUS
  <2>1. dev_evt \in [Callers -> Units] /\ 0 \in Units /\ MaxEvents \in Nat
    BY EventsAssumption DEF Init
  <2>2. QED
    BY <2>1 DEF Init, TypeOK, Idle
<1>2. QED
  BY <1>1, TypeStep, PTL DEF Spec

-----------------------------------------------------------------------------
(* Wakeups.                                                                *)

\* What a handler will write is at most one less than what it should: the count does not
\* decrease, and no caller has seen more than was counted.
CountInv ==
    /\ \A d \in Units : isr[d].at = "store" =>
         put[Mask[d]] \in {isr[d].read, isr[d].read + 1}
    /\ \A q \in Queues : get[q] <= put[q]

\* x comes after a and not after b, when devices are counted from a on.
Within(a, x, b) == IF a < b THEN a < x /\ x <= b ELSE x > a \/ x <= b

\* A round starts after the device that the caller asks for, and ends with it.
Looked(c, x) ==
    \/ pc[c] = "scan" /\ dev_no[c] # dev_evt[c] /\ Within(dev_evt[c], x, dev_no[c])
    \/ pc[c] = "round" /\ Within(dev_evt[c], x, dev_no[c])
    \/ pc[c] \in {"wait", "asleep"}

\* An event of a device that was looked at before it came will be counted, on top of what
\* the caller has seen, or was.
Noticed(c, x) ==
    x \in dma_events =>
        \/ isr[x].at = "count"
        \/ isr[x].at = "store" /\ get[QueueOf(c)] <= isr[x].read
        \/ get[QueueOf(c)] < put[QueueOf(c)]

Inside == {"scan", "round", "wait", "woken", "asleep"}

\* The end of a round is the caller's own; handlers that counted since are about to wake.
CallerInv(c) ==
    /\ dev_evt[c] \in Asks[c]
    /\ pc[c] \in {"wait", "woken", "asleep"} => dev_no[c] = dev_evt[c]
    /\ pc[c] \in Inside /\ Mask[last_dev_no] = QueueOf(c) => last_dev_no = dev_evt[c]
    /\ \A x \in Units : Mask[x] = QueueOf(c) /\ Looked(c, x) => Noticed(c, x)
    /\ pc[c] = "asleep" /\ Counted(c) =>
         \E e \in Units : Mask[e] = QueueOf(c) /\ isr[e].at = "wake"

WakeInv == TypeOK /\ CountInv /\ \A c \in Callers : CallerInv(c)

\* A step that leaves a caller where it is keeps what holds for it, as long as handlers
\* that counted are still there and nobody else enters the caller's queue.
LEMMA CallerKept ==
    ASSUME WakeInv, NEW c \in Callers,
           pc'[c] = pc[c], dev_evt'[c] = dev_evt[c], dev_no'[c] = dev_no[c],
           get'[QueueOf(c)] = get[QueueOf(c)],
           put[QueueOf(c)] <= put'[QueueOf(c)], put'[QueueOf(c)] \in Nat,
           last_dev_no' = last_dev_no \/ Mask[last_dev_no'] # QueueOf(c),
           \A x \in Units : Mask[x] = QueueOf(c) =>
              /\ x \in dma_events' => x \in dma_events \/ isr'[x].at = "count"
              /\ isr[x].at = "count" =>
                   \/ isr'[x].at = "count"
                   \/ isr'[x].at = "store" /\ get[QueueOf(c)] <= isr'[x].read
              /\ isr[x].at = "store" => isr'[x] = isr[x]
              /\ pc[c] = "asleep" /\ isr[x].at = "wake" => isr'[x].at = "wake",
           pc[c] = "asleep" /\ put'[QueueOf(c)] # put[QueueOf(c)] =>
              \E e \in Units : Mask[e] = QueueOf(c) /\ isr'[e].at = "wake"
    PROVE  CallerInv(c)'
<1> DEFINE q == QueueOf(c)
<1>1. QueueOf(c)' = q /\ CallerInv(c) /\ q \in Queues
  BY DEF QueueOf, WakeInv, TypeOK, Queues
<1>2. get[q] \in Nat /\ put[q] \in Nat /\ get[q] <= put[q]
  BY <1>1 DEF WakeInv, TypeOK, CountInv
<1>3. ASSUME NEW x \in Units, Mask[x] = q, Looked(c, x)' PROVE Noticed(c, x)'
  <2>1. Looked(c, x) /\ Noticed(c, x)
    BY <1>1, <1>3 DEF CallerInv, Looked
  <2>2. QED
    BY <1>1, <1>2, <1>3, <2>1 DEF Noticed
<1>4. pc'[c] = "asleep" /\ Counted(c)' =>
        \E e \in Units : Mask[e] = q /\ isr'[e].at = "wake"
  BY <1>1, <1>2 DEF CallerInv, Counted
<1>5. QED
  BY <1>1, <1>3, <1>4 DEF CallerInv

\* Steps of handlers.
LEMMA HandlerStep ==
    ASSUME WakeInv, ~OvertakenTwice, NEW d \in Units, IsrEvent(d) \/ IsrStep(d), TypeOK'
    PROVE  WakeInv'
<1> USE DEF queues, callers, Idle
<1>1. /\ Mask[d] \in Queues
      /\ \A c \in Callers : /\ QueueOf(c) \in Queues /\ put[QueueOf(c)] \in Nat
                            /\ get[QueueOf(c)] \in Nat
  BY DEF WakeInv, TypeOK, Queues, QueueOf
<1>2. CASE IsrEvent(d)
  <2>1. CountInv'
    BY <1>2 DEF WakeInv, TypeOK, CountInv, IsrEvent
  <2>2. ASSUME NEW c \in Callers PROVE CallerInv(c)'
    <3>1. isr' = [isr EXCEPT ![d].at = "count"] /\ isr[d].at = "idle"
          /\ dma_events' = dma_events \cup {d}
          /\ UNCHANGED <<queues, last_dev_no, callers>>
      BY <1>2 DEF IsrEvent, LockFree
    <3>2. \A x \in Units : IF x = d THEN isr'[x].at = "count" ELSE isr'[x] = isr[x]
      BY <3>1 DEF WakeInv, TypeOK
    <3>3. QED
      BY <1>1, <3>1, <3>2, CallerKept
  <2>3. QED
    BY <2>1, <2>2 DEF WakeInv
<1>3. CASE IsrCount(d)
  <2>1. isr' = [isr EXCEPT ![d] = [at |-> "store", read |-> put[Mask[d]]]]
        /\ isr[d].at = "count" /\ UNCHANGED <<dma_events, queues, last_dev_no, callers>>
    BY <1>3 DEF IsrCount
  <2>2. \A x \in Units : IF x = d THEN isr'[x].at = "store" /\ isr'[x].read = put[Mask[d]]
                         ELSE isr'[x] = isr[x]
    BY <2>1 DEF WakeInv, TypeOK
  <2>3. CountInv'
    BY <2>1, <2>2 DEF WakeInv, CountInv
  <2>4. ASSUME NEW c \in Callers PROVE CallerInv(c)'
    <3>1. get[QueueOf(c)] <= put[QueueOf(c)]
      BY <1>1 DEF WakeInv, CountInv
    <3>2. QED
      BY <1>1, <2>1, <2>2, <3>1, CallerKept
  <2>5. QED
    BY <2>3, <2>4 DEF WakeInv
<1>4. CASE IsrStore(d)
  <2> DEFINE q == Mask[d]
  <2>1. /\ put' = [put EXCEPT ![q] = isr[d].read + 1]
        /\ isr' = [isr EXCEPT ![d] = [at |-> "wake", read |-> 0]] /\ isr[d].at = "store"
        /\ UNCHANGED <<dma_events, get, last_dev_no, callers>>
        /\ \A e \in Units : isr[e].at = "store" /\ Mask[e] = q => isr[d].read <= isr[e].read
    BY <1>4 DEF IsrStore, LastToRead
  <2>2. \A x \in Units : IF x = d THEN isr'[x].at = "wake" ELSE isr'[x] = isr[x]
    BY <2>1 DEF WakeInv, TypeOK
  <2>3. /\ put'[q] = isr[d].read + 1
        /\ \A r \in Queues : r # q => put'[r] = put[r]
    BY <1>1, <2>1 DEF WakeInv, TypeOK
  <2>4. /\ put[q] \in {isr[d].read, isr[d].read + 1} /\ isr[d].read \in Nat
        /\ put[q] \in Nat /\ get[q] \in Nat /\ get[q] <= put[q]
    BY <1>1, <2>1 DEF WakeInv, TypeOK, CountInv
  <2>5. CountInv'
    <3>1. ASSUME NEW e \in Units, isr'[e].at = "store"
          PROVE  put'[Mask[e]] \in {isr'[e].read, isr'[e].read + 1}
      <4>1. e # d /\ isr'[e] = isr[e]
        BY <2>2, <3>1
      <4>2. put[Mask[e]] \in {isr[e].read, isr[e].read + 1} /\ isr[e].read \in Nat
            /\ Mask[e] \in Queues
        BY <3>1, <4>1 DEF WakeInv, TypeOK, CountInv, Queues
      <4>3. CASE Mask[e] = q
        <5>1. isr[d].read <= isr[e].read
          BY <2>1, <3>1, <4>1, <4>3
        <5>2. QED
          BY <2>3, <2>4, <4>1, <4>2, <4>3, <5>1
      <4>4. CASE Mask[e] # q
        BY <2>3, <4>1, <4>2, <4>4
      <4>5. QED
        BY <4>3, <4>4
    <3>2. ASSUME NEW r \in Queues PROVE get'[r] <= put'[r]
      BY <2>1, <2>3, <2>4, <3>2 DEF WakeInv, CountInv
    <3>3. QED
      BY <3>1, <3>2 DEF CountInv
  <2>6. ASSUME NEW c \in Callers PROVE CallerInv(c)'
    <3>1. CASE QueueOf(c) # q
      <4>1. put'[QueueOf(c)] = put[QueueOf(c)]
        BY <1>1, <2>3, <3>1
      <4>2. \A x \in Units : Mask[x] = QueueOf(c) => isr'[x] = isr[x]
        BY <2>2, <3>1
      <4>3. QED
        BY <1>1, <2>1, <4>1, <4>2, CallerKept
    <3>2. CASE QueueOf(c) = q
      <4>1. CallerInv(c) /\ QueueOf(c)' = q /\ isr'[d].at = "wake"
        BY <2>1, <2>2, <3>2 DEF WakeInv, QueueOf
      <4>2. ASSUME NEW x \in Units, Mask[x] = q, Looked(c, x)' PROVE Noticed(c, x)'
        <5>1. Looked(c, x) /\ Noticed(c, x)
          BY <2>1, <3>2, <4>1, <4>2 DEF CallerInv, Looked
        <5>2. CASE x = d
          <6>1. x \in dma_events => get[q] < put'[q]
            BY <2>1, <2>3, <2>4, <3>2, <5>1, <5>2 DEF Noticed
          <6>2. QED
            BY <2>1, <4>1, <6>1 DEF Noticed
        <5>3. CASE x # d
          <6>1. isr'[x] = isr[x]
            BY <2>2, <5>3
          <6>2. CASE isr[x].at = "store" /\ get[q] <= isr[x].read
            BY <2>1, <4>1, <6>1, <6>2 DEF Noticed
          <6>3. CASE get[q] < put[q]
            <7>1. get[q] < put'[q]
              BY <2>3, <2>4, <6>3
            <7>2. QED
              BY <2>1, <4>1, <7>1 DEF Noticed
          <6>4. CASE isr[x].at = "count" \/ x \notin dma_events
            BY <2>1, <6>1, <6>4 DEF Noticed
          <6>5. QED
            BY <3>2, <5>1, <6>2, <6>3, <6>4 DEF Noticed
        <5>4. QED
          BY <5>2, <5>3
      <4>3. UNCHANGED <<pc, dev_evt, dev_no, last_dev_no>>
        BY <2>1
      <4>4. \E e \in Units : Mask[e] = q /\ isr'[e].at = "wake"
        BY <4>1
      <4>5. QED
        BY <3>2, <4>1, <4>2, <4>3, <4>4 DEF CallerInv
    <3>3. QED
      BY <3>1, <3>2
  <2>7. QED
    BY <2>5, <2>6 DEF WakeInv
<1>5. CASE IsrWake(d)
  <2>1. /\ pc' = [c \in Callers |-> IF c \in Woken(d) THEN "wait" ELSE pc[c]]
        /\ isr' = [isr EXCEPT ![d] = Idle] /\ isr[d].at = "wake"
        /\ UNCHANGED <<dma_events, queues, last_dev_no, dev_evt, dev_no>>
    BY <1>5 DEF IsrWake
  <2>2. \A x \in Units : IF x = d THEN isr'[x].at = "idle" ELSE isr'[x] = isr[x]
    BY <2>1 DEF WakeInv, TypeOK
  <2>3. CountInv'
    BY <2>1, <2>2 DEF WakeInv, CountInv
  <2>4. ASSUME NEW c \in Callers PROVE CallerInv(c)'
    <3>1. CASE c \in Woken(d)
      <4>1. /\ pc[c] = "asleep" /\ pc'[c] = "wait" /\ CallerInv(c)
            /\ QueueOf(c)' = QueueOf(c)
        BY <2>1, <3>1 DEF Woken, WakeInv, QueueOf
      <4>2. ASSUME NEW x \in Units, Mask[x] = QueueOf(c) PROVE Noticed(c, x)'
        <5>1. Noticed(c, x)
          BY <4>1, <4>2 DEF CallerInv, Looked
        <5>2. QED
          BY <2>1, <2>2, <4>1, <5>1 DEF Noticed
      <4>3. QED
        BY <2>1, <4>1, <4>2 DEF CallerInv, Inside
    <3>2. CASE c \notin Woken(d)
      <4>1. pc'[c] = pc[c] /\ (pc[c] = "asleep" => QueueOf(c) # Mask[d])
        BY <2>1, <3>2 DEF Woken
      <4>2. QED
        BY <1>1, <2>1, <2>2, <4>1, CallerKept
    <3>3. QED
      BY <3>1, <3>2
  <2>5. QED
    BY <2>3, <2>4 DEF WakeInv
<1>6. QED
  BY <1>2, <1>3, <1>4, <1>5 DEF IsrStep

\* The devices between a and the one after d.
LEMMA WithinAfter ==
    ASSUME NEW a \in Units, NEW d \in Units, NEW x \in Units
    PROVE  /\ Within(a, x, a)
           /\ d = a /\ Within(a, x, After(d)) => x = After(d)
           /\ d # a /\ Within(a, x, After(d)) => Within(a, x, d) \/ x = After(d)
<1>1. /\ After(d) = IF d = Last THEN 0 ELSE d + 1
      /\ a \in 0 .. Last /\ d \in 0 .. Last /\ x \in 0 .. Last /\ Last \in Nat
  BY UnitsInterval, AfterUnit
<1>2. Within(a, x, a)
  BY <1>1 DEF Within
<1>3. CASE d = Last
  BY <1>1, <1>2, <1>3 DEF Within
<1>4. CASE d # Last
  BY <1>1, <1>2, <1>4 DEF Within
<1>5. QED
  BY <1>3, <1>4

\* A step of a caller leaves the other callers alone.
LEMMA OthersKept ==
    ASSUME WakeInv, OneCaller, TypeOK', NEW c \in Callers, CallerStep(c) \/ Signal(c),
           NEW e \in Callers, e # c
    PROVE  CallerInv(e)'
<1> USE DEF queues, callers, Go, Left
<1> DEFINE q == QueueOf(e)
<1>1. /\ q \in Queues /\ put[q] \in Nat /\ get[q] \in Nat
      /\ \A u \in Asks[c] : Mask[u] # q
  BY DEF WakeInv, TypeOK, Queues, QueueOf, CallerInv, OneCaller
<1>2. QueueOf(c) # q /\ QueueOf(c) \in Queues
  BY <1>1 DEF WakeInv, TypeOK, CallerInv, QueueOf, Queues
<1>3. /\ pc'[e] = pc[e] /\ dev_evt'[e] = dev_evt[e] /\ dev_no'[e] = dev_no[e]
      /\ dma_events' \subseteq dma_events /\ UNCHANGED <<put, isr>>
  BY DEF WakeInv, TypeOK, CallerStep, Call, Scan, Take, Return, Round, Wait, Resume, Signal
<1>4. get'[q] = get[q]
  BY <1>1, <1>2 DEF CallerStep, Call, Scan, Take, Return, Round, Wait, Resume, Signal,
     WakeInv, TypeOK
<1>5. last_dev_no' = last_dev_no \/ Mask[last_dev_no'] # q
  <2>1. CASE Call(c)
    BY <1>1, <2>1 DEF Call
  <2>2. CASE Return(c)
    <3>1. pc[c] = "took" /\ last_dev_no' = dev_no[c]
      BY <2>2 DEF Return
    <3>2. ~Skips(c, dev_no[c]) /\ dev_no[c] \in Units /\ dev_evt[c] \in Units
      BY <3>1 DEF WakeInv, TypeOK
    <3>3. QED
      BY <1>2, <3>1, <3>2, OwnQueue
  <2>3. CASE ~Call(c) /\ ~Return(c)
    BY <2>3 DEF CallerStep, Scan, Take, Round, Wait, Resume, Signal
  <2>4. QED
    BY <2>1, <2>2, <2>3
<1>6. QED
  BY <1>1, <1>3, <1>4, <1>5, CallerKept

\* A caller that does not look at devices, and one that has just been let in.
LEMMA NothingLooked ==
    ASSUME NEW c \in Callers, dev_evt'[c] \in Asks[c],
           pc'[c] \in {"user", "take", "took", "woken", "scan"},
           pc'[c] \in {"woken", "scan"} => dev_no'[c] = dev_evt'[c],
           pc'[c] \in {"woken", "scan"} /\ Mask[last_dev_no'] = Mask[dev_evt'[c]] =>
              last_dev_no' = dev_evt'[c]
    PROVE  CallerInv(c)'
BY DEF CallerInv, Looked, Inside, QueueOf

\* Steps of a caller keep what holds for it.
LEMMA OwnStep ==
    ASSUME WakeInv, TypeOK', NEW c \in Callers, CallerStep(c) \/ Signal(c)
    PROVE  CallerInv(c)'
<1> USE DEF Go, Left
<1> DEFINE q == QueueOf(c)
<1>1. /\ CallerInv(c) /\ dev_evt[c] \in Units /\ dev_no[c] \in Units /\ pc[c] \in Places
      /\ dev_no \in [Callers -> Units] /\ dev_evt \in [Callers -> Units]
      /\ pc \in [Callers -> Places] /\ last_dev_no \in Units
      /\ q \in Queues /\ put[q] \in Nat /\ get[q] \in Nat
      /\ get \in [Queues -> Nat] /\ put \in [Queues -> Nat] /\ get[q] <= put[q]
  BY DEF WakeInv, TypeOK, CountInv, Places, QueueOf, Queues
<1>2. CASE Call(c)
  <2>1. PICK u \in Asks[c] : dev_evt'[c] = u /\ dev_no'[c] = u /\ last_dev_no' = u
    BY <1>1, <1>2 DEF Call
  <2>2. pc'[c] = "scan"
    BY <1>1, <1>2 DEF Call
  <2>3. QED
    BY <2>1, <2>2, NothingLooked
<1>3. CASE Scan(c)
  <2> DEFINE d == After(dev_no[c])
             to == IF d \in Units /\ Skips(c, d) THEN "scan"
                   ELSE IF d \in dma_events THEN "take" ELSE "round"
  <2>1. /\ pc[c] = "scan" /\ dev_no'[c] = d /\ pc'[c] = to
        /\ UNCHANGED <<dma_events, put, get, isr, last_dev_no, dev_evt>>
    BY <1>1, <1>3 DEF Scan, queues
  <2>2. d \in Units /\ (Skips(c, d) <=> Mask[d] # q)
    BY <1>1, AfterUnit, OwnQueue
  <2>3. to \in {"scan", "take", "round"} /\ (to = "scan" => Mask[d] # q)
        /\ (to = "round" => d \notin dma_events)
    BY <2>2
  <2> HIDE DEF d, to
  <2>4. ASSUME NEW x \in Units, Mask[x] = q, Looked(c, x)' PROVE Noticed(c, x)'
    <3>1. Within(dev_evt[c], x, d)
      BY <2>1, <2>3, <2>4 DEF Looked
    <3>2. CASE x = d
      <4>1. to # "scan" /\ to # "take"
        BY <2>1, <2>3, <2>4, <3>2 DEF Looked
      <4>2. QED
        BY <2>1, <2>3, <3>2, <4>1 DEF Noticed
    <3>3. CASE x # d
      <4>1. dev_no[c] # dev_evt[c] /\ Within(dev_evt[c], x, dev_no[c])
        BY <1>1, <3>1, <3>3, WithinAfter DEF d
      <4>2. Noticed(c, x)
        BY <1>1, <2>1, <2>4, <4>1 DEF CallerInv, Looked
      <4>3. QED
        BY <2>1, <4>2 DEF Noticed, QueueOf
    <3>4. QED
      BY <3>2, <3>3
  <2>5. QED
    BY <1>1, <2>1, <2>3, <2>4 DEF CallerInv, Inside, QueueOf
<1>4. CASE Take(c) \/ Return(c)
  <2>1. pc'[c] \in {"took", "user"} /\ dev_evt' = dev_evt
    BY <1>1, <1>4 DEF Take, Return
  <2>2. QED
    BY <1>1, <2>1, NothingLooked DEF CallerInv
<1>5. CASE Round(c)
  <2>1. /\ pc[c] = "round"
        /\ pc'[c] = IF dev_no[c] = last_dev_no THEN "wait" ELSE "scan"
        /\ UNCHANGED <<dma_events, put, get, isr, last_dev_no, dev_evt, dev_no>>
    BY <1>1, <1>5 DEF Round, queues
  <2>2. dev_no[c] = last_dev_no => dev_no[c] = dev_evt[c]
    <3>1. ~Skips(c, dev_no[c])
      BY <2>1 DEF WakeInv, TypeOK
    <3>2. QED
      BY <1>1, <2>1, <3>1, OwnQueue DEF CallerInv, Inside
  <2>3. ASSUME NEW x \in Units, Mask[x] = q, Looked(c, x)' PROVE Noticed(c, x)'
    <3>1. Within(dev_evt[c], x, dev_no[c])
      BY <1>1, <2>1, <2>2, <2>3, WithinAfter DEF Looked
    <3>2. Noticed(c, x)
      BY <1>1, <2>1, <2>3, <3>1 DEF CallerInv, Looked
    <3>3. QED
      BY <2>1, <3>2 DEF Noticed, QueueOf
  <2>4. QED
    BY <1>1, <2>1, <2>2, <2>3 DEF CallerInv, Inside, QueueOf
<1>6. CASE Wait(c)
  <2>1. /\ pc[c] = "wait" /\ pc'[c] = IF Counted(c) THEN "woken" ELSE "asleep"
        /\ UNCHANGED <<dma_events, put, get, isr, last_dev_no, dev_evt, dev_no>>
    BY <1>1, <1>6 DEF Wait, queues
  <2>2. ASSUME NEW x \in Units, Mask[x] = q, Looked(c, x)' PROVE Noticed(c, x)'
    <3>1. Noticed(c, x)
      BY <1>1, <2>1, <2>2 DEF CallerInv, Looked
    <3>2. QED
      BY <2>1, <3>1 DEF Noticed, QueueOf
  <2>3. QED
    BY <1>1, <2>1, <2>2 DEF CallerInv, Inside, QueueOf, Counted
<1>7. CASE Signal(c)
  <2>1. pc'[c] = "user" /\ dev_evt' = dev_evt
    BY <1>1, <1>7 DEF Signal
  <2>2. QED
    BY <1>1, <2>1, NothingLooked DEF CallerInv
<1>8. CASE Resume(c)
  <2>1. /\ pc[c] = "woken" /\ pc'[c] = "scan"
        /\ UNCHANGED <<last_dev_no, dev_evt, dev_no>>
    BY <1>1, <1>8 DEF Resume
  <2>2. QED
    BY <1>1, <2>1, NothingLooked DEF CallerInv, Inside, QueueOf
<1>9. QED
  BY <1>2, <1>3, <1>4, <1>5, <1>6, <1>7, <1>8 DEF CallerStep

\* No caller marks more events as seen than were counted.
LEMMA CountKept ==
    ASSUME WakeInv, NEW c \in Callers, CallerStep(c) \/ Signal(c)
    PROVE  CountInv'
<1>1. UNCHANGED <<put, isr>>
  BY DEF CallerStep, Call, Scan, Take, Return, Round, Wait, Resume, Signal, queues
<1>2. ASSUME NEW q \in Queues PROVE get'[q] <= put[q]
  <2>1. get[q] <= put[q] /\ put[q] \in Nat
    BY DEF WakeInv, TypeOK, CountInv
  <2>2. get' = get \/ get' = [get EXCEPT ![QueueOf(c)] = put[QueueOf(c)]]
    BY DEF CallerStep, Call, Scan, Take, Return, Round, Wait, Resume, Signal, queues
  <2>3. QED
    BY <2>1, <2>2 DEF WakeInv, TypeOK
<1>3. QED
  BY <1>1, <1>2 DEF WakeInv, CountInv

\* The invariant is inductive.
LEMMA WakeStep ==
    ASSUME WakeInv, OneCaller, ~OvertakenTwice, [Next]_vars
    PROVE  WakeInv'
<1>1. TypeOK'
  BY TypeStep DEF WakeInv
<1>2. CASE \E d \in Units : IsrEvent(d) \/ IsrStep(d)
  BY <1>1, <1>2, HandlerStep
<1>3. ASSUME NEW c \in Callers, CallerStep(c) \/ Signal(c) PROVE WakeInv'
  <2>1. CountInv'
    BY <1>3, CountKept
  <2>2. \A e \in Callers : CallerInv(e)'
    BY <1>1, <1>3, OthersKept, OwnStep
  <2>3. QED
    BY <1>1, <2>1, <2>2 DEF WakeInv
<1>4. CASE UNCHANGED vars
  BY <1>4 DEF vars, WakeInv, TypeOK, CountInv, CallerInv, Looked, Noticed, QueueOf,
     Counted, Skips
<1>5. QED
  BY <1>2, <1>3, <1>4 DEF Next

\* A caller that sleeps while an event of its instance waits will be woken: the handler of
\* the event has yet to count it or to wake the queue.  This needs one caller in each
\* instance, and no handler that two others overtake between its read and its write of
\* evt_wq_put.
THEOREM NoLostWakeupCorrect ==
    ASSUME OneCaller, ~OvertakenTwice
    PROVE  Spec => []NoLostWakeup
<1>1. Init => WakeInv
  <2> SUFFICES ASSUME Init PROVE WakeInv
    OBVIOUS
  <2>1. TypeOK
    <3>1. dev_evt \in [Callers -> Units] /\ 0 \in Units /\ MaxEvents \in Nat
      BY EventsAssumption DEF Init
    <3>2. QED
      BY <3>1 DEF Init, TypeOK, Idle
  <2>2. CountInv
    BY DEF Init, Idle, CountInv
  <2>3. \A c \in Callers : CallerInv(c)
    BY DEF Init, CallerInv, Looked, Inside
  <2>4. QED
    BY <2>1, <2>2, <2>3 DEF WakeInv
<1>2. WakeInv /\ [Next]_vars => WakeInv'
  BY WakeStep
<1>3. WakeInv => NoLostWakeup
  <2> SUFFICES ASSUME WakeInv, NEW c \in Callers, pc[c] = "asleep",
                      NEW d \in Units, d \in dma_events, Mask[d] = QueueOf(c)
               PROVE  \E e \in Units : Mask[e] = Mask[d] /\ isr[e].at # "idle"
    BY DEF NoLostWakeup
  <2>1. Noticed(c, d) /\ CallerInv(c)
    BY DEF WakeInv, CallerInv, Looked
  <2>2. CASE isr[d].at \in {"count", "store"}
    BY <2>2
  <2>3. CASE get[QueueOf(c)] < put[QueueOf(c)]
    <3>1. get[QueueOf(c)] \in Nat /\ put[QueueOf(c)] \in Nat
      BY DEF WakeInv, TypeOK, QueueOf, Queues
    <3>2. Counted(c)
      BY <2>3, <3>1 DEF Counted
    <3>3. \E e \in Units : Mask[e] = QueueOf(c) /\ isr[e].at = "wake"
      BY <2>1, <3>2 DEF CallerInv
    <3>4. QED
      BY <3>3
  <2>4. QED
    BY <2>1, <2>2, <2>3 DEF Noticed
<1>4. QED
  BY <1>1, <1>2, <1>3, PTL DEF Spec
=============================================================================
