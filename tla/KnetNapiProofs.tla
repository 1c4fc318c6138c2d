--------------------------- MODULE KnetNapiProofs ---------------------------
(***************************************************************************)
(* Proofs about interrupt and poll scheduling (KnetNapi), for chains of    *)
(* any length, any poll weights, with and without NAPI: what the hardware  *)
(* signals finds the interrupt enabled when nobody is at work, and no      *)
(* packet of the ring is left without a signal.                            *)
(***************************************************************************)
EXTENDS KnetNapi, TLAPS

\* A poll may take a whole chain.
WholeChain == \A w \in Weights : w >= RING

-----------------------------------------------------------------------------
(* Types.                                                                  *)

\* Flags, places and counts.
Flags ==
    /\ use_napi \in BOOLEAN /\ basedev_suspend \in BOOLEAN /\ suspended \in BOOLEAN
    /\ irq_mask \in BOOLEAN /\ hwmask \in BOOLEAN
    /\ napi_poll_mode \in BOOLEAN /\ napi_poll_again \in BOOLEAN
    /\ running \in BOOLEAN /\ desc_done \in BOOLEAN /\ chain_done \in BOOLEAN
    /\ timer \in BOOLEAN
Places ==
    /\ weight \in Weights /\ base \in {"down", "opening", "up"}
    /\ napi \in {"off", "ready", "scheduled"}
    /\ isr \in {"idle", "schedule", "remask", "dma"}
    /\ poll \in {"idle", "dma", "complete", "unmask"}
Calls == [at : {"none", "rx", "chain", "end"}, chain : BOOLEAN, n : Nat]
Counts == filled \in 0 .. RING /\ taken \in 0 .. RING /\ taken <= filled

LEMMA TypeParts == TypeOK <=> Flags /\ Places /\ Counts /\ dma \in [Callers -> Calls]
BY DEF TypeOK, Flags, Places, Counts, Calls

\* Every step keeps flags boolean.
LEMMA FlagsStep ==
    ASSUME Flags, [Next]_vars
    PROVE  Flags'
<1> USE DEF Flags, napivars, chan, params
<1>1. CASE HwPacket
  BY <1>1, Zenon DEF HwPacket
<1>2. CASE Timer
  BY <1>2, Zenon DEF Timer, Restart
<1>3. ASSUME NEW c \in Callers, TakePacket(c) \/ EndRx(c) PROVE Flags'
  <2>1. CASE TakePacket(c)
    BY <2>1, Zenon DEF TakePacket
  <2>2. CASE EndRx(c)
    BY <2>2, Zenon DEF EndRx
  <2>3. QED
    BY <1>3, <2>1, <2>2
<1>4. ASSUME NEW c \in Callers, ChainDone(c) PROVE Flags'
  <2>1. UNCHANGED <<params, suspended, napi_poll_mode>>
    BY <1>4, Zenon DEF ChainDone
  <2>2. CASE Restart
    <3>1. timer' \in BOOLEAN
      BY <1>4, Zenon DEF ChainDone
    <3>2. QED
      BY <2>1, <2>2, <3>1, Zenon DEF Restart
  <2>3. CASE UNCHANGED <<irq_mask, hwmask, napi_poll_again, desc_done>>
    <3>1. running' \in BOOLEAN /\ chain_done' \in BOOLEAN /\ timer' \in BOOLEAN
      BY <1>4, Zenon DEF ChainDone, Restart
    <3>2. QED
      BY <2>1, <2>3, <3>1, Zenon
  <2>4. Restart \/ UNCHANGED <<irq_mask, hwmask, napi_poll_again, desc_done>>
    BY <1>4, Zenon DEF ChainDone
  <2>5. QED
    BY <2>2, <2>3, <2>4
<1>5. CASE IsrEnter
  BY <1>5, Zenon DEF IsrEnter, ReadStatus
<1>6. CASE IsrSchedule
  BY <1>6, Zenon DEF IsrSchedule
<1>7. CASE IsrRemask
  BY <1>7, Zenon DEF IsrRemask, MaskToWrite
<1>8. CASE IsrDmaEnd
  <2>1. CASE dma["isr"].n > 0
    BY <1>8, <2>1, Zenon DEF IsrDmaEnd, ReadStatus
  <2>2. CASE ~(dma["isr"].n > 0)
    BY <1>8, <2>2, Zenon DEF IsrDmaEnd, MaskToWrite
  <2>3. QED
    BY <2>1, <2>2
<1>9. CASE PollEnter
  BY <1>9, Zenon DEF PollEnter, ReadStatus
<1>10. CASE PollEnd \/ PollComplete \/ PollUnmask
  <2>1. CASE PollEnd
    BY <2>1, Zenon DEF PollEnd
  <2>2. CASE PollComplete
    BY <2>2, Zenon DEF PollComplete
  <2>3. CASE PollUnmask
    BY <2>3, Zenon DEF PollUnmask
  <2>4. QED
    BY <1>10, <2>1, <2>2, <2>3
<1>11. CASE Open
  BY <1>11, Zenon DEF Open, ReadStatus
<1>12. CASE OpenEnd
  BY <1>12, Zenon DEF OpenEnd, Restart
<1>13. CASE Stop
  BY <1>13, Zenon DEF Stop
<1>14. CASE UNCHANGED vars
  BY <1>14, Zenon DEF vars
<1>15. QED
  BY <1>1, <1>2, <1>3, <1>4, <1>5, <1>6, <1>7, <1>8, <1>9, <1>10, <1>11, <1>12, <1>13, <1>14
     DEF Next, DoDma

\* Every step keeps places and counts in their ranges.
LEMMA PlacesStep ==
    ASSUME Flags, Places, Counts, [Next]_vars
    PROVE  Places' /\ Counts'
<1> USE NapiAssumption DEF Places, Counts, napivars, chan, params, Restart
<1>1. CASE HwPacket \/ Timer
  BY <1>1 DEF HwPacket, Timer
<1>2. ASSUME NEW c \in Callers, DoDma(c) PROVE Places' /\ Counts'
  BY <1>2 DEF DoDma, TakePacket, EndRx, ChainDone, DescriptorDone
<1>3. CASE IsrEnter \/ IsrSchedule \/ IsrRemask \/ IsrDmaEnd
  BY <1>3 DEF IsrEnter, IsrSchedule, IsrRemask, IsrDmaEnd
<1>4. CASE PollEnter \/ PollEnd \/ PollComplete \/ PollUnmask
  BY <1>4 DEF PollEnter, PollEnd, PollComplete, PollUnmask
<1>5. CASE Open \/ OpenEnd \/ Stop
  BY <1>5 DEF Open, OpenEnd, Stop
<1>6. CASE UNCHANGED vars
  BY <1>6 DEF vars
<1>7. QED
  BY <1>1, <1>2, <1>3, <1>4, <1>5, <1>6 DEF Next

\* Every step keeps the calls of dev_do_dma in their type.
LEMMA CallsStep ==
    ASSUME Flags, dma \in [Callers -> Calls], [Next]_vars
    PROVE  dma' \in [Callers -> Calls]
<1>1. ASSUME NEW c \in Callers, ReadStatus(c) PROVE dma' \in [Callers -> Calls]
  <2>1. [at |-> IF desc_done THEN "rx" ELSE "chain", chain |-> chain_done, n |-> 0] \in Calls
    BY DEF Flags, Calls
  <2>2. QED
    BY <1>1, <2>1 DEF ReadStatus
<1>2. ASSUME NEW c \in Callers, dma' = [dma EXCEPT ![c] = NotCalled]
      PROVE  dma' \in [Callers -> Calls]
  <2>1. NotCalled \in Calls
    BY DEF NotCalled, Calls
  <2>2. QED
    BY <1>2, <2>1
<1>3. ASSUME NEW c \in Callers, TakePacket(c) PROVE dma' \in [Callers -> Calls]
  <2>1. dma[c].n + 1 \in Nat
    BY DEF Calls
  <2>2. QED
    BY <1>3, <2>1 DEF TakePacket, Calls
<1>4. ASSUME NEW c \in Callers, EndRx(c) \/ ChainDone(c) PROVE dma' \in [Callers -> Calls]
  BY <1>4 DEF EndRx, ChainDone, Calls
<1>5. ASSUME dma' = dma PROVE dma' \in [Callers -> Calls]
  BY <1>5
<1>6. CASE HwPacket \/ Timer \/ UNCHANGED vars
  BY <1>5, <1>6 DEF HwPacket, Timer, vars
<1>7. CASE IsrEnter \/ IsrSchedule \/ IsrRemask \/ IsrDmaEnd
  BY <1>1, <1>2, <1>5, <1>7 DEF IsrEnter, IsrSchedule, IsrRemask, IsrDmaEnd, Callers
<1>8. CASE PollEnter \/ PollEnd \/ PollComplete \/ PollUnmask
  BY <1>1, <1>2, <1>5, <1>8 DEF PollEnter, PollEnd, PollComplete, PollUnmask, Callers
<1>9. CASE Open \/ OpenEnd \/ Stop
  BY <1>1, <1>2, <1>5, <1>9 DEF Open, OpenEnd, Stop, Callers
<1>10. QED
  BY <1>3, <1>4, <1>6, <1>7, <1>8, <1>9 DEF Next, DoDma

\* Every step keeps the types.
LEMMA NapiTypeStep ==
    ASSUME TypeOK, [Next]_vars
    PROVE  TypeOK'
<1>1. Flags /\ Places /\ Counts /\ dma \in [Callers -> Calls]
  BY TypeParts
<1>2. Flags' /\ Places' /\ Counts' /\ dma' \in [Callers -> Calls]
  BY <1>1, FlagsStep, PlacesStep, CallsStep
<1>3. QED
  BY <1>2 DEF TypeOK, Flags, Places, Counts, Calls

\* The state stays in its type, and the driver never takes a descriptor that the hardware
\* did not complete.
THEOREM NapiTypeCorrect == Spec => []TypeOK
<1>1. Init => TypeOK
  <2> SUFFICES ASSUME Init PROVE TypeOK
    OBVIOUS
  <2>1. Flags
    BY Zenon DEF Init, Flags
  <2>2. Places /\ Counts
    BY NapiAssumption DEF Init, Places, Counts
  <2>3. dma \in [Callers -> Calls]
    BY DEF Init, NotCalled, Calls
  <2>4. QED
    BY <2>1, <2>2, <2>3, TypeParts
<1>2. QED
  BY <1>1, NapiTypeStep, PTL DEF Spec

-----------------------------------------------------------------------------
(* The interrupt mask.                                                     *)

\* When no handler and no poll is active, the hardware mask is the driver's; before the
\* channel is first started, when the driver's is empty, there is no status.
MaskInv ==
    /\ isr = "idle" /\ ~napi_poll_mode => hwmask = irq_mask
    /\ ~irq_mask => ~running /\ ~desc_done /\ ~chain_done

\* Every step keeps it.
LEMMA MaskStep ==
    ASSUME TypeOK, MaskInv, [Next]_vars
    PROVE  MaskInv'
<1> USE DEF MaskInv, TypeOK, napivars, chan, params, ReadStatus
<1>1. CASE HwPacket \/ Timer
  BY <1>1 DEF HwPacket, Timer, Restart
<1>2. ASSUME NEW c \in Callers, DoDma(c) PROVE MaskInv'
  <2>1. CASE TakePacket(c) \/ EndRx(c)
    BY <2>1 DEF TakePacket, EndRx
  <2>2. CASE ChainDone(c)
    <3> DEFINE Ends == /\ irq_mask' = irq_mask /\ hwmask' = hwmask
                       /\ desc_done' = desc_done
                       /\ (running' => running) /\ (chain_done' => chain_done)
    <3>1. Restart \/ Ends
      BY <2>2 DEF ChainDone
    <3>2. isr' = isr /\ napi_poll_mode' = napi_poll_mode
      BY <2>2 DEF ChainDone
    <3>3. CASE Restart
      BY <3>2, <3>3 DEF Restart
    <3>4. CASE Ends
      <4>1. ~irq_mask' => ~running' /\ ~desc_done' /\ ~chain_done'
        BY <3>4
      <4>2. isr' = "idle" /\ ~napi_poll_mode' => hwmask' = irq_mask'
        BY <3>2, <3>4
      <4>3. QED
        BY <4>1, <4>2
    <3>5. QED
      BY <3>1, <3>3, <3>4
  <2>3. QED
    BY <1>2, <2>1, <2>2 DEF DoDma
<1>3. CASE IsrEnter \/ IsrSchedule
  BY <1>3 DEF IsrEnter, IsrSchedule
<1>4. CASE IsrRemask \/ IsrDmaEnd
  BY <1>4 DEF IsrRemask, IsrDmaEnd, MaskToWrite
<1>5. CASE PollEnter \/ PollEnd \/ PollComplete \/ PollUnmask
  BY <1>5 DEF PollEnter, PollEnd, PollComplete, PollUnmask
<1>6. CASE Open \/ Stop
  BY <1>6 DEF Open, Stop
<1>7. CASE OpenEnd
  <2>1. CASE running
    BY <1>7, <2>1, Zenon DEF OpenEnd
  <2>2. CASE ~running
    BY <1>7, <2>2 DEF OpenEnd, Restart
  <2>3. QED
    BY <2>1, <2>2
<1>8. CASE UNCHANGED vars
  BY <1>8 DEF vars
<1>9. QED
  BY <1>1, <1>2, <1>3, <1>4, <1>5, <1>6, <1>7, <1>8 DEF Next

\* Nothing is lost between a poll or a handler that ends and the next interrupt.
THEOREM InterruptArmedCorrect == Spec => []InterruptArmed
<1>1. Init => MaskInv
  BY DEF Init, MaskInv
<1>2. TypeOK /\ MaskInv /\ [Next]_vars => MaskInv'
  BY MaskStep
<1>3. TypeOK /\ MaskInv => InterruptArmed
  BY DEF TypeOK, MaskInv, InterruptArmed
<1>4. QED
  BY <1>1, <1>2, <1>3, NapiTypeCorrect, PTL DEF Spec

-----------------------------------------------------------------------------
(* Polling mode.                                                           *)

\* The handler that began a poll has not scheduled it before it comes to that point; a poll
\* that was completed is not scheduled again before the handler's next turn.
PollInv ==
    /\ isr = "schedule" => napi_poll_mode /\ poll = "idle" /\ napi # "scheduled"
    /\ poll = "unmask" => napi # "scheduled"
    /\ QuietWhilePolling

\* Every step keeps it.
LEMMA PollStep ==
    ASSUME TypeOK, PollInv, [Next]_vars
    PROVE  PollInv'
<1> USE DEF PollInv, QuietWhilePolling, TypeOK, napivars, chan, params, ReadStatus, Restart
<1>1. CASE HwPacket \/ Timer
  BY <1>1 DEF HwPacket, Timer
<1>2. ASSUME NEW c \in Callers, DoDma(c) PROVE PollInv'
  BY <1>2 DEF DoDma, TakePacket, EndRx, ChainDone
<1>3. CASE IsrEnter \/ IsrSchedule
  BY <1>3 DEF IsrEnter, IsrSchedule
<1>4. CASE IsrRemask \/ IsrDmaEnd
  <2>1. CASE IsrRemask
    BY <1>4, <2>1, Zenon DEF IsrRemask, MaskToWrite
  <2>2. CASE IsrDmaEnd /\ dma["isr"].n > 0
    BY <2>2 DEF IsrDmaEnd
  <2>3. CASE IsrDmaEnd /\ ~(dma["isr"].n > 0)
    BY <2>3, Zenon DEF IsrDmaEnd, MaskToWrite
  <2>4. QED
    BY <1>4, <2>1, <2>2, <2>3
<1>5. CASE PollEnter \/ PollEnd \/ PollComplete \/ PollUnmask
  <2>1. CASE PollEnter \/ PollEnd \/ PollComplete
    BY <2>1 DEF PollEnter, PollEnd, PollComplete
  <2>2. CASE PollUnmask
    BY <2>2 DEF PollUnmask
  <2>3. QED
    BY <1>5, <2>1, <2>2
<1>6. CASE Open \/ OpenEnd \/ Stop
  BY <1>6 DEF Open, OpenEnd, Stop
<1>7. CASE UNCHANGED vars
  BY <1>7 DEF vars
<1>8. QED
  BY <1>1, <1>2, <1>3, <1>4, <1>5, <1>6, <1>7 DEF Next

\* Interrupts stay disabled until the poll job is complete.
THEOREM QuietCorrect == Spec => []QuietWhilePolling
<1>1. Init => PollInv
  BY DEF Init, PollInv, QuietWhilePolling
<1>2. TypeOK /\ PollInv /\ [Next]_vars => PollInv'
  BY PollStep
<1>3. PollInv => QuietWhilePolling
  BY DEF PollInv
<1>4. QED
  BY <1>1, <1>2, <1>3, NapiTypeCorrect, PTL DEF Spec

-----------------------------------------------------------------------------
(* Packets.                                                                *)

\* Caller c will take all packets there are: its budget is large enough for them.
Looking(c) == dma[c].at = "rx" /\ dma[c].n + (filled - taken) <= BudgetOf(c)

\* A channel that does not run has no packets; those of one that runs are announced, or
\* somebody looks at them.
PacketInv ==
    taken < filled =>
        /\ running
        /\ desc_done \/ chain_done \/ \E c \in Callers : Looking(c)

\* Who is in dev_do_dma.
PlaceInv ==
    /\ isr # "dma" => dma["isr"].at = "none"
    /\ poll # "dma" => dma["poll"].at = "none"
    /\ base # "opening" => dma["open"].at = "none"

\* Every step keeps it.
LEMMA PlaceStep ==
    ASSUME TypeOK, PlaceInv, [Next]_vars
    PROVE  PlaceInv'
<1> USE DEF PlaceInv, TypeOK, napivars, chan, params, ReadStatus, Callers, NotCalled
<1>1. CASE HwPacket \/ Timer
  BY <1>1 DEF HwPacket, Timer
<1>2. ASSUME NEW c \in Callers, DoDma(c) PROVE PlaceInv'
  <2>1. UNCHANGED <<isr, poll, base>> /\ dma[c].at # "none"
    BY <1>2 DEF DoDma, TakePacket, EndRx, ChainDone
  <2>2. \A e \in Callers : dma[e].at = "none" => dma'[e].at = "none"
    BY <1>2, <2>1 DEF DoDma, TakePacket, EndRx, ChainDone
  <2>3. QED
    BY <2>1, <2>2
<1>3. CASE IsrEnter \/ IsrSchedule
  BY <1>3 DEF IsrEnter, IsrSchedule
<1>4. CASE IsrRemask \/ IsrDmaEnd
  BY <1>4 DEF IsrRemask, IsrDmaEnd
<1>5. CASE PollEnter \/ PollEnd \/ PollComplete \/ PollUnmask
  BY <1>5 DEF PollEnter, PollEnd, PollComplete, PollUnmask
<1>6. CASE Open \/ OpenEnd \/ Stop
  BY <1>6 DEF Open, OpenEnd, Stop
<1>7. CASE UNCHANGED vars
  BY <1>7 DEF vars
<1>8. QED
  BY <1>1, <1>2, <1>3, <1>4, <1>5, <1>6, <1>7 DEF Next

\* A caller that reads the status before it looks at descriptors can take a whole chain.
LEMMA ReadPackets ==
    ASSUME TypeOK, PacketInv, WholeChain, NEW c \in Callers, ReadStatus(c),
           dma[c].at \notin {"rx"}, UNCHANGED <<running, filled, taken, chain_done, weight>>
    PROVE  PacketInv'
<1> SUFFICES ASSUME taken < filled
             PROVE  chain_done \/ \E e \in Callers : Looking(e)'
  BY DEF PacketInv, TypeOK
<1>1. CASE desc_done
  <2>1. dma'[c].at = "rx" /\ dma'[c].n = 0
    BY <1>1 DEF ReadStatus, TypeOK
  <2>2. BudgetOf(c)' >= RING /\ BudgetOf(c)' \in Nat
    BY NapiAssumption DEF BudgetOf, WholeChain, TypeOK
  <2>3. Looking(c)'
    BY <2>1, <2>2, NapiAssumption DEF Looking, TypeOK
  <2>4. QED
    BY <2>3
<1>2. CASE ~desc_done /\ ~chain_done
  <2>1. PICK e \in Callers : Looking(e)
    BY <1>2 DEF PacketInv
  <2>2. e # c /\ dma'[e] = dma[e]
    BY <2>1 DEF Looking, ReadStatus, TypeOK
  <2>3. Looking(e)'
    BY <2>1, <2>2 DEF Looking, BudgetOf
  <2>4. QED
    BY <2>3
<1>3. QED
  BY <1>1, <1>2

\* A caller that has looked leaves the packets to the others.
LEMMA LeavePackets ==
    ASSUME TypeOK, PacketInv, NEW c \in Callers, dma' = [dma EXCEPT ![c] = NotCalled],
           dma[c].at = "end", UNCHANGED <<chan, weight>>
    PROVE  PacketInv'
<1>1. ASSUME NEW e \in Callers, Looking(e) PROVE Looking(e)'
  <2>1. e # c
    BY <1>1 DEF Looking
  <2>2. dma'[e] = dma[e]
    BY <2>1 DEF TypeOK
  <2>3. QED
    BY <1>1, <2>2 DEF Looking, BudgetOf, chan
<1>2. QED
  BY <1>1 DEF PacketInv, chan

\* Every step keeps it.
LEMMA PacketStep ==
    ASSUME TypeOK, PlaceInv, PacketInv, WholeChain, [Next]_vars
    PROVE  PacketInv'
<1> USE DEF napivars, chan, params
<1>1. CASE HwPacket
  BY <1>1 DEF HwPacket, PacketInv
<1>2. CASE Timer
  <2>1. CASE running \/ suspended
    BY <1>2, <2>1 DEF Timer, PacketInv, Looking, BudgetOf
  <2>2. CASE ~(running \/ suspended)
    BY <1>2, <2>2 DEF Timer, PacketInv, Restart
  <2>3. QED
    BY <2>1, <2>2
<1>3. ASSUME NEW c \in Callers, TakePacket(c) PROVE PacketInv'
  <2>1. /\ dma' = [dma EXCEPT ![c].n = @ + 1] /\ taken' = taken + 1 /\ taken < filled
        /\ UNCHANGED <<running, filled, desc_done, chain_done, weight>>
    BY <1>3 DEF TakePacket, DescriptorDone
  <2>2. ASSUME NEW e \in Callers, Looking(e) PROVE Looking(e)'
    <3>1. dma'[e].at = dma[e].at /\ dma'[e].n \in {dma[e].n, dma[e].n + 1}
      BY <2>1 DEF TypeOK
    <3>2. BudgetOf(e)' = BudgetOf(e) /\ BudgetOf(e) \in Nat
      BY <2>1, NapiAssumption DEF BudgetOf, TypeOK
    <3>3. QED
      BY <2>1, <2>2, <3>1, <3>2 DEF Looking, TypeOK
  <2>3. QED
    BY <2>1, <2>2 DEF PacketInv
<1>4. ASSUME NEW c \in Callers, EndRx(c) PROVE PacketInv'
  <2>1. /\ dma' = [dma EXCEPT ![c].at = "chain"]
        /\ UNCHANGED <<running, filled, taken, desc_done, chain_done, weight>>
        /\ ~running \/ dma[c].n >= BudgetOf(c) \/ ~(taken < filled)
    BY <1>4 DEF EndRx, DescriptorDone
  <2>2. ASSUME taken < filled, NEW e \in Callers, Looking(e) PROVE Looking(e)'
    <3>1. e # c
      <4>1. BudgetOf(c) \in Nat /\ dma[c].n \in Nat /\ filled \in Nat /\ taken \in Nat
        BY NapiAssumption DEF BudgetOf, TypeOK
      <4>2. QED
        BY <2>1, <2>2, <4>1 DEF Looking, PacketInv
    <3>2. QED
      BY <2>1, <2>2, <3>1 DEF Looking, BudgetOf, TypeOK
  <2>3. QED
    BY <2>1, <2>2 DEF PacketInv
<1>5. ASSUME NEW c \in Callers, ChainDone(c) PROVE PacketInv'
  <2>1. CASE ~dma[c].chain
    <3>1. /\ dma' = [dma EXCEPT ![c].at = "end"] /\ dma[c].at = "chain"
          /\ UNCHANGED <<chan, weight>>
      BY <1>5, <2>1 DEF ChainDone
    <3>2. ASSUME NEW e \in Callers, Looking(e) PROVE Looking(e)'
      BY <3>1, <3>2 DEF Looking, BudgetOf, TypeOK
    <3>3. QED
      BY <3>1, <3>2 DEF PacketInv
  <2>2. CASE dma[c].chain
    <3>1. ~(taken' < filled')
      BY <1>5, <2>2 DEF ChainDone, Restart, TypeOK
    <3>2. QED
      BY <3>1 DEF PacketInv
  <2>3. QED
    BY <2>1, <2>2
<1>6. CASE IsrEnter
  <2>1. CASE use_napi
    BY <1>6, <2>1 DEF IsrEnter, PacketInv, Looking, BudgetOf
  <2>2. CASE ~use_napi
    <3>1. ReadStatus("isr")
      BY <1>6, <2>2 DEF IsrEnter
    <3>2. QED
      BY <1>6, <3>1, ReadPackets DEF IsrEnter, Callers, PlaceInv
  <2>3. QED
    BY <2>1, <2>2
<1>7. CASE IsrSchedule \/ IsrRemask \/ PollComplete \/ PollUnmask \/ Stop
  BY <1>7 DEF IsrSchedule, IsrRemask, PollComplete, PollUnmask, Stop, PacketInv, Looking, BudgetOf
<1>8. CASE IsrDmaEnd
  <2>1. CASE dma["isr"].n > 0
    BY <1>8, <2>1, ReadPackets DEF IsrDmaEnd, Callers
  <2>2. CASE ~(dma["isr"].n > 0)
    BY <1>8, <2>2, LeavePackets DEF IsrDmaEnd, Callers
  <2>3. QED
    BY <2>1, <2>2
<1>9. CASE PollEnter
  BY <1>9, ReadPackets DEF PollEnter, PlaceInv, Callers
<1>10. CASE PollEnd
  BY <1>10, LeavePackets DEF PollEnd, Callers
<1>11. CASE Open
  <2>1. CASE suspended
    BY <1>11, <2>1, ReadPackets DEF Open, PlaceInv, Callers
  <2>2. CASE ~suspended
    BY <1>11, <2>2 DEF Open, PacketInv, Looking, BudgetOf
  <2>3. QED
    BY <2>1, <2>2
<1>12. CASE OpenEnd
  <2>1. CASE running
    BY <1>12, <2>1, LeavePackets DEF OpenEnd, Callers
  <2>2. CASE ~running
    BY <1>12, <2>2 DEF OpenEnd, Restart, PacketInv
  <2>3. QED
    BY <2>1, <2>2
<1>13. CASE UNCHANGED vars
  BY <1>13 DEF vars, PacketInv, Looking, BudgetOf
<1>14. QED
  BY <1>1, <1>2, <1>3, <1>4, <1>5, <1>6, <1>7, <1>8, <1>9, <1>10, <1>11, <1>12, <1>13
     DEF Next, DoDma

\* Every packet in the ring is announced by a status bit, or somebody looks at the ring.
THEOREM PacketAnnouncedCorrect ==
    ASSUME WholeChain
    PROVE  Spec => []PacketAnnounced
<1>1. Init => PlaceInv /\ PacketInv
  BY NapiAssumption DEF Init, PlaceInv, PacketInv, NotCalled, Callers
<1>2. TypeOK /\ PlaceInv /\ [Next]_vars => PlaceInv'
  BY PlaceStep
<1>3. TypeOK /\ PlaceInv /\ PacketInv /\ [Next]_vars => PacketInv'
  BY PacketStep
<1>4. PacketInv => PacketAnnounced
  BY DEF PacketInv, Looking, PacketAnnounced, NoneInside
<1>5. QED
  BY <1>1, <1>2, <1>3, <1>4, NapiTypeCorrect, PTL DEF Spec
=============================================================================
