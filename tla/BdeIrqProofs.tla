---------------------------- MODULE BdeIrqProofs ----------------------------
(***************************************************************************)
(* Proofs about the interrupt mask that the user-mode driver and KNET      *)
(* share (BdeIrq): the register holds what each of them asked for, the     *)
(* filter mask belongs to a connected KNET, and no interrupt of user mode  *)
(* is lost, for any number of devices and any mix of actions.              *)
(***************************************************************************)
EXTENDS BdeIrq, TLAPS

USE DEF KnetBits, UserBits

\* What lkbde_irq_mask_set writes for the primary driver keeps its type.
LEMMA MaskSetType ==
    ASSUME TypeOK, NEW d \in Devs, NEW m \in SUBSET {"u", "k"}, MaskSet(d, m)
    PROVE  /\ imask' \in [Devs -> SUBSET {"u", "k"}] /\ imask2' \in [Devs -> SUBSET {"k"}]
           /\ fmask' \in [Devs -> SUBSET {"k"}] /\ reg' \in [Devs -> SUBSET {"u", "k"}]
BY DEF TypeOK, MaskSet

\* The same for the secondary driver.
LEMMA MaskSet2Type ==
    ASSUME TypeOK, NEW d \in Devs, NEW m \in SUBSET {"k"}, MaskSet2(d, m, {"k"})
    PROVE  /\ imask' \in [Devs -> SUBSET {"u", "k"}] /\ imask2' \in [Devs -> SUBSET {"k"}]
           /\ fmask' \in [Devs -> SUBSET {"k"}] /\ reg' \in [Devs -> SUBSET {"u", "k"}]
BY DEF TypeOK, MaskSet2

\* Every step keeps the types.
LEMMA TypeStep ==
    ASSUME TypeOK, [Next]_vars
    PROVE  TypeOK'
<1> USE DEF masks, handlers, knetvars, uservars, Nothing
<1>1. ASSUME NEW d \in Devs, HwRaise(d) PROVE TypeOK'
  BY <1>1 DEF TypeOK, HwRaise, Shared, Direct
<1>2. ASSUME NEW d \in Devs, Interrupt(d) PROVE TypeOK'
  <2>1. Entry(d) \in {"get", "mask", "notify"}
    BY DEF Entry
  <2>2. pc' \in [Devs -> {"idle", "get", "test", "mask", "notify", "second"}]
    BY <1>2, <2>1 DEF TypeOK, Interrupt, Goto
  <2>3. QED
    BY <1>2, <2>2 DEF TypeOK, Interrupt
<1>3. ASSUME NEW d \in Devs, Get(d) PROVE TypeOK'
  <2> DEFINE r == [m |-> imask[d] \cup imask2[d], f |-> fmask[d],
                   s |-> IF kind[d] = "cmicx" THEN stat[d] \cap KnetBits ELSE {}]
  <2>1. r \in [m : SUBSET {"u", "k"}, f : SUBSET {"k"}, s : SUBSET {"k"}]
    BY DEF TypeOK
  <2>2. seen' = [seen EXCEPT ![d] = r]
    BY <1>3 DEF Get
  <2> HIDE DEF r
  <2>3. seen' \in [Devs -> [m : SUBSET {"u", "k"}, f : SUBSET {"k"}, s : SUBSET {"k"}]]
    BY <2>1, <2>2 DEF TypeOK
  <2>4. pc' \in [Devs -> {"idle", "get", "test", "mask", "notify", "second"}]
    BY <1>3 DEF TypeOK, Get, Goto
  <2>5. QED
    BY <1>3, <2>3, <2>4 DEF TypeOK, Get
<1>4. ASSUME NEW d \in Devs, Test(d) PROVE TypeOK'
  <2>1. seen[d].m \ seen[d].f \in SUBSET {"u", "k"}
    BY DEF TypeOK
  <2>2. /\ imask' \in [Devs -> SUBSET {"u", "k"}] /\ imask2' \in [Devs -> SUBSET {"k"}]
        /\ fmask' \in [Devs -> SUBSET {"k"}] /\ reg' \in [Devs -> SUBSET {"u", "k"}]
    <3>1. CASE MaskSet(d, seen[d].m \ seen[d].f)
      BY <2>1, <3>1, MaskSetType
    <3>2. CASE UNCHANGED masks
      BY <3>2 DEF TypeOK
    <3>3. QED
      BY <1>4, <3>1, <3>2 DEF Test
  <2>3. pc' \in [Devs -> {"idle", "get", "test", "mask", "notify", "second"}]
    <3>1. pc' = [pc EXCEPT ![d] = "second"] \/ pc' = [pc EXCEPT ![d] = "mask"]
      BY <1>4 DEF Test, Goto
    <3>2. QED
      BY <3>1 DEF TypeOK
  <2>4. seen' \in [Devs -> [m : SUBSET {"u", "k"}, f : SUBSET {"k"}, s : SUBSET {"k"}]]
    BY <1>4 DEF TypeOK, Test
  <2>5. QED
    BY <1>4, <2>2, <2>3, <2>4 DEF TypeOK, Test
<1>5. ASSUME NEW d \in Devs, TestX(d) PROVE TypeOK'
  <2>1. pc' \in [Devs -> {"idle", "get", "test", "mask", "notify", "second"}]
    <3>1. pc' = [pc EXCEPT ![d] = "second"] \/ pc' = [pc EXCEPT ![d] = "mask"]
      BY <1>5 DEF TestX, Goto
    <3>2. QED
      BY <3>1 DEF TypeOK
  <2>2. reg' \in [Devs -> SUBSET {"u", "k"}]
    BY <1>5 DEF TypeOK, TestX
  <2>3. [m |-> {}, f |-> seen[d].f, s |-> {}]
            \in [m : SUBSET {"u", "k"}, f : SUBSET {"k"}, s : SUBSET {"k"}]
    BY DEF TypeOK
  <2>4. seen' \in [Devs -> [m : SUBSET {"u", "k"}, f : SUBSET {"k"}, s : SUBSET {"k"}]]
    BY <1>5, <2>3 DEF TypeOK, TestX
  <2>5. QED
    BY <1>5, <2>1, <2>2, <2>4 DEF TypeOK, TestX
<1>6. ASSUME NEW d \in Devs, Mask(d) PROVE TypeOK'
  <2>1. pc' \in [Devs -> {"idle", "get", "test", "mask", "notify", "second"}]
    BY <1>6 DEF TypeOK, Mask, Goto
  <2>2. /\ imask' \in [Devs -> SUBSET {"u", "k"}] /\ imask2' \in [Devs -> SUBSET {"k"}]
        /\ fmask' \in [Devs -> SUBSET {"k"}] /\ reg' \in [Devs -> SUBSET {"u", "k"}]
    <3>1. CASE MaskSet(d, {})
      BY <3>1, MaskSetType
    <3>2. CASE kind[d] = "cmicx"
      BY <1>6, <3>2 DEF TypeOK, Mask
    <3>3. QED
      BY <1>6, <3>1, <3>2 DEF Mask
  <2>3. QED
    BY <1>6, <2>1, <2>2 DEF TypeOK, Mask
<1>7. ASSUME NEW d \in Devs, Notify(d) PROVE TypeOK'
  <2>1. pc' \in [Devs -> {"idle", "get", "test", "mask", "notify", "second"}]
    BY <1>7 DEF TypeOK, Notify, Goto
  <2>2. seen' \in [Devs -> [m : SUBSET {"u", "k"}, f : SUBSET {"k"}, s : SUBSET {"k"}]]
    BY <1>7 DEF TypeOK, Notify
  <2>3. direct' \in [Devs -> SUBSET {"v"}]
    <3>1. PICK left \in SUBSET {"v"} : direct' = [direct EXCEPT ![d] = left]
      BY <1>7 DEF Notify, Direct
    <3>2. QED
      BY <3>1 DEF TypeOK
  <2>4. imask' \in [Devs -> SUBSET {"u", "k"}]
    BY <1>7 DEF TypeOK, Notify
  <2>5. QED
    BY <1>7, <2>1, <2>2, <2>3, <2>4 DEF TypeOK, Notify
<1>8. ASSUME NEW d \in Devs, Second(d) PROVE TypeOK'
  <2>1. pc' \in [Devs -> {"idle", "get", "test", "mask", "notify", "second"}]
    BY <1>8 DEF TypeOK, Second, Goto
  <2>2. /\ imask' \in [Devs -> SUBSET {"u", "k"}] /\ imask2' \in [Devs -> SUBSET {"k"}]
        /\ fmask' \in [Devs -> SUBSET {"k"}] /\ reg' \in [Devs -> SUBSET {"u", "k"}]
    <3>1. CASE MaskSet2(d, {}, KnetBits)
      BY <3>1, MaskSet2Type
    <3>2. CASE UNCHANGED masks
      BY <3>2 DEF TypeOK
    <3>3. QED
      BY <1>8, <3>1, <3>2 DEF Second
  <2>3. QED
    BY <1>8, <2>1, <2>2 DEF TypeOK, Second
<1>9. ASSUME NEW d \in Devs, Enable(d) \/ Disable(d) PROVE TypeOK'
  BY <1>9 DEF TypeOK, Enable, Disable
<1>10. ASSUME NEW d \in Devs, Visit(d) PROVE TypeOK'
  <2>1. /\ imask' \in [Devs -> SUBSET {"u", "k"}] /\ imask2' \in [Devs -> SUBSET {"k"}]
        /\ fmask' \in [Devs -> SUBSET {"k"}] /\ reg' \in [Devs -> SUBSET {"u", "k"}]
    <3>1. ASSUME NEW extra \in {{}, {"k"}}, MaskSet(d, Shared(d) \cup extra)
          PROVE  /\ imask' \in [Devs -> SUBSET {"u", "k"}]
                 /\ imask2' \in [Devs -> SUBSET {"k"}]
                 /\ fmask' \in [Devs -> SUBSET {"k"}]
                 /\ reg' \in [Devs -> SUBSET {"u", "k"}]
      BY <3>1, MaskSetType DEF Shared
    <3>2. CASE UNCHANGED masks
      BY <3>2 DEF TypeOK
    <3>3. QED
      BY <1>10, <3>1, <3>2 DEF Visit
  <2>2. QED
    BY <1>10, <2>1 DEF TypeOK, Visit, Direct
<1>11. ASSUME NEW d \in KnetDevs, PollServe(d) PROVE TypeOK'
  BY <1>11, IrqAssumption DEF TypeOK, PollServe
<1>12. ASSUME NEW d \in KnetDevs, PollEnd(d) PROVE TypeOK'
  BY <1>12, IrqAssumption, MaskSet2Type DEF TypeOK, PollEnd
<1>13. ASSUME NEW d \in KnetDevs, KnetInit(d) PROVE TypeOK'
  <2>1. stat' \in [Devs -> SUBSET {"u", "v", "k"}]
    BY <1>13 DEF TypeOK, KnetInit, DmaAbort
  <2>2. QED
    BY <1>13, <2>1, IrqAssumption, MaskSet2Type DEF TypeOK, KnetInit
<1>14. ASSUME NEW d \in KnetDevs, KnetStart(d) PROVE TypeOK'
  BY <1>14, IrqAssumption, MaskSet2Type DEF TypeOK, KnetStart
<1>15. ASSUME NEW d \in KnetDevs, KnetStop(d) PROVE TypeOK'
  <2>1. stat' \in [Devs -> SUBSET {"u", "v", "k"}]
    BY <1>15 DEF TypeOK, KnetStop, DmaAbort
  <2>2. QED
    BY <1>15, <2>1, IrqAssumption, MaskSet2Type DEF TypeOK, KnetStop
<1>16. ASSUME NEW d \in KnetDevs, KnetDisconnect(d) \/ KnetGone(d) PROVE TypeOK'
  BY <1>16, IrqAssumption DEF TypeOK, KnetDisconnect, KnetGone
<1>17. CASE Wake
  BY <1>17 DEF TypeOK, Wake
<1>18. CASE Reset
  BY <1>18 DEF TypeOK, Reset
<1>19. CASE UNCHANGED vars
  BY <1>19 DEF TypeOK, vars
<1>20. CASE \E d \in Devs : HwRaise(d) \/ HandlerStep(d) \/ Enable(d) \/ Disable(d)
  BY <1>20, <1>1, <1>2, <1>3, <1>4, <1>5, <1>6, <1>7, <1>8, <1>9 DEF HandlerStep
<1>21. CASE \E d \in KnetDevs : Poll(d) \/ KnetStep(d)
  BY <1>21, <1>11, <1>12, <1>13, <1>14, <1>15, <1>16 DEF Poll, KnetStep
<1>22. CASE UserStep
  BY <1>22, <1>10, <1>17, <1>18 DEF UserStep
<1>23. QED
  BY <1>19, <1>20, <1>21, <1>22 DEF Next

\* The variables keep their types, for any set of devices.
THEOREM IrqTypeCorrect == Spec => []TypeOK
<1>1. Init => TypeOK
  <2>1. Nothing \in [m : SUBSET {"u", "k"}, f : SUBSET {"k"}, s : SUBSET {"k"}]
    BY DEF Nothing
  <2>2. Init => seen \in [Devs -> [m : SUBSET {"u", "k"}, f : SUBSET {"k"}, s : SUBSET {"k"}]]
    BY <2>1 DEF Init
  <2>3. Init => kind \in [Devs -> KindNames]
    BY IrqAssumption DEF Init
  <2>4. Init => /\ isr \in [Devs -> BOOLEAN] /\ isr2 \in [Devs -> BOOLEAN]
                /\ polling \in [Devs -> BOOLEAN]
    BY DEF Init
  <2>5. Init => /\ imask \in [Devs -> {{}}] /\ imask2 \in [Devs -> {{}}]
                /\ fmask \in [Devs -> {{}}] /\ reg \in [Devs -> {{}}]
                /\ direct \in [Devs -> {{}}] /\ stat \in [Devs -> {{}}]
    BY DEF Init
  <2>6. Init => /\ pc \in [Devs -> {"idle"}] /\ knet \in [Devs -> {"off"}]
                /\ intr = FALSE /\ user = "wait" /\ todo = {}
    BY DEF Init
  <2>7. QED
    BY <2>2, <2>3, <2>4, <2>5, <2>6 DEF TypeOK
<1>2. TypeOK /\ [Next]_vars => TypeOK'
  BY TypeStep
<1>3. QED
  BY <1>1, <1>2, PTL DEF Spec

-----------------------------------------------------------------------------
(* The shared mask.                                                        *)

\* What the two drivers and the kernel BDE rely on.  KNET's bit is in the register, where
\* that is only written through lkbde_irq_mask_set, as it is in its own shadow, it is there
\* exactly when KNET wants interrupts and never in the primary's shadow, and what a handler
\* read of the mask has KNET's bit only together with its filter.
MaskInv(d) ==
    /\ kind[d] # "cmicx" => ("k" \in reg[d] <=> "k" \in imask2[d])
    /\ fmask[d] # {} <=> knet[d] \notin {"off", "leaving"}
    /\ d \notin KnetDevs => knet[d] = "off"
    /\ polling[d] => knet[d] = "on"
    /\ "k" \in imask2[d] <=> knet[d] = "on" /\ ~polling[d]
    /\ "k" \notin imask[d]
    /\ "k" \in seen[d].m => "k" \in seen[d].f

\* A call of lkbde_irq_mask_set by the primary driver keeps the part about the masks.
LEMMA MaskSetKeeps ==
    ASSUME TypeOK, NEW d \in Devs, NEW m \in SUBSET {"u", "k"}, MaskSet(d, m),
           \A e \in Devs : MaskInv(e), "k" \in m => "k" \in fmask[d],
           UNCHANGED <<kind, knet, polling>>, \A e \in Devs : seen'[e] \in {seen[e], Nothing}
    PROVE  \A e \in Devs : MaskInv(e)'
BY DEF TypeOK, MaskSet, MaskInv, Nothing

\* The same for the secondary driver: KNET is there, and asks for its interrupt exactly
\* when it runs and does not poll.
LEMMA MaskSet2Keeps ==
    ASSUME TypeOK, NEW d \in KnetDevs, NEW m \in SUBSET {"k"}, MaskSet2(d, m, {"k"}),
           \A e \in Devs : MaskInv(e),
           UNCHANGED <<kind, seen>>,
           \A e \in Devs \ {d} : knet'[e] = knet[e] /\ polling'[e] = polling[e],
           knet'[d] \notin {"off", "leaving"}, polling'[d] => knet'[d] = "on",
           "k" \in m <=> knet'[d] = "on" /\ ~polling'[d]
    PROVE  \A e \in Devs : MaskInv(e)'
<1>1. d \in Devs
  BY IrqAssumption
<1>2. /\ imask' = imask /\ fmask' = [fmask EXCEPT ![d] = {"k"}]
      /\ imask2' = [imask2 EXCEPT ![d] = m]
      /\ reg' = [reg EXCEPT ![d] = imask[d] \cup m]
  BY DEF MaskSet2
<1>3. ASSUME NEW e \in Devs, e # d PROVE MaskInv(e)'
  <2>1. /\ fmask'[e] = fmask[e] /\ imask2'[e] = imask2[e] /\ reg'[e] = reg[e]
    BY <1>1, <1>2, <1>3 DEF TypeOK
  <2>2. MaskInv(e) /\ knet'[e] = knet[e] /\ polling'[e] = polling[e]
    BY <1>3
  <2>3. QED
    BY <1>2, <2>1, <2>2 DEF MaskInv
<1>4. MaskInv(d)'
  <2>1. fmask'[d] = {"k"} /\ imask2'[d] = m /\ reg'[d] = imask[d] \cup m
    BY <1>1, <1>2 DEF TypeOK
  <2>2. MaskInv(d)
    BY <1>1
  <2>3. QED
    BY <1>2, <2>1, <2>2 DEF MaskInv
<1>5. QED
  BY <1>3, <1>4

\* Every step keeps it, if user mode does not enable KNET's sources early and KNET is not
\* unloaded during a poll.
LEMMA MaskStep ==
    ASSUME ~EarlyKnetBits, ~UnloadWhilePolling,
           TypeOK, \A d \in Devs : MaskInv(d), [Next]_vars
    PROVE  \A d \in Devs : MaskInv(d)'
<1> USE DEF masks, handlers, knetvars, uservars
<1> DEFINE Goal == \A e \in Devs : MaskInv(e)'
<1>1. ASSUME NEW d \in Devs, HwRaise(d) \/ Interrupt(d) \/ Enable(d) \/ Disable(d)
      PROVE Goal
  BY <1>1 DEF TypeOK, MaskInv, HwRaise, Interrupt, Enable, Disable
<1>2. ASSUME NEW d \in Devs, Get(d) PROVE Goal
  <2>1. "k" \in imask2[d] => "k" \in fmask[d]
    BY DEF MaskInv, TypeOK
  <2>2. seen'[d].m = imask[d] \cup imask2[d] /\ seen'[d].f = fmask[d]
    BY <1>2 DEF Get, TypeOK
  <2>3. \A e \in Devs \ {d} : seen'[e] = seen[e]
    BY <1>2 DEF Get, TypeOK
  <2>4. QED
    BY <1>2, <2>1, <2>2, <2>3 DEF MaskInv, Get
<1>3. ASSUME NEW d \in Devs, Test(d) PROVE Goal
  <2>1. \A e \in Devs : seen'[e] \in {seen[e], Nothing}
    BY <1>3 DEF Test, TypeOK
  <2>2. CASE MaskSet(d, seen[d].m \ seen[d].f)
    <3>1. seen[d].m \ seen[d].f \in SUBSET {"u", "k"}
      BY DEF TypeOK
    <3>2. "k" \notin seen[d].m \ seen[d].f
      BY DEF MaskInv
    <3>3. QED
      BY <1>3, <2>1, <2>2, <3>1, <3>2, MaskSetKeeps DEF Test
  <2>3. CASE UNCHANGED masks
    BY <1>3, <2>1, <2>3 DEF Test, MaskInv, Nothing
  <2>4. QED
    BY <1>3, <2>2, <2>3 DEF Test
<1>4. ASSUME NEW d \in Devs, TestX(d) PROVE Goal
  <2>1. \A e \in Devs : seen'[e] = seen[e] \/ seen'[e].m = {}
    BY <1>4 DEF TestX, TypeOK
  <2>2. \A e \in Devs : kind[e] # "cmicx" => reg'[e] = reg[e]
    BY <1>4 DEF TestX, TypeOK
  <2>3. QED
    BY <1>4, <2>1, <2>2 DEF TestX, MaskInv
<1>5. ASSUME NEW d \in Devs, Mask(d) PROVE Goal
  <2>1. CASE kind[d] = "cmicx"
    BY <1>5, <2>1 DEF Mask, MaskInv, TypeOK
  <2>2. CASE kind[d] # "cmicx"
    BY <1>5, <2>2, MaskSetKeeps DEF Mask
  <2>3. QED
    BY <2>1, <2>2
<1>6. ASSUME NEW d \in Devs, Notify(d) PROVE Goal
  BY <1>6 DEF Notify, MaskInv, TypeOK, Nothing
<1>7. ASSUME NEW d \in Devs, Second(d) PROVE Goal
  <2>1. CASE UNCHANGED <<polling, masks>>
    BY <1>7, <2>1 DEF Second, MaskInv
  <2>2. CASE /\ knet[d] = "on" /\ polling' = [polling EXCEPT ![d] = TRUE]
             /\ MaskSet2(d, {}, {"k"})
    <3>1. d \in KnetDevs
      BY <2>2 DEF MaskInv
    <3>2. QED
      BY <1>7, <2>2, <3>1, MaskSet2Keeps DEF Second, TypeOK
  <2>3. QED
    BY <1>7, <2>1, <2>2 DEF Second
<1>8. ASSUME NEW d \in Devs, Visit(d) PROVE Goal
  <2>1. ASSUME NEW extra \in {{}, {"k"}}, extra # {} => fmask[d] # {},
               MaskSet(d, Shared(d) \cup extra)
        PROVE  Goal
    <3>1. Shared(d) \cup extra \in SUBSET {"u", "k"}
      BY DEF Shared
    <3>2. "k" \in Shared(d) \cup extra => "k" \in fmask[d]
      BY <2>1 DEF Shared, TypeOK
    <3>3. UNCHANGED <<kind, knet, polling, seen>>
      BY <1>8 DEF Visit
    <3>4. QED
      BY <2>1, <3>1, <3>2, <3>3, MaskSetKeeps
  <2>2. CASE UNCHANGED masks
    BY <1>8, <2>2 DEF Visit, MaskInv
  <2>3. QED
    BY <1>8, <2>1, <2>2 DEF Visit
<1>9. ASSUME NEW d \in KnetDevs, PollServe(d) PROVE Goal
  BY <1>9 DEF PollServe, MaskInv
<1>10. ASSUME NEW d \in KnetDevs, PollEnd(d) PROVE Goal
  <2>1. knet[d] = "on"
    BY <1>10, IrqAssumption DEF PollEnd, MaskInv
  <2>2. QED
    BY <1>10, <2>1, MaskSet2Keeps, IrqAssumption DEF PollEnd, TypeOK
<1>11. ASSUME NEW d \in KnetDevs, KnetInit(d) PROVE Goal
  BY <1>11, MaskSet2Keeps, IrqAssumption DEF KnetInit, TypeOK, MaskInv
<1>12. ASSUME NEW d \in KnetDevs, KnetStart(d) PROVE Goal
  BY <1>12, MaskSet2Keeps, IrqAssumption DEF KnetStart, TypeOK, MaskInv
<1>13. ASSUME NEW d \in KnetDevs, KnetStop(d) PROVE Goal
  BY <1>13, MaskSet2Keeps, IrqAssumption DEF KnetStop, TypeOK, MaskInv
<1>14. ASSUME NEW d \in KnetDevs, KnetDisconnect(d) PROVE Goal
  BY <1>14, IrqAssumption DEF KnetDisconnect, TypeOK, MaskInv
<1>19. ASSUME NEW d \in KnetDevs, KnetGone(d) PROVE Goal
  BY <1>19, IrqAssumption DEF KnetGone, TypeOK, MaskInv
<1>15. CASE Wake \/ Reset \/ UNCHANGED vars
  BY <1>15 DEF Wake, Reset, vars, MaskInv
<1>16. CASE \E d \in Devs : HwRaise(d) \/ HandlerStep(d) \/ Enable(d) \/ Disable(d)
  BY <1>16, <1>1, <1>2, <1>3, <1>4, <1>5, <1>6, <1>7 DEF HandlerStep
<1>17. CASE \E d \in KnetDevs : Poll(d) \/ KnetStep(d)
  BY <1>17, <1>9, <1>10, <1>11, <1>12, <1>13, <1>14, <1>19 DEF Poll, KnetStep
<1>18. QED
  BY <1>8, <1>15, <1>16, <1>17 DEF Next, UserStep

\* The inductive invariant holds.
LEMMA MaskInvariant ==
    ASSUME ~EarlyKnetBits, ~UnloadWhilePolling
    PROVE  Spec => [](TypeOK /\ \A d \in Devs : MaskInv(d))
<1>1. Init => \A d \in Devs : MaskInv(d)
  BY DEF Init, MaskInv, Nothing
<1>2. TypeOK /\ (\A d \in Devs : MaskInv(d)) /\ [Next]_vars => (\A d \in Devs : MaskInv(d))'
  BY MaskStep
<1>3. QED
  BY <1>1, <1>2, IrqTypeCorrect, PTL DEF Spec

\* User mode and KNET, which write one register, keep out of each other's bits: KNET's
\* interrupt is enabled exactly when KNET wants it, whatever the devices do at the same time.
THEOREM KnetMaskCorrect ==
    ASSUME ~EarlyKnetBits, ~UnloadWhilePolling
    PROVE  Spec => []KnetMaskShared
<1>1. TypeOK /\ (\A d \in Devs : MaskInv(d)) => KnetMaskShared
  BY DEF TypeOK, MaskInv, KnetMaskShared, KnetMaskKept
<1>2. QED
  BY <1>1, MaskInvariant, PTL

\* Nothing is filtered from the masks of user mode when KNET is gone.
THEOREM FilterCorrect ==
    ASSUME ~EarlyKnetBits, ~UnloadWhilePolling
    PROVE  Spec => []FilterOwned
<1>1. (\A d \in Devs : MaskInv(d)) => FilterOwned
  BY DEF MaskInv, FilterOwned
<1>2. QED
  BY <1>1, MaskInvariant, PTL

-----------------------------------------------------------------------------
(* No interrupt of user mode is lost.                                      *)

\* Somebody is to enable the sources of the device.
Due(d) == pc[d] \in {"mask", "notify"} \/ intr \/ user = "woken" \/ d \in todo

\* The thread has devices to visit only while it serves them; a device's sources are
\* enabled or somebody is to enable them, and the same goes for the shadow of the shared
\* register, from which KNET's mask calls restore it (_bcm88750_interrupt clears the shadow
\* alone).
UserInv ==
    /\ user # "serve" => todo = {}
    /\ UserHeard
    /\ \A d \in Devs : isr[d] /\ kind[d] # "cmic" /\ ~(Shared(d) \subseteq imask[d]) => Due(d)

\* Mask calls of KNET leave the sources of user mode as they are.
LEMMA MaskSet2User ==
    ASSUME TypeOK, UserInv, NEW d \in Devs, NEW m \in SUBSET {"k"}, MaskSet2(d, m, {"k"}),
           UNCHANGED <<kind, direct, isr, intr, user, todo>>,
           \A e \in Devs : pc[e] \in {"mask", "notify"} => pc'[e] = pc[e]
    PROVE  UserInv'
<1>1. \A e \in Devs \ {d} : reg'[e] = reg[e]
  BY DEF TypeOK, MaskSet2
<1>2. imask' = imask /\ ("u" \in reg'[d] <=> "u" \in imask[d])
  BY DEF TypeOK, MaskSet2
<1>3. \A e \in Devs : Due(e) => Due(e)'
  BY DEF Due
<1>4. \A e \in Devs : isr[e] /\ kind[e] # "cmic" /\ ~(Shared(e) \subseteq imask'[e]) => Due(e)'
  BY <1>2, <1>3 DEF UserInv
<1>5. \A e \in Devs : kind[e] # "cmic" => UserEnabled(e)'
  <2> SUFFICES ASSUME NEW e \in Devs, kind[e] # "cmic", isr[e],
                      ~(Shared(e) \subseteq reg'[e] /\ Direct(e) \subseteq direct[e])
               PROVE  Due(e)'
    BY DEF UserEnabled, Due, Shared, Direct
  <2>1. CASE e # d
    BY <1>1, <1>3, <2>1 DEF UserInv, UserHeard, UserEnabled, Due
  <2>2. CASE e = d /\ ~(Shared(e) \subseteq reg'[e])
    BY <1>2, <1>4, <2>2 DEF Shared
  <2>3. CASE ~(Direct(e) \subseteq direct[e])
    BY <1>3, <2>3 DEF UserInv, UserHeard, UserEnabled, Due
  <2>4. QED
    BY <2>1, <2>2, <2>3
<1>6. QED
  BY <1>4, <1>5 DEF UserInv, UserHeard, Shared

\* A step that leaves masks and thread alone, and no handler between masking and the flag.
LEMMA UserFrame ==
    ASSUME UserInv, UNCHANGED <<kind, imask, reg, direct, isr, intr, user, todo>>,
           \A e \in Devs : pc[e] \in {"mask", "notify"} => pc'[e] = pc[e]
    PROVE  UserInv'
BY DEF UserInv, Due, UserHeard, UserEnabled, Shared, Direct

\* Every step keeps it.
LEMMA UserStepKeeps ==
    ASSUME TypeOK, UserInv, [Next]_vars
    PROVE  UserInv'
<1> USE DEF masks, handlers, knetvars, uservars
<1>1. ASSUME NEW d \in Devs, HwRaise(d) \/ Interrupt(d) \/ Get(d) PROVE UserInv'
  <2>1. \A e \in Devs : pc[e] \in {"mask", "notify"} => pc'[e] = pc[e]
    <3>1. CASE UNCHANGED pc
      BY <3>1
    <3>2. ASSUME NEW l, pc[d] \in {"idle", "get"}, pc' = [pc EXCEPT ![d] = l]
          PROVE  \A e \in Devs : pc[e] \in {"mask", "notify"} => pc'[e] = pc[e]
      BY <3>2 DEF TypeOK
    <3>3. QED
      BY <1>1, <3>1, <3>2 DEF HwRaise, Interrupt, Get, Goto
  <2>2. QED
    BY <1>1, <2>1, UserFrame DEF HwRaise, Interrupt, Get
<1>2. ASSUME NEW d \in Devs, Test(d) PROVE UserInv'
  <2>1. CASE kind[d] = "cmic" /\ MaskSet(d, seen[d].m \ seen[d].f)
    BY <1>2, <2>1 DEF TypeOK, Test, MaskSet, Goto, UserInv, Due, UserHeard, UserEnabled, Shared, Direct
  <2>2. CASE UNCHANGED masks
    BY <1>2, <2>2 DEF TypeOK, Test, Goto, UserInv, Due, UserHeard, UserEnabled, Shared, Direct
  <2>3. QED
    BY <1>2, <2>1, <2>2 DEF Test
<1>3. ASSUME NEW d \in Devs, TestX(d) PROVE UserInv'
  <2>1. \A e \in Devs : pc[e] \in {"mask", "notify"} => pc'[e] = pc[e]
    <3>1. pc' = [pc EXCEPT ![d] = "second"] \/ pc' = [pc EXCEPT ![d] = "mask"]
      BY <1>3 DEF TestX, Goto
    <3>2. QED
      BY <1>3, <3>1 DEF TypeOK, TestX
  <2>2. \A e \in Devs : kind[e] # "cmicx" => reg'[e] = reg[e]
    BY <1>3 DEF TestX, TypeOK
  <2>3. QED
    BY <1>3, <2>1, <2>2 DEF TestX, UserInv, Due, UserHeard, UserEnabled, Shared, Direct
<1>4. ASSUME NEW d \in Devs, Mask(d) PROVE UserInv'
  <2>1. pc' = [pc EXCEPT ![d] = "notify"]
    BY <1>4 DEF Mask, Goto
  <2>2. UNCHANGED <<kind, direct, isr, intr, user, todo>>
    BY <1>4 DEF Mask
  <2>3. \A e \in Devs \ {d} : reg'[e] = reg[e] /\ imask'[e] = imask[e]
    BY <1>4 DEF TypeOK, Mask, MaskSet
  <2>4. pc'[d] = "notify" /\ \A e \in Devs \ {d} : pc'[e] = pc[e]
    BY <2>1 DEF TypeOK
  <2>5. Due(d)' /\ \A e \in Devs \ {d} : Due(e)' = Due(e)
    BY <2>2, <2>4 DEF Due
  <2>6. QED
    BY <2>2, <2>3, <2>5 DEF UserInv, Due, UserHeard, UserEnabled, Shared, Direct
<1>5. ASSUME NEW d \in Devs, Notify(d) PROVE UserInv'
  <2>1. intr' /\ UNCHANGED <<user, todo>>
    BY <1>5 DEF Notify
  <2>2. \A e \in Devs : Due(e)'
    BY <2>1 DEF Due
  <2>3. QED
    BY <2>1, <2>2 DEF UserInv, Due, UserHeard, UserEnabled
<1>6. ASSUME NEW d \in Devs, Second(d) PROVE UserInv'
  <2>1. \A e \in Devs : pc[e] \in {"mask", "notify"} => pc'[e] = pc[e]
    BY <1>6 DEF TypeOK, Second, Goto
  <2>2. CASE MaskSet2(d, {}, {"k"})
    BY <1>6, <2>1, <2>2, MaskSet2User DEF Second
  <2>3. CASE UNCHANGED masks
    BY <1>6, <2>1, <2>3 DEF Second, UserInv, Due, UserHeard, UserEnabled, Shared, Direct
  <2>4. QED
    BY <1>6, <2>2, <2>3 DEF Second
<1>7. ASSUME NEW d \in Devs, Enable(d) \/ Disable(d) PROVE UserInv'
  <2>1. CASE Enable(d)
    <3>1. \A e \in Devs \ {d} : isr'[e] = isr[e] /\ (Due(e) => Due(e)')
      BY <2>1 DEF TypeOK, Enable, UserInv, Due
    <3>2. Due(d)'
      BY <2>1 DEF Enable, Due
    <3>3. QED
      BY <2>1, <3>1, <3>2 DEF Enable, UserInv, Due, UserHeard, UserEnabled, Shared, Direct
  <2>2. CASE Disable(d)
    <3>1. \A e \in Devs : (isr'[e] => isr[e]) /\ Due(e)' = Due(e)
      BY <2>2 DEF TypeOK, Disable, Due
    <3>2. QED
      BY <2>2, <3>1 DEF Disable, UserInv, Due, UserHeard, UserEnabled, Shared, Direct
  <2>3. QED
    BY <1>7, <2>1, <2>2
<1>8. ASSUME NEW d \in Devs, Visit(d) PROVE UserInv'
  <2>1. ASSUME NEW extra \in {{}, {"k"}}, MaskSet(d, Shared(d) \cup extra)
        PROVE  UserInv'
    BY <1>8, <2>1 DEF TypeOK, Visit, MaskSet, UserInv, Due, UserHeard, UserEnabled, Shared, Direct
  <2>2. CASE Shared(d) = {} /\ UNCHANGED masks
    BY <1>8, <2>2 DEF TypeOK, Visit, UserInv, Due, UserHeard, UserEnabled, Shared, Direct
  <2>3. QED
    BY <1>8, <2>1, <2>2 DEF Visit
<1>9. ASSUME NEW d \in KnetDevs, Poll(d) \/ KnetInit(d) \/ KnetStop(d) \/ KnetStart(d)
      PROVE  UserInv'
  <2>1. CASE UNCHANGED masks
    BY <1>9, <2>1 DEF Poll, PollServe, PollEnd, KnetInit, KnetStop, KnetStart, UserInv,
                      Due, UserHeard, UserEnabled, Shared, Direct
  <2>2. ASSUME NEW m \in SUBSET {"k"}, MaskSet2(d, m, {"k"})
        PROVE  UserInv'
    BY <1>9, <2>2, MaskSet2User, IrqAssumption
    DEF Poll, PollServe, PollEnd, KnetInit, KnetStop, KnetStart
  <2>3. QED
    BY <1>9, <2>1, <2>2 DEF Poll, PollServe, PollEnd, KnetInit, KnetStop, KnetStart
<1>10. ASSUME NEW d \in KnetDevs, KnetDisconnect(d) \/ KnetGone(d) PROVE UserInv'
  BY <1>10 DEF KnetDisconnect, KnetGone, UserInv, Due, UserHeard, UserEnabled, Shared, Direct
<1>11. CASE Wake \/ Reset \/ UNCHANGED vars
  BY <1>11 DEF TypeOK, Wake, Reset, vars, UserInv, Due, UserHeard, UserEnabled, Shared, Direct
<1>12. CASE \E d \in Devs : HwRaise(d) \/ HandlerStep(d) \/ Enable(d) \/ Disable(d)
  BY <1>12, <1>1, <1>2, <1>3, <1>4, <1>5, <1>6, <1>7 DEF HandlerStep
<1>13. CASE \E d \in KnetDevs : Poll(d) \/ KnetStep(d)
  BY <1>13, <1>9, <1>10 DEF KnetStep
<1>14. QED
  BY <1>8, <1>11, <1>12, <1>13 DEF Next, UserStep

\* No interrupt of user mode is lost, on any number of devices that share the flag, with
\* handlers on several processors, and whatever KNET does.
THEOREM UserHeardCorrect == Spec => []UserHeard
<1>1. Init => UserInv
  BY DEF Init, UserInv, UserHeard, UserEnabled
<1>2. TypeOK /\ UserInv /\ [Next]_vars => UserInv'
  BY UserStepKeeps
<1>3. UserInv => UserHeard
  BY DEF UserInv
<1>4. QED
  BY <1>1, <1>2, <1>3, IrqTypeCorrect, PTL DEF Spec

=============================================================================
