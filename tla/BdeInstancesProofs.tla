-------------------------- MODULE BdeInstancesProofs --------------------------
(***************************************************************************)
(* Proofs about instances (BdeInstances): for any number of devices, any   *)
(* division of them into instances and any amount of DMA memory, processes *)
(* that attach and send VERSION one at a time get DMA memory, an interrupt *)
(* queue and an event queue of their own, and the tables, which have as    *)
(* many elements as there are devices, do not run out.                     *)
(*                                                                         *)
(* ATTACH_INSTANCE and VERSION share only the instance of a device, so     *)
(* there are two invariants, of the user BDE and of KNET.                  *)
(***************************************************************************)
EXTENDS BdeInstances, FiniteSetTheorems, TLAPS

-----------------------------------------------------------------------------
(* Instances.                                                              *)

\* Instances are sets of devices that are not empty and have none in common.
LEMMA Instances ==
    ASSUME part \in Partitions
    PROVE  /\ \A p \in part : p \subseteq Devs /\ p # {} /\ p \in Insts
           /\ \A p, q \in part : \A d \in p : d \in q => p = q
           /\ \A p \in part : p = Devs => \A q \in part : q = p
<1>1. /\ UNION part = Devs /\ {} \notin part
      /\ \A p, q \in part : p # q => p \cap q = {}
  BY InstancesAssumption
<1>2. \A p \in part : p \subseteq Devs /\ p # {} /\ p \in Insts
  BY <1>1 DEF Insts
<1>3. \A p, q \in part : \A d \in p : d \in q => p = q
  BY <1>1
<1>4. \A p \in part : p = Devs => \A q \in part : q = p
  BY <1>2, <1>3
<1>5. QED
  BY <1>2, <1>3, <1>4

\* The tables have an element for each instance: not all of them can be given to others.
LEMMA EnoughElements ==
    ASSUME part \in Partitions, NEW p \in part, NEW f,
           \A i \in Elements : f[i] \in part /\ f[i] # p,
           \A i, j \in Elements : i # j => f[i] # f[j]
    PROVE  FALSE
<1> DEFINE g == [i \in Elements |-> CHOOSE d \in Devs : d \in f[i]]
           T == Devs \ p
<1>1. \A i \in Elements : g[i] \in f[i] /\ g[i] \in T
  <2> SUFFICES ASSUME NEW i \in Elements PROVE g[i] \in f[i] /\ g[i] \in T
    OBVIOUS
  <2>1. f[i] \subseteq Devs /\ f[i] # {}
    BY Instances
  <2>2. \E d \in Devs : d \in f[i]
    BY <2>1
  <2>3. g[i] \in Devs /\ g[i] \in f[i]
    BY <2>2
  <2>4. g[i] \notin p
    BY <2>3, Instances
  <2>5. QED
    BY <2>3, <2>4
<1>2. \A i, j \in Elements : i # j => g[i] # g[j]
  BY <1>1, Instances
<1>3. IsFiniteSet(Devs) /\ Elements = Devs
  BY InstancesAssumption, FS_Interval DEF Devs, Elements
<1>4. IsFiniteSet(T) /\ Cardinality(T) < Cardinality(Elements)
  <2>1. T \in SUBSET Devs /\ T # Devs
    BY Instances
  <2>2. IsFiniteSet(T) /\ Cardinality(T) <= Cardinality(Devs) /\ Cardinality(T) # Cardinality(Devs)
    BY <1>3, <2>1, FS_Subset
  <2>3. Cardinality(T) \in Nat /\ Cardinality(Devs) \in Nat
    BY <1>3, <2>2, FS_CardinalityType
  <2>4. QED
    BY <1>3, <2>2, <2>3
<1>5. g \in [Elements -> T]
  BY <1>1
<1> HIDE DEF g, T
<1>6. \E i, j \in Elements : i # j /\ g[i] = g[j]
  BY <1>3, <1>4, <1>5, FS_PigeonHole
<1>7. QED
  BY <1>2, <1>6

\* The first element of a set of elements.
LEMMA FirstElement ==
    ASSUME NEW T \in SUBSET Elements, T # {}
    PROVE  Min(T) \in T /\ \A y \in T : Min(T) <= y
<1>1. T \in SUBSET Nat
  BY InstancesAssumption DEF Elements
<1>2. PICK x \in T : \A y \in T : <<y, x>> \notin OpToRel(<, Nat)
  BY <1>1, WFMin, NatLessThanWellFounded, Zenon
<1>3. \A y \in T : ~(y < x)
  BY <1>1, <1>2, Zenon DEF OpToRel
<1>4. \A y \in T : x <= y
  BY <1>1, <1>3
<1>5. QED
  BY <1>4 DEF Min

\* There are elements, and the first one is 0.
LEMMA FirstOfAll == Elements # {} /\ 0 \in Elements /\ Min(Elements) = 0
<1>1. 0 \in Elements /\ \A i \in Elements : i \in Int /\ i >= 0
  BY InstancesAssumption DEF Elements
<1>2. Min(Elements) \in Elements /\ Min(Elements) <= 0
  BY <1>1, FirstElement
<1>3. QED
  BY <1>1, <1>2

-----------------------------------------------------------------------------
(* The user BDE.                                                           *)

AttachType ==
    /\ part \in Partitions /\ ask \in [Insts -> Sizes]
    /\ DOMAIN proc = Insts
    /\ res \in [Elements -> [inst : SUBSET Devs, off : Nat, size : Nat]]
    /\ offset \in 0 .. TotalSize /\ multi \in Nat
    /\ dinst \in [Devs -> Indices] /\ granted \in [Insts -> Nat]

\* Only one process is attaching, and it has no memory to use in the meantime.
OneAttaching ==
    \A p \in part : proc[p].pc \in AttachSteps =>
        /\ granted[p] = 0
        /\ \A q \in part : proc[q].pc \in AttachSteps => q = p

\* What a process that is attaching knows, where memory below x is in use.
Lower(x) ==
    \A i \in Elements : multi > 0 /\ res[i].inst # None => res[i].off + res[i].size <= x

AttachPlace(p) ==
    /\ proc[p].pc = "alloc" => proc[p] = [pc |-> "alloc", n |-> ask[p]]
    /\ proc[p].pc = "reserve" =>
         /\ proc[p] = [pc |-> "reserve", n |-> ask[p], off |-> offset]
         /\ offset + ask[p] <= TotalSize
    /\ proc[p].pc = "choose" =>
         /\ proc[p] = [pc |-> "choose", n |-> ask[p], off |-> offset - ask[p]]
         /\ offset - ask[p] \in Nat /\ Lower(offset - ask[p])
    /\ proc[p].pc = "take" =>
         /\ offset - ask[p] \in Nat /\ Lower(offset - ask[p])
         /\ \E i \in Elements :
              /\ proc[p] = [pc |-> "take", n |-> ask[p], off |-> offset - ask[p], i |-> i]
              /\ IF multi = 0 THEN i = 0 ELSE res[i].inst = None
    /\ proc[p].pc = "assign" =>
         \E i \in Elements :
              /\ proc[p] = [pc |-> "assign", n |-> ask[p], off |-> offset - ask[p], i |-> i]
              /\ multi > 0 /\ res[i].inst = p

\* It did not find an element of its instance.
AttachNew ==
    \A p \in part : proc[p].pc \in {"alloc", "reserve", "choose", "take"} =>
        multi = 0 \/ \A i \in Elements : res[i].inst # p

\* Before the first instance, element 0 stands for all devices.
AsLoaded ==
    multi = 0 =>
        /\ \A i \in Elements : IF i = 0 THEN res[i].inst = Devs /\ res[i].size = TotalSize
                                                  /\ res[i].off = 0
                               ELSE res[i].inst = None
        /\ \A d \in Devs : dinst[d] = 0

\* Then each element that is in use is that of one instance, which has no other, with
\* memory of the size it asked for that no other element has.
TakenElement(i) ==
    LET p == res[i].inst IN
    /\ p \in part /\ res[i].size = ask[p]
    /\ res[i].off + res[i].size <= offset
    /\ proc[p].pc = "assign" \/ \A d \in p : dinst[d] = i
    /\ \A j \in Elements : j # i =>
         /\ res[j].inst # p
         /\ res[j].inst # None =>
              \/ res[i].off + res[i].size <= res[j].off
              \/ res[j].off + res[j].size <= res[i].off

Taken == multi > 0 => \A i \in Elements : res[i].inst # None => TakenElement(i)

\* What ATTACH_INSTANCE granted.
Grants ==
    \A p \in part : granted[p] > 0 =>
        /\ granted[p] = ask[p]
        /\ IF multi = 0 THEN p = Devs /\ ask[p] = TotalSize
           ELSE \E i \in Elements : res[i].inst = p /\ \A d \in p : dinst[d] = i

AttachInv ==
    /\ AttachType /\ OneAttaching /\ \A p \in part : AttachPlace(p)
    /\ AttachNew /\ AsLoaded /\ Taken /\ Grants

\* The user BDE after it was loaded.
JustLoaded ==
    /\ part \in Partitions /\ ask \in [Insts -> Sizes]
    /\ DOMAIN proc = Insts /\ \A p \in part : proc[p] = Ready
    /\ res = [i \in Elements |->
                 IF i = 0 THEN [inst |-> Devs, off |-> 0, size |-> TotalSize]
                 ELSE [inst |-> None, off |-> 0, size |-> 0]]
    /\ offset = 0 /\ multi = 0 /\ dinst = [d \in Devs |-> 0]
    /\ granted = [p \in Insts |-> 0]

\* AttachInv holds after the user BDE was loaded.
LEMMA LoadStep == JustLoaded => AttachInv
<1> SUFFICES ASSUME JustLoaded PROVE AttachInv
  OBVIOUS
<1> USE DEF JustLoaded
<1>1. TotalSize \in Nat /\ 0 \in Indices
  BY InstancesAssumption, FirstOfAll DEF Indices
<1>2. \A p \in part : proc[p].pc = "ready"
  BY DEF Ready
<1>3. \A p \in part : granted[p] = 0
  BY Instances
<1>4. AttachType
  <2>1. res \in [Elements -> [inst : SUBSET Devs, off : Nat, size : Nat]]
    BY <1>1 DEF None
  <2>2. QED
    BY <1>1, <2>1 DEF AttachType
<1>5. OneAttaching /\ AttachNew /\ \A p \in part : AttachPlace(p)
  BY <1>2 DEF OneAttaching, AttachNew, AttachPlace, AttachSteps
<1>6. AsLoaded /\ Taken /\ Grants
  BY <1>3 DEF AsLoaded, Taken, Grants
<1>7. QED
  BY <1>4, <1>5, <1>6 DEF AttachInv

\* Steps that have nothing to do with attaching.
LEMMA OtherStep ==
    ASSUME AttachInv, UNCHANGED <<part, ask, userbde>>, DOMAIN proc' = Insts,
           NEW p \in part, proc[p].pc \notin AttachSteps, proc'[p].pc \notin AttachSteps,
           \A q \in part : q # p => proc'[q] = proc[q]
    PROVE  AttachInv'
<1>1. AttachType'
  BY DEF AttachInv, AttachType, userbde
<1>2. \A q \in part : proc[q].pc \in AttachSteps \/ proc'[q].pc \in AttachSteps =>
         q # p /\ proc'[q] = proc[q]
  OBVIOUS
<1>3. OneAttaching'
  BY <1>2 DEF AttachInv, OneAttaching, userbde
<1>4. ASSUME NEW q \in part PROVE AttachPlace(q)'
  <2>1. CASE proc'[q].pc \in AttachSteps
    <3>1. proc'[q] = proc[q]
      BY <1>2, <2>1
    <3>2. AttachPlace(q)
      BY DEF AttachInv
    <3>3. QED
      BY <3>1, <3>2 DEF AttachPlace, Lower, userbde
  <2>2. CASE proc'[q].pc \notin AttachSteps
    BY <2>2 DEF AttachPlace, AttachSteps
  <2>3. QED
    BY <2>1, <2>2
<1>5. AttachNew'
  BY <1>2 DEF AttachInv, AttachNew, AttachSteps, userbde
<1>6. AsLoaded' /\ Grants'
  BY DEF AttachInv, AsLoaded, Grants, userbde
<1>7. Taken'
  <2> SUFFICES ASSUME multi > 0, NEW i \in Elements, res[i].inst # None
               PROVE  TakenElement(i)'
    BY DEF Taken, userbde
  <2>1. TakenElement(i)
    BY DEF AttachInv, Taken
  <2>2. res[i].inst \in part
    BY <2>1 DEF TakenElement
  <2>3. proc[res[i].inst].pc = "assign" => proc'[res[i].inst].pc = "assign"
    BY <1>2, <2>2 DEF AttachSteps
  <2>4. QED
    BY <2>1, <2>3 DEF TakenElement, userbde
<1>8. QED
  BY <1>1, <1>3, <1>4, <1>5, <1>6, <1>7 DEF AttachInv

\* Steps of the process that is attaching leave other processes where they are.
LEMMA OtherPlaces ==
    ASSUME AttachInv, UNCHANGED <<part, ask>>,
           NEW p \in part, proc[p].pc \in AttachSteps \/ proc'[p].pc \in AttachSteps,
           \A q \in part : q # p => proc[q].pc \notin AttachSteps,
           \A q \in part : q # p => proc'[q] = proc[q]
    PROVE  /\ \A q \in part : q # p => AttachPlace(q)'
           /\ \A q \in part : q # p => proc'[q].pc \notin AttachSteps
<1>1. \A q \in part : q # p => proc'[q].pc \notin AttachSteps
  OBVIOUS
<1>2. QED
  BY <1>1 DEF AttachPlace, AttachSteps

\* What a process that asks again finds.
LEMMA Validated ==
    ASSUME AttachInv, NEW p \in part, proc[p] = Ready
    PROVE  /\ Validate(p, ask[p]) = "exists" =>
                /\ ask[p] > 0
                /\ IF multi = 0 THEN p = Devs /\ ask[p] = TotalSize
                   ELSE \E i \in Elements : res[i].inst = p /\ \A d \in p : dinst[d] = i
           /\ Validate(p, ask[p]) # "exists" =>
                multi = 0 \/ \A i \in Elements : res[i].inst # p
<1>1. p # {} /\ p # None /\ p \in Insts
  BY Instances DEF AttachInv, AttachType, None
<1>2. ask[p] > 0
  <2>1. ask[p] \in Sizes
    BY <1>1 DEF AttachInv, AttachType
  <2>2. QED
    BY <2>1, InstancesAssumption
<1>3. CASE OfInst(p) = {}
  BY <1>3 DEF Validate, OfInst
<1>4. CASE OfInst(p) # {}
  <2> DEFINE i == Min(OfInst(p))
  <2>1. i \in Elements /\ res[i].inst = p
    <3>1. OfInst(p) \in SUBSET Elements
      BY DEF OfInst
    <3>2. i \in OfInst(p)
      BY <1>4, <3>1, FirstElement
    <3>3. QED
      BY <3>2 DEF OfInst
  <2>2. Validate(p, ask[p]) = IF res[i].size = ask[p] THEN "exists"
                              ELSE IF dinst[i] = 0 THEN "new" ELSE "mismatch"
    BY <1>4 DEF Validate
  <2> HIDE DEF i
  <2>3. CASE multi = 0
    <3>1. i = 0 /\ p = Devs /\ res[i].size = TotalSize
      BY <1>1, <2>1, <2>3 DEF AttachInv, AsLoaded
    <3>2. QED
      BY <1>2, <2>2, <2>3, <3>1
  <2>4. CASE multi # 0
    <3>1. multi > 0
      BY <2>4 DEF AttachInv, AttachType
    <3>2. TakenElement(i)
      BY <1>1, <2>1, <3>1 DEF AttachInv, Taken
    <3>3. res[i].size = ask[p] /\ \A d \in p : dinst[d] = i
      BY <2>1, <3>2 DEF TakenElement, Ready
    <3>4. QED
      BY <1>2, <2>1, <2>2, <2>4, <3>3
  <2>5. QED
    BY <2>3, <2>4
<1>5. QED
  BY <1>3, <1>4

\* Attach keeps AttachInv.
LEMMA AttachStep ==
    ASSUME AttachInv, OneAttach, SameSize, NEW p \in part, Attach(p)
    PROVE  AttachInv'
<1> DEFINE n == ask[p]
           v == Validate(p, n)
<1>0. p \in Insts /\ proc[p] = Ready /\ proc[p].pc = "ready" /\ n \in Nat
      /\ DOMAIN proc = Insts
  <2>1. p \in Insts
    BY Instances DEF AttachInv, AttachType
  <2>2. n \in Nat
    BY <2>1, InstancesAssumption DEF AttachInv, AttachType
  <2>3. QED
    BY <2>1, <2>2 DEF Attach, Ready, AttachInv, AttachType
<1>1. /\ UNCHANGED <<part, ask, res, offset, multi, dinst>>
      /\ \/ /\ v = "exists"
            /\ granted' = [granted EXCEPT ![p] = n] /\ proc' = proc
         \/ /\ v # "exists"
            /\ granted' = [granted EXCEPT ![p] = 0]
            /\ \/ proc' = proc
               \/ proc' = [proc EXCEPT ![p] = [pc |-> "alloc", n |-> n]]
  BY SMT DEF Attach, Then
<1> HIDE DEF v
<1>2. \A q \in part : proc[q].pc \notin AttachSteps
  <2>1. \A q \in part \ {p} : proc[q].pc \notin AttachSteps
    BY DEF Attach, Others
  <2>2. QED
    BY <1>0, <2>1 DEF AttachSteps
<1>3. AttachType'
  BY <1>0, <1>1 DEF AttachInv, AttachType
<1>4. \A q \in part : q # p => proc'[q] = proc[q] /\ granted'[q] = granted[q]
  <2>1. \A q \in part : q \in Insts
    BY Instances DEF AttachInv, AttachType
  <2>2. QED
    BY <1>0, <1>1, <2>1 DEF AttachInv, AttachType
<1>5. Taken'
  <2> SUFFICES ASSUME multi > 0, NEW i \in Elements, res[i].inst # None
               PROVE  TakenElement(i)'
    BY <1>1 DEF Taken
  <2>1. TakenElement(i)
    BY DEF AttachInv, Taken
  <2>2. proc[res[i].inst].pc # "assign"
    BY <1>2, <2>1 DEF TakenElement, AttachSteps
  <2>3. QED
    BY <1>1, <2>1, <2>2 DEF TakenElement
<1>6. AsLoaded'
  BY <1>1 DEF AttachInv, AsLoaded
<1>7. Grants'
  <2> SUFFICES ASSUME NEW q \in part, granted'[q] > 0
               PROVE  /\ granted'[q] = ask[q]
                      /\ IF multi = 0 THEN q = Devs /\ ask[q] = TotalSize
                         ELSE \E i \in Elements : res[i].inst = q /\ \A d \in q : dinst[d] = i
    BY <1>1 DEF Grants
  <2>1. CASE q # p
    BY <1>4, <2>1 DEF AttachInv, Grants
  <2>2. CASE q = p
    <3>1. v = "exists" /\ granted'[p] = n
      BY <1>0, <1>1, <2>2 DEF AttachInv, AttachType
    <3>2. QED
      BY <1>0, <2>2, <3>1, Validated DEF v
  <2>3. QED
    BY <2>1, <2>2
<1>8. CASE proc' = proc
  <2>1. OneAttaching' /\ AttachNew' /\ \A q \in part' : AttachPlace(q)'
    BY <1>1, <1>2, <1>8 DEF OneAttaching, AttachNew, AttachPlace, AttachSteps
  <2>2. QED
    BY <1>3, <1>5, <1>6, <1>7, <2>1 DEF AttachInv
<1>9. CASE v # "exists" /\ proc' = [proc EXCEPT ![p] = [pc |-> "alloc", n |-> n]]
  <2>1. proc'[p] = [pc |-> "alloc", n |-> n] /\ proc'[p].pc = "alloc"
    BY <1>0, <1>9
  <2>2. granted'[p] = 0
    BY <1>0, <1>1, <1>9 DEF AttachInv, AttachType
  <2>3. OneAttaching'
    BY <1>1, <1>2, <1>4, <2>1, <2>2 DEF OneAttaching
  <2>4. \A q \in part' : AttachPlace(q)'
    <3>1. AttachPlace(p)'
      BY <1>1, <2>1 DEF AttachPlace
    <3>2. \A q \in part : q # p => AttachPlace(q)'
      BY <1>2, <1>4, <1>1 DEF AttachPlace, AttachSteps
    <3>3. QED
      BY <1>1, <3>1, <3>2
  <2>5. AttachNew'
    <3>1. multi = 0 \/ \A i \in Elements : res[i].inst # p
      BY <1>0, <1>9, Validated DEF v
    <3>2. QED
      BY <1>1, <1>2, <1>4, <3>1 DEF AttachNew, AttachSteps
  <2>6. QED
    BY <1>3, <1>5, <1>6, <1>7, <2>3, <2>4, <2>5 DEF AttachInv
<1>10. QED
  BY <1>1, <1>8, <1>9

\* A process that goes on attaching: what the steps have in common.
LEMMA GoesOn ==
    ASSUME AttachInv, NEW p \in part, proc[p].pc \in AttachSteps,
           UNCHANGED <<part, ask>>, NEW do, proc' = [proc EXCEPT ![p] = do]
    PROVE  /\ p \in Insts /\ p # None /\ p \subseteq Devs
           /\ ask[p] \in Nat /\ ask[p] > 0 /\ granted[p] = 0
           /\ offset \in Nat /\ TotalSize \in Nat /\ offset <= TotalSize /\ multi \in Nat
           /\ DOMAIN proc' = Insts /\ proc'[p] = do
           /\ \A q \in part : q # p =>
                /\ q \in Insts /\ proc'[q] = proc[q]
                /\ proc[q].pc \notin AttachSteps /\ AttachPlace(q)'
           /\ granted' = granted => OneAttaching'
<1>1. p \in Insts /\ p # None /\ p \subseteq Devs /\ \A q \in part : q \in Insts
  BY Instances DEF AttachInv, AttachType, None
<1>2. ask[p] \in Nat /\ ask[p] > 0
  <2>1. ask[p] \in Sizes
    BY <1>1 DEF AttachInv, AttachType
  <2>2. QED
    BY <2>1, InstancesAssumption
<1>3. granted[p] = 0 /\ \A q \in part : q # p => proc[q].pc \notin AttachSteps
  BY DEF AttachInv, OneAttaching
<1>4. /\ offset \in Nat /\ TotalSize \in Nat /\ offset <= TotalSize /\ multi \in Nat
      /\ DOMAIN proc = Insts
  BY InstancesAssumption DEF AttachInv, AttachType
<1>5. /\ DOMAIN proc' = Insts /\ proc'[p] = do
      /\ \A q \in part : q # p => proc'[q] = proc[q]
  BY <1>1, <1>4
<1>6. \A q \in part : q # p => AttachPlace(q)'
  BY <1>3, <1>5, OtherPlaces
<1>7. granted' = granted => OneAttaching'
  BY <1>3, <1>5 DEF OneAttaching
<1>8. QED
  BY <1>1, <1>2, <1>3, <1>4, <1>5, <1>6, <1>7

\* DmaAlloc keeps AttachInv.
LEMMA DmaAllocStep ==
    ASSUME AttachInv, NEW p \in part, DmaAlloc(p)
    PROVE  AttachInv'
<1> DEFINE do == IF proc[p].n > TotalSize - offset THEN Ready
                 ELSE [pc |-> "reserve", n |-> proc[p].n, off |-> offset]
<1>1. /\ proc[p].pc = "alloc" /\ proc' = [proc EXCEPT ![p] = do]
      /\ UNCHANGED <<part, ask, userbde>>
  BY DEF DmaAlloc, Then
<1>2. proc[p].n = ask[p]
  <2>1. AttachPlace(p)
    BY DEF AttachInv
  <2>2. QED
    BY <1>1, <2>1 DEF AttachPlace
<1>3. proc[p].pc \in AttachSteps
  BY <1>1 DEF AttachSteps
<1> HIDE DEF do
<1>4. /\ p \in Insts /\ p # None /\ p \subseteq Devs
      /\ ask[p] \in Nat /\ ask[p] > 0 /\ granted[p] = 0
      /\ offset \in Nat /\ TotalSize \in Nat /\ offset <= TotalSize /\ multi \in Nat
      /\ DOMAIN proc' = Insts /\ proc'[p] = do
      /\ \A q \in part : q # p =>
           /\ q \in Insts /\ proc'[q] = proc[q]
           /\ proc[q].pc \notin AttachSteps /\ AttachPlace(q)'
      /\ granted' = granted => OneAttaching'
  BY <1>1, <1>3, GoesOn
<1>5. AttachType' /\ OneAttaching' /\ AsLoaded' /\ Grants'
  BY <1>1, <1>4 DEF AttachInv, AttachType, AsLoaded, Grants, userbde
<1>6. AttachPlace(p)'
  <2>1. CASE ask[p] > TotalSize - offset
    BY <1>2, <1>4, <2>1 DEF AttachPlace, do, Ready
  <2>2. CASE ~(ask[p] > TotalSize - offset)
    <3>1. /\ proc'[p] = [pc |-> "reserve", n |-> ask[p], off |-> offset]
          /\ offset + ask[p] <= TotalSize
      BY <1>2, <1>4, <2>2 DEF do
    <3>2. proc'[p].pc = "reserve"
      BY <3>1
    <3>3. QED
      BY <1>1, <3>1, <3>2 DEF AttachPlace, userbde
  <2>3. QED
    BY <2>1, <2>2
<1>7. AttachNew'
  BY <1>1, <1>4 DEF AttachInv, AttachNew, AttachSteps, userbde
<1>8. Taken'
  <2> SUFFICES ASSUME multi > 0, NEW i \in Elements, res[i].inst # None
               PROVE  TakenElement(i)'
    BY <1>1 DEF Taken, userbde
  <2>1. TakenElement(i)
    BY DEF AttachInv, Taken
  <2>2. proc[res[i].inst].pc # "assign"
    BY <1>1, <1>4, <2>1 DEF TakenElement, AttachSteps
  <2>3. QED
    BY <1>1, <2>1, <2>2 DEF TakenElement, userbde
<1>9. QED
  BY <1>1, <1>4, <1>5, <1>6, <1>7, <1>8 DEF AttachInv

\* Reserve keeps AttachInv.
LEMMA ReserveStep ==
    ASSUME AttachInv, NEW p \in part, Reserve(p)
    PROVE  AttachInv'
<1> DEFINE do == [proc[p] EXCEPT !.pc = "choose"]
<1>1. /\ proc[p].pc = "reserve" /\ proc' = [proc EXCEPT ![p] = do]
      /\ offset' = offset + proc[p].n
      /\ UNCHANGED <<part, ask, res, multi, dinst, granted>>
  BY DEF Reserve, Then
<1>2. proc[p] = [pc |-> "reserve", n |-> ask[p], off |-> offset] /\ offset + ask[p] <= TotalSize
  <2>1. AttachPlace(p)
    BY DEF AttachInv
  <2>2. QED
    BY <1>1, <2>1 DEF AttachPlace
<1>3. proc[p].pc \in AttachSteps
  BY <1>1 DEF AttachSteps
<1>4. do = [pc |-> "choose", n |-> ask[p], off |-> offset]
  BY <1>2
<1> HIDE DEF do
<1>5. /\ p \in Insts /\ p # None /\ p \subseteq Devs
      /\ ask[p] \in Nat /\ ask[p] > 0 /\ granted[p] = 0
      /\ offset \in Nat /\ TotalSize \in Nat /\ offset <= TotalSize /\ multi \in Nat
      /\ DOMAIN proc' = Insts /\ proc'[p] = do
      /\ \A q \in part : q # p =>
           /\ q \in Insts /\ proc'[q] = proc[q]
           /\ proc[q].pc \notin AttachSteps /\ AttachPlace(q)'
      /\ granted' = granted => OneAttaching'
  BY <1>1, <1>3, GoesOn
<1>6. offset' = offset + ask[p] /\ offset' \in Nat /\ offset' <= TotalSize
      /\ offset' - ask[p] = offset
  BY <1>1, <1>2, <1>5
<1>7. AttachType' /\ OneAttaching' /\ AsLoaded' /\ Grants'
  BY <1>1, <1>5, <1>6 DEF AttachInv, AttachType, AsLoaded, Grants
\* Memory that is in use lies below the old offset.
<1>8. \A i \in Elements : multi > 0 /\ res[i].inst # None =>
         res[i].off \in Nat /\ res[i].size \in Nat /\ res[i].off + res[i].size <= offset
  <2>1. \A i \in Elements : res[i].off \in Nat /\ res[i].size \in Nat
    BY DEF AttachInv, AttachType
  <2>2. \A i \in Elements : multi > 0 /\ res[i].inst # None => res[i].off + res[i].size <= offset
    BY DEF AttachInv, Taken, TakenElement
  <2>3. QED
    BY <2>1, <2>2
<1>9. AttachPlace(p)'
  <2>1. proc'[p] = [pc |-> "choose", n |-> ask[p], off |-> offset' - ask[p]]
        /\ proc'[p].pc = "choose"
    BY <1>4, <1>5, <1>6
  <2>2. Lower(offset - ask[p])'
    BY <1>1, <1>6, <1>8 DEF Lower
  <2>3. offset' - ask[p] \in Nat
    BY <1>5, <1>6
  <2>4. QED
    BY <1>1, <2>1, <2>2, <2>3 DEF AttachPlace
<1>10. AttachNew'
  BY <1>1, <1>5 DEF AttachInv, AttachNew, AttachSteps
<1>11. Taken'
  <2> SUFFICES ASSUME multi > 0, NEW i \in Elements, res[i].inst # None
               PROVE  TakenElement(i)'
    BY <1>1 DEF Taken
  <2>1. TakenElement(i)
    BY DEF AttachInv, Taken
  <2>2. proc[res[i].inst].pc # "assign"
    BY <1>1, <1>5, <2>1 DEF TakenElement, AttachSteps
  <2>3. res[i].off + res[i].size <= offset'
    BY <1>5, <1>6, <1>8
  <2>4. QED
    BY <1>1, <2>1, <2>2, <2>3 DEF TakenElement
<1>12. QED
  BY <1>1, <1>5, <1>7, <1>9, <1>10, <1>11 DEF AttachInv

\* An element can be had, and it is element 0 for the first instance.
LEMMA ElementForNew ==
    ASSUME AttachInv, NEW p \in part, proc[p].pc = "choose"
    PROVE  /\ FreeElements # {} /\ Min(FreeElements) \in Elements
           /\ IF multi = 0 THEN Min(FreeElements) = 0
              ELSE res[Min(FreeElements)].inst = None
<1>1. FreeElements # {}
  <2> SUFFICES ASSUME FreeElements = {} PROVE FALSE
    OBVIOUS
  <2>1. multi # 0 /\ \A i \in Elements : res[i].inst # None
    BY FirstOfAll DEF FreeElements
  <2>2. multi > 0
    BY <2>1 DEF AttachInv, AttachType
  <2>3. \A i \in Elements : TakenElement(i)
    BY <2>1, <2>2 DEF AttachInv, Taken
  <2>4. \A i \in Elements : res[i].inst # p
    BY <2>1 DEF AttachInv, AttachNew
  <2> DEFINE f == [i \in Elements |-> res[i].inst]
  <2>5. \A i \in Elements : f[i] \in part /\ f[i] # p
    BY <2>3, <2>4 DEF TakenElement
  <2>6. \A i, j \in Elements : i # j => f[i] # f[j]
    BY <2>3 DEF TakenElement
  <2>7. part \in Partitions
    BY DEF AttachInv, AttachType
  <2> HIDE DEF f
  <2>8. QED
    BY <2>5, <2>6, <2>7, EnoughElements
<1>2. FreeElements \in SUBSET Elements
  BY DEF FreeElements
<1>3. Min(FreeElements) \in FreeElements
  BY <1>1, <1>2, FirstElement
<1>4. multi = 0 => FreeElements = Elements
  BY DEF FreeElements
<1>5. QED
  BY <1>1, <1>2, <1>3, <1>4, FirstOfAll DEF FreeElements

\* Choose keeps AttachInv: there is an element to choose.
LEMMA ChooseStep ==
    ASSUME AttachInv, NEW p \in part, Choose(p)
    PROVE  AttachInv'
<1> DEFINE i == Min(FreeElements)
           do == [pc |-> "take", n |-> ask[p], off |-> offset - ask[p], i |-> i]
<1>1. proc[p].pc = "choose" /\ UNCHANGED <<part, ask, userbde>>
  BY DEF Choose
<1>2. /\ proc[p] = [pc |-> "choose", n |-> ask[p], off |-> offset - ask[p]]
      /\ offset - ask[p] \in Nat /\ Lower(offset - ask[p])
  <2>1. AttachPlace(p)
    BY DEF AttachInv
  <2>2. QED
    BY <1>1, <2>1 DEF AttachPlace
<1>3. proc[p].pc \in AttachSteps
  BY <1>1 DEF AttachSteps
<1>4. FreeElements # {} /\ i \in Elements /\ IF multi = 0 THEN i = 0 ELSE res[i].inst = None
  BY <1>1, ElementForNew
<1>5. i # -1
  BY <1>4, InstancesAssumption DEF Elements
<1>6. proc' = [proc EXCEPT ![p] = do]
  <2>1. proc' = [proc EXCEPT ![p] = [pc |-> IF i = -1 THEN "assign" ELSE "take",
                                     n |-> proc[p].n, off |-> proc[p].off, i |-> i]]
    BY <1>4, Zenon DEF Choose, Then
  <2>2. proc[p].n = ask[p] /\ proc[p].off = offset - ask[p]
    BY <1>2
  <2>3. QED
    BY <1>5, <2>1, <2>2
<1> HIDE DEF do, i
<1>7. /\ p \in Insts /\ p # None /\ p \subseteq Devs
      /\ ask[p] \in Nat /\ ask[p] > 0 /\ granted[p] = 0
      /\ offset \in Nat /\ TotalSize \in Nat /\ offset <= TotalSize /\ multi \in Nat
      /\ DOMAIN proc' = Insts /\ proc'[p] = do
      /\ \A q \in part : q # p =>
           /\ q \in Insts /\ proc'[q] = proc[q]
           /\ proc[q].pc \notin AttachSteps /\ AttachPlace(q)'
      /\ granted' = granted => OneAttaching'
  BY <1>1, <1>3, <1>6, GoesOn
<1>8. AttachType' /\ OneAttaching' /\ AsLoaded' /\ Grants'
  BY <1>1, <1>7 DEF AttachInv, AttachType, AsLoaded, Grants, userbde
<1>9. AttachPlace(p)'
  <2>1. proc'[p] = do /\ proc'[p].pc = "take"
    BY <1>7 DEF do
  <2>2. Lower(offset - ask[p])'
    BY <1>1, <1>2 DEF Lower, userbde
  <2>3. QED
    BY <1>1, <1>2, <1>4, <2>1, <2>2 DEF AttachPlace, userbde, do
<1>10. AttachNew'
  BY <1>1, <1>7 DEF AttachInv, AttachNew, AttachSteps, userbde
<1>11. Taken'
  <2> SUFFICES ASSUME multi > 0, NEW e \in Elements, res[e].inst # None
               PROVE  TakenElement(e)'
    BY <1>1 DEF Taken, userbde
  <2>1. TakenElement(e)
    BY DEF AttachInv, Taken
  <2>2. proc[res[e].inst].pc # "assign"
    BY <1>1, <1>7, <2>1 DEF TakenElement, AttachSteps
  <2>3. QED
    BY <1>1, <2>1, <2>2 DEF TakenElement, userbde
<1>12. QED
  BY <1>1, <1>7, <1>8, <1>9, <1>10, <1>11 DEF AttachInv

\* Take keeps AttachInv.
LEMMA TakeStep ==
    ASSUME AttachInv, NEW p \in part, Take(p)
    PROVE  AttachInv'
<1> DEFINE n == ask[p]
           off == offset - ask[p]
           do == [proc[p] EXCEPT !.pc = "assign"]
<1>1. /\ proc[p].pc = "take" /\ proc' = [proc EXCEPT ![p] = do]
      /\ multi' = multi + 1
      /\ res' = [res EXCEPT ![proc[p].i] = [inst |-> p, off |-> proc[p].off, size |-> proc[p].n]]
      /\ UNCHANGED <<part, ask, offset, dinst, granted>>
  BY DEF Take, Then
<1>2. off \in Nat /\ Lower(off)
  <2>1. AttachPlace(p)
    BY DEF AttachInv
  <2>2. QED
    BY <1>1, <2>1 DEF AttachPlace
<1>3. PICK i \in Elements :
        /\ proc[p] = [pc |-> "take", n |-> n, off |-> off, i |-> i]
        /\ IF multi = 0 THEN i = 0 ELSE res[i].inst = None
  <2>1. AttachPlace(p)
    BY DEF AttachInv
  <2>2. QED
    BY <1>1, <2>1 DEF AttachPlace
<1>4. proc[p].pc \in AttachSteps
  BY <1>1 DEF AttachSteps
<1>5. do = [pc |-> "assign", n |-> n, off |-> off, i |-> i]
  BY <1>3
<1> HIDE DEF do
<1>6. /\ p \in Insts /\ p # None /\ p \subseteq Devs
      /\ ask[p] \in Nat /\ ask[p] > 0 /\ granted[p] = 0
      /\ offset \in Nat /\ TotalSize \in Nat /\ offset <= TotalSize /\ multi \in Nat
      /\ DOMAIN proc' = Insts /\ proc'[p] = do
      /\ \A q \in part : q # p =>
           /\ q \in Insts /\ proc'[q] = proc[q]
           /\ proc[q].pc \notin AttachSteps /\ AttachPlace(q)'
      /\ granted' = granted => OneAttaching'
  BY <1>1, <1>4, GoesOn
<1>7. off + n = offset
  BY <1>6
<1> HIDE DEF off
<1>8. /\ res'[i] = [inst |-> p, off |-> off, size |-> n]
      /\ \A j \in Elements : j # i => res'[j] = res[j]
      /\ res' \in [Elements -> [inst : SUBSET Devs, off : Nat, size : Nat]]
  <2>1. res \in [Elements -> [inst : SUBSET Devs, off : Nat, size : Nat]]
    BY DEF AttachInv, AttachType
  <2>2. res' = [res EXCEPT ![i] = [inst |-> p, off |-> off, size |-> n]]
    BY <1>1, <1>3
  <2>3. [inst |-> p, off |-> off, size |-> n] \in [inst : SUBSET Devs, off : Nat, size : Nat]
    BY <1>2, <1>6
  <2>4. QED
    BY <2>1, <2>2, <2>3
<1>9. multi' \in Nat /\ multi' > 0
  BY <1>1, <1>6
\* The element has no owner, or is that of all devices; others have theirs.
<1>10. ASSUME NEW j \in Elements, j # i, res[j].inst # None
       PROVE  /\ multi > 0 /\ TakenElement(j) /\ res[j].inst \in part /\ res[j].inst # p
              /\ res[j].off + res[j].size <= off
              /\ res[j].off \in Nat /\ res[j].size \in Nat
  <2>1. multi > 0
    <3>1. multi # 0
      BY <1>3, <1>10 DEF AttachInv, AsLoaded
    <3>2. QED
      BY <1>6, <3>1
  <2>2. TakenElement(j)
    BY <1>10, <2>1 DEF AttachInv, Taken
  <2>3. res[j].inst # p
    BY <1>1, <2>1 DEF AttachInv, AttachNew
  <2>4. res[j].off + res[j].size <= off
    BY <1>2, <1>10, <2>1 DEF Lower
  <2>5. QED
    BY <2>1, <2>2, <2>3, <2>4 DEF TakenElement, AttachInv, AttachType
<1>11. AttachType' /\ OneAttaching'
  BY <1>1, <1>6, <1>8, <1>9 DEF AttachInv, AttachType
<1>12. AsLoaded'
  BY <1>9 DEF AsLoaded
<1>13. Grants'
  <2> SUFFICES ASSUME NEW q \in part, granted[q] > 0
               PROVE  /\ granted[q] = ask[q]
                      /\ \E e \in Elements : res'[e].inst = q /\ \A d \in q : dinst[d] = e
    BY <1>1, <1>9 DEF Grants
  <2>1. q # p /\ granted[q] = ask[q]
    BY <1>6 DEF AttachInv, Grants
  <2>2. multi # 0
    <3>1. multi = 0 => q = Devs
      BY DEF AttachInv, Grants
    <3>2. q = Devs => q = p
      BY Instances DEF AttachInv, AttachType
    <3>3. QED
      BY <2>1, <3>1, <3>2
  <2>3. PICK e \in Elements : res[e].inst = q /\ \A d \in q : dinst[d] = e
    BY <2>2 DEF AttachInv, Grants
  <2>4. q # None
    BY Instances DEF AttachInv, AttachType, None
  <2>5. e # i
    BY <1>3, <2>2, <2>3, <2>4
  <2>6. QED
    BY <1>8, <2>1, <2>3, <2>5
<1>14. AttachPlace(p)'
  <2>1. proc'[p] = [pc |-> "assign", n |-> n, off |-> offset - ask[p], i |-> i]
        /\ proc'[p].pc = "assign"
    BY <1>5, <1>6 DEF off
  <2>2. res'[i].inst = p
    BY <1>8
  <2>3. QED
    BY <1>1, <1>9, <2>1, <2>2 DEF AttachPlace
<1>15. AttachNew'
  <2>1. \A q \in part : q # p => proc'[q].pc \notin AttachSteps
    BY <1>6
  <2>2. proc'[p].pc = "assign"
    BY <1>5, <1>6
  <2>3. QED
    BY <1>1, <2>1, <2>2 DEF AttachNew, AttachSteps
<1>16. Taken'
  <2> SUFFICES ASSUME NEW e \in Elements, res'[e].inst # None
               PROVE  TakenElement(e)'
    BY DEF Taken
  <2>1. CASE e = i
    <3>1. proc'[p].pc = "assign"
      BY <1>5, <1>6
    <3>2. ASSUME NEW j \in Elements, j # i
          PROVE  /\ res'[j].inst # p
                 /\ res'[j].inst # None => res'[j].off + res'[j].size <= off
      BY <1>6, <1>8, <1>10, <3>2
    <3>3. res'[i].inst = p /\ res'[i].off = off /\ res'[i].size = n
      BY <1>8
    <3>4. QED
      BY <1>1, <1>6, <1>7, <2>1, <3>1, <3>2, <3>3 DEF TakenElement
  <2>2. CASE e # i
    <3>1. res'[e] = res[e] /\ res[e].inst # None
      BY <1>8, <2>2
    <3>2. /\ TakenElement(e) /\ res[e].inst \in part /\ res[e].inst # p
          /\ res[e].off + res[e].size <= off
      BY <1>10, <2>2, <3>1
    <3>3. proc'[res[e].inst] = proc[res[e].inst]
      BY <1>6, <3>2
    <3>4. ASSUME NEW j \in Elements, j # e
          PROVE  /\ res'[j].inst # res[e].inst
                 /\ res'[j].inst # None =>
                      \/ res[e].off + res[e].size <= res'[j].off
                      \/ res'[j].off + res'[j].size <= res[e].off
      <4>1. CASE j = i
        BY <1>8, <3>2, <4>1
      <4>2. CASE j # i
        BY <1>8, <3>2, <3>4, <4>2 DEF TakenElement
      <4>3. QED
        BY <4>1, <4>2
    <3>5. QED
      BY <1>1, <3>1, <3>2, <3>3, <3>4 DEF TakenElement
  <2>3. QED
    BY <2>1, <2>2
<1>17. QED
  BY <1>1, <1>6, <1>11, <1>12, <1>13, <1>14, <1>15, <1>16 DEF AttachInv

\* Assign keeps AttachInv.
LEMMA AssignStep ==
    ASSUME AttachInv, NEW p \in part, Assign(p)
    PROVE  AttachInv'
<1>1. /\ proc[p].pc = "assign" /\ proc' = [proc EXCEPT ![p] = Ready]
      /\ dinst' = [d \in Devs |-> IF d \in p THEN proc[p].i ELSE dinst[d]]
      /\ granted' = [granted EXCEPT ![p] = proc[p].n]
      /\ UNCHANGED <<part, ask, res, offset, multi>>
  BY DEF Assign, Then
<1>2. PICK i \in Elements :
        /\ proc[p] = [pc |-> "assign", n |-> ask[p], off |-> offset - ask[p], i |-> i]
        /\ multi > 0 /\ res[i].inst = p
  <2>1. AttachPlace(p)
    BY DEF AttachInv
  <2>2. QED
    BY <1>1, <2>1 DEF AttachPlace
<1>3. proc[p].pc \in AttachSteps
  BY <1>1 DEF AttachSteps
<1>4. /\ p \in Insts /\ p # None /\ p \subseteq Devs
      /\ ask[p] \in Nat /\ ask[p] > 0 /\ granted[p] = 0
      /\ offset \in Nat /\ TotalSize \in Nat /\ offset <= TotalSize /\ multi \in Nat
      /\ DOMAIN proc' = Insts /\ proc'[p] = Ready
      /\ \A q \in part : q # p =>
           /\ q \in Insts /\ proc'[q] = proc[q]
           /\ proc[q].pc \notin AttachSteps /\ AttachPlace(q)'
  BY <1>1, <1>3, GoesOn
<1>5. /\ granted' = [granted EXCEPT ![p] = ask[p]] /\ granted'[p] = ask[p]
      /\ \A q \in part : q # p => granted'[q] = granted[q]
  BY <1>1, <1>2, <1>4 DEF AttachInv, AttachType
<1>6. /\ \A d \in p : dinst'[d] = i
      /\ \A q \in part : q # p => \A d \in q : dinst'[d] = dinst[d]
  <2>1. dinst' = [d \in Devs |-> IF d \in p THEN i ELSE dinst[d]]
    BY <1>1, <1>2
  <2>2. \A q \in part : q # p => \A d \in q : d \in Devs /\ d \notin p
    BY Instances DEF AttachInv, AttachType
  <2>3. QED
    BY <1>4, <2>1, <2>2
<1>7. \A q \in part : proc'[q].pc \notin AttachSteps
  BY <1>4 DEF Ready, AttachSteps
<1>8. AttachType'
  <2>1. i \in Indices
    BY DEF Indices
  <2>2. dinst' = [d \in Devs |-> IF d \in p THEN i ELSE dinst[d]]
    BY <1>1, <1>2
  <2>3. dinst' \in [Devs -> Indices]
    BY <2>1, <2>2 DEF AttachInv, AttachType
  <2>4. QED
    BY <1>1, <1>4, <1>5, <2>3 DEF AttachInv, AttachType
<1>9. OneAttaching' /\ AttachNew' /\ \A q \in part' : AttachPlace(q)'
  BY <1>1, <1>7 DEF OneAttaching, AttachNew, AttachPlace, AttachSteps
<1>10. AsLoaded'
  BY <1>1, <1>2 DEF AsLoaded
<1>11. Taken'
  <2> SUFFICES ASSUME NEW e \in Elements, res[e].inst # None
               PROVE  TakenElement(e)'
    BY <1>1 DEF Taken
  <2>1. TakenElement(e)
    BY <1>2 DEF AttachInv, Taken
  <2>2. CASE res[e].inst = p
    <3>1. e = i
      BY <1>2, <2>1, <2>2 DEF TakenElement
    <3>2. QED
      BY <1>1, <1>6, <2>1, <2>2, <3>1 DEF TakenElement
  <2>3. CASE res[e].inst # p
    <3>1. res[e].inst \in part
      BY <2>1 DEF TakenElement
    <3>2. proc[res[e].inst].pc # "assign"
      BY <1>4, <2>3, <3>1 DEF AttachSteps
    <3>3. QED
      BY <1>1, <1>6, <2>1, <2>3, <3>1, <3>2 DEF TakenElement
  <2>4. QED
    BY <2>2, <2>3
<1>12. Grants'
  <2> SUFFICES ASSUME NEW q \in part, granted'[q] > 0
               PROVE  /\ granted'[q] = ask[q]
                      /\ \E e \in Elements : res[e].inst = q /\ \A d \in q : dinst'[d] = e
    BY <1>1, <1>2 DEF Grants
  <2>1. CASE q = p
    BY <1>2, <1>5, <1>6, <2>1
  <2>2. CASE q # p
    <3>1. granted[q] > 0
      BY <1>5, <2>2
    <3>2. /\ granted[q] = ask[q]
          /\ \E e \in Elements : res[e].inst = q /\ \A d \in q : dinst[d] = e
      BY <1>2, <3>1 DEF AttachInv, Grants
    <3>3. QED
      BY <1>5, <1>6, <2>2, <3>2
  <2>3. QED
    BY <2>1, <2>2
<1>13. QED
  BY <1>8, <1>9, <1>10, <1>11, <1>12 DEF AttachInv

\* VERSION does nothing to the user BDE.
LEMMA VersionApart ==
    ASSUME AttachInv, NEW p \in part,
           Version(p) \/ Find(p) \/ Claim(p) \/ Route(p) \/ Enter(p)
    PROVE  AttachInv'
<1>0. p \in Insts /\ DOMAIN proc = Insts
  BY Instances DEF AttachInv, AttachType
<1>1. UNCHANGED <<part, ask, userbde>>
  BY DEF Version, Find, Claim, Route, Enter
<1>2. proc[p].pc \notin AttachSteps
  BY DEF Version, Find, Claim, Route, Enter, Ready, AttachSteps
<1>3. \A q \in part : q \in Insts
  BY Instances DEF AttachInv, AttachType
<1>4. /\ DOMAIN proc' = Insts /\ proc'[p].pc \notin AttachSteps
      /\ \A q \in part : q # p => proc'[q] = proc[q]
  <2>1. CASE Version(p)
    <3>1. PICK d \in p :
            proc' = [proc EXCEPT ![p] = [pc |-> IF sinst[d] = kinst[d] THEN "enter" ELSE "find",
                                         d |-> d, inst |-> kinst[d]]]
      BY <2>1 DEF Version, Then
    <3>2. proc'[p].pc = IF sinst[d] = kinst[d] THEN "enter" ELSE "find"
      BY <1>0, <3>1
    <3>3. QED
      BY <1>0, <1>3, <3>1, <3>2 DEF AttachSteps
  <2>2. CASE Find(p)
    <3> DEFINE s == Suitable(proc[p].inst)
               found == [pc |-> IF einst[Min(s)] = proc[p].inst THEN "route" ELSE "claim",
                         d |-> proc[p].d, inst |-> proc[p].inst, i |-> Min(s)]
    <3>1. proc' = [proc EXCEPT ![p] = IF s = {} THEN [pc |-> "refused"] ELSE found]
      BY <2>2 DEF Find, Then
    <3>2. found.pc \notin AttachSteps
      <4>1. found.pc = IF einst[Min(s)] = proc[p].inst THEN "route" ELSE "claim"
        OBVIOUS
      <4> HIDE DEF found, s
      <4>2. QED
        BY <4>1 DEF AttachSteps
    <3> HIDE DEF found, s
    <3>3. proc'[p] = IF s = {} THEN [pc |-> "refused"] ELSE found
      BY <1>0, <3>1
    <3>4. proc'[p].pc \notin AttachSteps
      BY <3>2, <3>3 DEF AttachSteps
    <3>5. QED
      BY <1>0, <1>3, <3>1, <3>4
  <2>3. CASE Claim(p)
    <3>1. proc' = [proc EXCEPT ![p] = [proc[p] EXCEPT !.pc = "route"]] /\ proc[p].pc = "claim"
      BY <2>3 DEF Claim, Then
    <3>2. [proc[p] EXCEPT !.pc = "route"].pc \notin AttachSteps
      BY <3>1 DEF AttachSteps
    <3>3. QED
      BY <1>0, <1>3, <3>1, <3>2
  <2>4. CASE Route(p)
    <3>1. proc' = [proc EXCEPT ![p] = [proc[p] EXCEPT !.pc = "enter"]] /\ proc[p].pc = "route"
      BY <2>4 DEF Route, Then
    <3>2. [proc[p] EXCEPT !.pc = "enter"].pc \notin AttachSteps
      BY <3>1 DEF AttachSteps
    <3>3. QED
      BY <1>0, <1>3, <3>1, <3>2
  <2>5. CASE Enter(p)
    <3>1. proc' = [proc EXCEPT ![p] = Ready] /\ Ready.pc \notin AttachSteps
      BY <2>5 DEF Enter, Then, Ready, AttachSteps
    <3>2. QED
      BY <1>0, <1>3, <3>1
  <2>6. QED
    BY <2>1, <2>2, <2>3, <2>4, <2>5
<1>5. QED
  BY <1>1, <1>2, <1>4, OtherStep

\* AttachInv is inductive.
LEMMA AttachInvariant ==
    ASSUME OneAttach, SameSize, SamePartition
    PROVE  Spec => []AttachInv
<1>1. Init => AttachInv
  <2> SUFFICES ASSUME Init PROVE AttachInv
    OBVIOUS
  <2>1. part \in Partitions /\ ask \in [Insts -> Sizes] /\ DOMAIN proc = Insts
    BY DEF Init
  <2>2. \A p \in part : proc[p] = Ready
    BY <2>1, Instances DEF Init
  <2>3. JustLoaded
    BY <2>1, <2>2 DEF Init, JustLoaded
  <2>4. QED
    BY <2>3, LoadStep
<1>2. AttachInv /\ [Next]_vars => AttachInv' \/ JustLoaded'
  <2> SUFFICES ASSUME AttachInv, [Next]_vars PROVE AttachInv' \/ JustLoaded'
    OBVIOUS
  <2>1. ASSUME NEW p \in part, Attach(p) PROVE AttachInv'
    BY <2>1, AttachStep
  <2>2. ASSUME NEW p \in part, DmaAlloc(p) PROVE AttachInv'
    BY <2>2, DmaAllocStep
  <2>3. ASSUME NEW p \in part, Reserve(p) PROVE AttachInv'
    BY <2>3, ReserveStep
  <2>4. ASSUME NEW p \in part, Choose(p) PROVE AttachInv'
    BY <2>4, ChooseStep
  <2>5. ASSUME NEW p \in part, Take(p) PROVE AttachInv'
    BY <2>5, TakeStep
  <2>6. ASSUME NEW p \in part, Assign(p) PROVE AttachInv'
    BY <2>6, AssignStep
  <2>7. ASSUME NEW p \in part, Version(p) \/ Find(p) \/ Claim(p) \/ Route(p) \/ Enter(p)
        PROVE  AttachInv'
    BY <2>7, VersionApart
  <2>8. ASSUME Reload PROVE JustLoaded'
    <3>1. part' = part /\ ask' = ask /\ proc' = proc /\ \A p \in part : proc[p] = Ready
      BY <2>8 DEF Reload
    <3>2. part' \in Partitions /\ ask' \in [Insts -> Sizes] /\ DOMAIN proc' = Insts
      BY <3>1 DEF AttachInv, AttachType
    <3>3. /\ res' = [i \in Elements |->
                       IF i = 0 THEN [inst |-> Devs, off |-> 0, size |-> TotalSize]
                       ELSE [inst |-> None, off |-> 0, size |-> 0]]
          /\ offset' = 0 /\ multi' = 0 /\ dinst' = [d \in Devs |-> 0]
          /\ granted' = [p \in Insts |-> 0]
      BY <2>8 DEF Reload, LoadUser
    <3>4. QED
      BY <3>1, <3>2, <3>3 DEF JustLoaded
  <2>9. ASSUME UNCHANGED vars PROVE AttachInv'
    <3>1. UNCHANGED <<part, ask, proc, res, offset, multi, dinst, granted>>
      BY <2>9 DEF vars, userbde
    <3>2. AttachType' /\ OneAttaching' /\ AttachNew' /\ AsLoaded' /\ Grants'
      BY <3>1 DEF AttachInv, AttachType, OneAttaching, AttachNew, AsLoaded, Grants
    <3>3. ASSUME NEW p \in part PROVE AttachPlace(p)'
      <4>1. AttachPlace(p)
        BY DEF AttachInv
      <4>2. \A x : Lower(x)' <=> Lower(x)
        BY <3>1 DEF Lower
      <4>3. QED
        BY <3>1, <4>1 DEF AttachPlace, Lower
    <3>4. Taken'
      BY <3>1 DEF AttachInv, Taken, TakenElement
    <3>5. QED
      BY <3>1, <3>2, <3>3, <3>4 DEF AttachInv
  <2>10. QED
    BY <2>1, <2>2, <2>3, <2>4, <2>5, <2>6, <2>7, <2>8, <2>9 DEF Next
<1>3. QED
  BY <1>1, <1>2, LoadStep, PTL DEF Spec

\* The element of a process that is attached, once there is a first instance.
LEMMA OwnElement ==
    ASSUME AttachInv, multi # 0, NEW p \in part, granted[p] > 0
    PROVE  \E i \in Elements :
              /\ OfInst(p) = {i} /\ Min(OfInst(p)) = i
              /\ res[i].inst = p /\ TakenElement(i) /\ \A d \in p : dinst[d] = i
<1>1. PICK i \in Elements : res[i].inst = p /\ \A d \in p : dinst[d] = i
  BY DEF AttachInv, Grants
<1>2. p # None /\ multi > 0
  BY Instances DEF AttachInv, AttachType, None
<1>3. TakenElement(i)
  BY <1>1, <1>2 DEF AttachInv, Taken
<1>4. OfInst(p) = {i}
  BY <1>1, <1>3 DEF OfInst, TakenElement
<1>5. Min(OfInst(p)) = i
  <2>1. OfInst(p) \in SUBSET Elements /\ OfInst(p) # {}
    BY <1>4
  <2>2. Min(OfInst(p)) \in OfInst(p)
    BY <2>1, FirstElement
  <2>3. QED
    BY <1>4, <2>2
<1>6. QED
  BY <1>1, <1>3, <1>4, <1>5

\* Whatever processes attach, and attach again after the user BDE was loaded anew, each has
\* DMA memory of the size it asked for, apart from that of the others.
THEOREM OwnDmaCorrect ==
    ASSUME OneAttach, SameSize, SamePartition
    PROVE  Spec => []OwnDma
<1>1. AttachInv => OwnDma
  <2> SUFFICES ASSUME AttachInv PROVE OwnDma
    OBVIOUS
  <2>1. CASE multi = 0
    <3>1. \A p \in Attached : p \in part /\ p = Devs /\ granted[p] = TotalSize
      BY <2>1 DEF Attached, AttachInv, Grants
    <3>2. \A p \in part : DmaInfo(p).size = TotalSize /\ DmaInfo(p).off = 0
      BY <2>1 DEF DmaInfo
    <3>3. TotalSize \in Nat
      BY InstancesAssumption
    <3>4. QED
      BY <3>1, <3>2, <3>3 DEF OwnDma
  <2>2. CASE multi # 0
    <3>1. ASSUME NEW p \in Attached
          PROVE  \E i \in Elements :
                    /\ TakenElement(i) /\ res[i].inst = p /\ granted[p] = res[i].size
                    /\ DmaInfo(p).off = res[i].off /\ DmaInfo(p).size = res[i].size
                    /\ res[i].off \in Nat /\ res[i].size \in Nat
      <4>1. p \in part /\ granted[p] > 0
        BY DEF Attached
      <4>2. PICK i \in Elements :
              /\ OfInst(p) = {i} /\ Min(OfInst(p)) = i
              /\ res[i].inst = p /\ TakenElement(i)
        BY <2>2, <4>1, OwnElement
      <4>3. DmaInfo(p).off = res[i].off /\ DmaInfo(p).size = res[i].size
        BY <2>2, <4>2 DEF DmaInfo
      <4>4. granted[p] = ask[p]
        BY <4>1 DEF AttachInv, Grants
      <4>5. res[i].size = ask[p]
        BY <4>2 DEF TakenElement
      <4>6. res[i].off \in Nat /\ res[i].size \in Nat
        BY DEF AttachInv, AttachType
      <4>7. QED
        BY <4>2, <4>3, <4>4, <4>5, <4>6
    <3>2. offset \in Nat /\ TotalSize \in Nat /\ offset <= TotalSize
      BY InstancesAssumption DEF AttachInv, AttachType
    <3>3. ASSUME NEW p \in Attached
          PROVE  DmaInfo(p).size = granted[p] /\ DmaInfo(p).off + DmaInfo(p).size <= TotalSize
      BY <3>1, <3>2 DEF TakenElement
    <3>4. ASSUME NEW p \in Attached, NEW q \in Attached, p # q
          PROVE  \/ DmaInfo(p).off + DmaInfo(p).size <= DmaInfo(q).off
                 \/ DmaInfo(q).off + DmaInfo(q).size <= DmaInfo(p).off
      <4>1. PICK i \in Elements :
              /\ TakenElement(i) /\ res[i].inst = p
              /\ DmaInfo(p).off = res[i].off /\ DmaInfo(p).size = res[i].size
        BY <3>1
      <4>2. PICK j \in Elements :
              /\ res[j].inst = q
              /\ DmaInfo(q).off = res[j].off /\ DmaInfo(q).size = res[j].size
        BY <3>1
      <4>3. j # i /\ q # None
        BY <3>4, <4>1, <4>2, Instances DEF Attached, AttachInv, AttachType, None
      <4>4. QED
        BY <4>1, <4>2, <4>3 DEF TakenElement
    <3>5. QED
      BY <3>3, <3>4 DEF OwnDma
  <2>3. QED
    BY <2>1, <2>2
<1>2. QED
  BY <1>1, AttachInvariant, PTL

\* Interrupts of an attached process's devices always wake its own wait queue.
THEOREM OwnInterruptsCorrect ==
    ASSUME OneAttach, SameSize, SamePartition
    PROVE  Spec => []OwnInterrupts
<1>1. AttachInv => OwnInterrupts
  <2> SUFFICES ASSUME AttachInv, NEW p \in part, granted[p] > 0, NEW d \in p
               PROVE  dinst[d] \in Elements /\ res[dinst[d]].inst = p
    BY DEF OwnInterrupts, Attached
  <2>1. CASE multi = 0
    <3>1. p = Devs
      BY <2>1 DEF AttachInv, Grants
    <3>2. dinst[d] = 0 /\ res[0].inst = Devs
      BY <2>1, <3>1, FirstOfAll DEF AttachInv, AsLoaded
    <3>3. QED
      BY <3>1, <3>2, FirstOfAll
  <2>2. CASE multi # 0
    BY <2>2, OwnElement
  <2>3. QED
    BY <2>1, <2>2
<1>2. QED
  BY <1>1, AttachInvariant, PTL

-----------------------------------------------------------------------------
(* KNET.                                                                   *)

EventType ==
    /\ part \in Partitions /\ DOMAIN proc = Insts
    /\ kinst \in [Devs -> Insts \cup {None}] /\ sinst \in [Devs -> Insts \cup {None}]
    /\ einst \in [Elements -> Insts \cup {None}] /\ emulti \in Nat
    /\ evt_idx \in [Devs -> Indices]

\* The instance that is known of a device is the one it belongs to.
Belongs(inst) == \A d \in Devs : inst[d] = None \/ (inst[d] \in part /\ d \in inst[d])

\* Only one process is sending VERSION.
OneSending ==
    \A p, q \in part :
        proc[p].pc \in VersionSteps /\ proc[q].pc \in VersionSteps => p = q

\* What the process that sends VERSION knows: it is about its own instance, which gets an
\* element only if it has none, the first that is free.
VersionPlace(p) ==
    /\ proc[p].pc = "find" =>
         /\ proc[p].d \in p /\ proc[p].inst = p
    /\ proc[p].pc = "claim" =>
         /\ proc[p] = [pc |-> "claim", d |-> proc[p].d, inst |-> p, i |-> proc[p].i]
         /\ proc[p].d \in p /\ proc[p].i \in Elements /\ einst[proc[p].i] = None
         /\ \A j \in Elements : einst[j] # p /\ (j < proc[p].i => einst[j] # None)
    /\ proc[p].pc = "route" =>
         /\ proc[p] = [pc |-> "route", d |-> proc[p].d, inst |-> p, i |-> proc[p].i]
         /\ proc[p].d \in p /\ proc[p].i \in Elements /\ einst[proc[p].i] = p
    /\ proc[p].pc = "enter" =>
         /\ proc[p].d \in p /\ proc[p].inst = p
         /\ evt_idx[proc[p].d] \in Elements /\ einst[evt_idx[proc[p].d]] = p
    /\ proc[p].pc # "refused"

\* Elements are given out in their order, one to an instance.
EventElements ==
    /\ emulti = 0 => \A i \in Elements : einst[i] = None
    /\ \A i \in Elements : einst[i] = None \/ einst[i] \in part
    /\ \A i, j \in Elements :
         /\ i # j /\ einst[i] # None => einst[i] # einst[j]
         /\ i < j /\ einst[j] # None => einst[i] # None

\* A device whose instance is known has the element of that instance.
Routed ==
    \A d \in Devs : sinst[d] # None =>
        evt_idx[d] \in Elements /\ einst[evt_idx[d]] = sinst[d]

EventInv ==
    /\ EventType /\ Belongs(kinst) /\ Belongs(sinst) /\ OneSending
    /\ \A p \in part : VersionPlace(p)
    /\ EventElements /\ Routed

\* A step of one process.
LEMMA OnlyThis ==
    ASSUME DOMAIN proc = Insts, NEW p \in Insts, NEW do, Then(p, do)
    PROVE  /\ DOMAIN proc' = Insts /\ proc'[p] = do
           /\ \A q \in Insts : q # p => proc'[q] = proc[q]
  BY DEF Then

\* Steps that have nothing to do with VERSION.
LEMMA OtherEvents ==
    ASSUME EventInv, UNCHANGED <<part, knet>>, DOMAIN proc' = Insts,
           kinst' \in [Devs -> Insts \cup {None}], Belongs(kinst)',
           \A q \in part : \/ proc'[q] = proc[q]
                           \/ proc'[q].pc \notin VersionSteps \cup {"refused"}
    PROVE  EventInv'
<1>1. EventType' /\ Belongs(sinst)' /\ EventElements' /\ Routed'
  BY DEF EventInv, EventType, Belongs, EventElements, Routed, knet
<1>2. OneSending'
  BY DEF EventInv, OneSending
<1>3. ASSUME NEW q \in part PROVE VersionPlace(q)'
  <2>1. VersionPlace(q)
    BY DEF EventInv
  <2>2. CASE proc'[q] = proc[q]
    BY <2>1, <2>2 DEF VersionPlace, knet
  <2>3. CASE proc'[q].pc \notin VersionSteps \cup {"refused"}
    BY <2>3 DEF VersionPlace, VersionSteps
  <2>4. QED
    BY <2>2, <2>3
<1>4. QED
  BY <1>1, <1>2, <1>3 DEF EventInv

\* ATTACH_INSTANCE does nothing to KNET; the kernel BDE learns the instance of a device.
LEMMA AttachApart ==
    ASSUME EventInv, NEW p \in part,
           \/ Attach(p) \/ DmaAlloc(p) \/ Reserve(p) \/ Choose(p) \/ Take(p) \/ Assign(p)
    PROVE  EventInv'
<1>1. p \in Insts /\ p # None /\ DOMAIN proc = Insts
  BY Instances DEF EventInv, EventType, None
<1>2. UNCHANGED <<part, knet>>
  BY DEF Attach, DmaAlloc, Reserve, Choose, Take, Assign
<1>3. kinst' \in [Devs -> Insts \cup {None}] /\ Belongs(kinst)'
  <2>1. CASE kinst' = kinst
    BY <1>2, <2>1 DEF EventInv, EventType, Belongs
  <2>2. CASE Assign(p)
    <3>1. kinst' = [d \in Devs |-> IF d \in p /\ kinst[d] = None THEN p ELSE kinst[d]]
      BY <2>2 DEF Assign
    <3>2. kinst' \in [Devs -> Insts \cup {None}]
      BY <1>1, <3>1 DEF EventInv, EventType
    <3>3. Belongs(kinst)'
      BY <1>2, <3>1 DEF EventInv, Belongs
    <3>4. QED
      BY <3>2, <3>3
  <2>3. QED
    BY <2>1, <2>2 DEF Attach, DmaAlloc, Reserve, Choose, Take
<1>4. \A q \in part : q \in Insts
  BY Instances DEF EventInv, EventType
<1>5. /\ DOMAIN proc' = Insts
      /\ \A q \in part : proc'[q] = proc[q] \/ proc'[q].pc \in AttachSteps \cup {"ready"}
  <2> DEFINE S == AttachSteps \cup {"ready"}
  <2> SUFFICES proc' = proc \/ \E do : Then(p, do) /\ do.pc \in S
    BY <1>1, <1>4, OnlyThis
  <2>1. CASE Attach(p)
    <3>1. proc' = proc \/ \E n : Then(p, [pc |-> "alloc", n |-> n])
      BY <2>1 DEF Attach
    <3>2. ASSUME NEW n PROVE [pc |-> "alloc", n |-> n].pc \in S
      BY DEF AttachSteps
    <3>3. QED
      BY <3>1, <3>2
  <2>2. CASE DmaAlloc(p)
    <3> DEFINE do == IF proc[p].n > TotalSize - offset THEN Ready
                     ELSE [pc |-> "reserve", n |-> proc[p].n, off |-> offset]
    <3>1. Then(p, do)
      BY <2>2 DEF DmaAlloc
    <3>2. do.pc \in S
      BY DEF Ready, AttachSteps
    <3>3. QED
      BY <3>1, <3>2
  <2>3. CASE Reserve(p)
    <3> DEFINE do == [proc[p] EXCEPT !.pc = "choose"]
    <3>1. Then(p, do) /\ proc[p].pc = "reserve"
      BY <2>3 DEF Reserve
    <3>2. do.pc \in S
      BY <3>1 DEF AttachSteps
    <3>3. QED
      BY <3>1, <3>2
  <2>4. CASE Choose(p)
    <3> DEFINE e == IF FreeElements = {} THEN -1 ELSE Min(FreeElements)
               do == [pc |-> IF e = -1 THEN "assign" ELSE "take",
                      n |-> proc[p].n, off |-> proc[p].off, i |-> e]
    <3>1. Then(p, do)
      BY <2>4 DEF Choose
    <3>2. do.pc \in S
      <4>1. do.pc = IF e = -1 THEN "assign" ELSE "take"
        OBVIOUS
      <4> HIDE DEF do, e
      <4>2. QED
        BY <4>1 DEF AttachSteps
    <3>3. QED
      BY <3>1, <3>2
  <2>5. CASE Take(p)
    <3> DEFINE do == [proc[p] EXCEPT !.pc = "assign"]
    <3>1. Then(p, do) /\ proc[p].pc = "take"
      BY <2>5 DEF Take
    <3>2. do.pc \in S
      BY <3>1 DEF AttachSteps
    <3>3. QED
      BY <3>1, <3>2
  <2>6. CASE Assign(p)
    <3>1. Then(p, Ready) /\ Ready.pc \in S
      BY <2>6 DEF Assign, Ready
    <3>2. QED
      BY <3>1
  <2>7. QED
    BY <2>1, <2>2, <2>3, <2>4, <2>5, <2>6
<1>6. AttachSteps \cup {"ready"} \subseteq {s \in AttachSteps \cup {"ready"} :
                                             s \notin VersionSteps \cup {"refused"}}
  BY DEF AttachSteps, VersionSteps
<1>7. QED
  BY <1>2, <1>3, <1>5, <1>6, OtherEvents

\* Steps of the process that sends VERSION leave other processes where they are.
LEMMA OtherVersions ==
    ASSUME EventInv, UNCHANGED <<part, kinst>>, NEW p \in part, NEW do, Then(p, do),
           \A q \in part : q # p => proc[q].pc \notin VersionSteps
    PROVE  /\ p \in Insts /\ p # None /\ p \subseteq Devs
           /\ DOMAIN proc' = Insts /\ proc'[p] = do
           /\ kinst' \in [Devs -> Insts \cup {None}] /\ Belongs(kinst)' /\ OneSending'
           /\ \A q \in part : q # p => VersionPlace(q)'
<1>1. \A q \in part : q \in Insts /\ q # None /\ q \subseteq Devs
  BY Instances DEF EventInv, EventType, None
<1>2. /\ DOMAIN proc' = Insts /\ proc'[p] = do
      /\ \A q \in part : q # p => proc'[q] = proc[q]
  BY <1>1, OnlyThis DEF EventInv, EventType
<1>3. OneSending'
  BY <1>2 DEF OneSending
<1>4. kinst' \in [Devs -> Insts \cup {None}] /\ Belongs(kinst)'
  BY DEF EventInv, EventType, Belongs
<1>5. ASSUME NEW q \in part, q # p PROVE VersionPlace(q)'
  <2>1. proc'[q] = proc[q] /\ proc[q].pc \notin VersionSteps
    BY <1>2, <1>5
  <2>2. proc[q].pc # "refused"
    BY DEF EventInv, VersionPlace
  <2>3. QED
    BY <2>1, <2>2 DEF VersionPlace, VersionSteps
<1>6. QED
  BY <1>1, <1>2, <1>3, <1>4, <1>5

\* Version keeps EventInv: what the kernel BDE knows is the process's own instance.
LEMMA VersionStep ==
    ASSUME EventInv, OneVersion, NEW p \in part, Version(p)
    PROVE  EventInv'
<1>1. PICK d \in p :
        /\ kinst[d] # None
        /\ Then(p, [pc |-> IF sinst[d] = kinst[d] THEN "enter" ELSE "find",
                    d |-> d, inst |-> kinst[d]])
        /\ sinst' = [sinst EXCEPT ![d] = IF sinst[d] = kinst[d] THEN sinst[d] ELSE None]
        /\ evt_idx' = [evt_idx EXCEPT ![d] = IF sinst[d] = kinst[d] THEN evt_idx[d] ELSE -1]
  BY DEF Version
<1>2. UNCHANGED <<part, kinst, einst, emulti>>
  BY DEF Version
<1>3. \A q \in part : q # p => proc[q].pc \notin VersionSteps
  BY DEF Version, Others
<1> DEFINE do == [pc |-> IF sinst[d] = kinst[d] THEN "enter" ELSE "find",
                  d |-> d, inst |-> kinst[d]]
<1>4. /\ do.pc = IF sinst[d] = kinst[d] THEN "enter" ELSE "find"
      /\ do.d = d /\ do.inst = kinst[d]
  OBVIOUS
<1> HIDE DEF do
<1>5. /\ p \in Insts /\ p # None /\ p \subseteq Devs
      /\ DOMAIN proc' = Insts /\ proc'[p] = do
      /\ kinst' \in [Devs -> Insts \cup {None}] /\ Belongs(kinst)' /\ OneSending'
      /\ \A q \in part : q # p => VersionPlace(q)'
  BY <1>1, <1>2, <1>3, OtherVersions DEF do
<1>6. d \in Devs /\ kinst[d] = p
  <2>1. d \in Devs
    BY <1>5
  <2>2. kinst[d] \in part /\ d \in kinst[d]
    BY <1>1, <2>1 DEF EventInv, Belongs
  <2>3. QED
    BY <2>1, <2>2, Instances DEF EventInv, EventType
<1>7. \/ sinst[d] = p /\ do.pc = "enter" /\ sinst' = sinst /\ evt_idx' = evt_idx
      \/ /\ do.pc = "find"
         /\ sinst' = [sinst EXCEPT ![d] = None] /\ evt_idx' = [evt_idx EXCEPT ![d] = -1]
  BY <1>1, <1>4, <1>6 DEF EventInv, EventType
<1>8. EventType' /\ Belongs(sinst)' /\ Routed'
  <2>1. -1 \in Indices
    BY DEF Indices
  <2>2. EventType'
    BY <1>2, <1>5, <1>7, <2>1 DEF EventInv, EventType
  <2>3. Belongs(sinst)'
    <3>1. \A e \in Devs : sinst'[e] = sinst[e] \/ sinst'[e] = None
      BY <1>7 DEF EventInv, EventType
    <3>2. QED
      BY <1>2, <3>1 DEF EventInv, Belongs
  <2>4. Routed'
    BY <1>2, <1>7 DEF EventInv, EventType, Routed
  <2>5. QED
    BY <2>2, <2>3, <2>4
<1>9. VersionPlace(p)'
  <2>1. CASE do.pc = "find"
    BY <1>4, <1>5, <1>6, <2>1 DEF VersionPlace
  <2>2. CASE sinst[d] = p /\ do.pc = "enter" /\ evt_idx' = evt_idx
    <3>1. evt_idx[d] \in Elements /\ einst[evt_idx[d]] = p
      BY <1>5, <1>6, <2>2 DEF EventInv, Routed
    <3>2. QED
      BY <1>2, <1>4, <1>5, <1>6, <2>2, <3>1 DEF VersionPlace
  <2>3. QED
    BY <1>7, <2>1, <2>2
<1>10. EventElements'
  BY <1>2 DEF EventInv, EventElements
<1>11. QED
  BY <1>2, <1>5, <1>8, <1>9, <1>10 DEF EventInv

\* Find keeps EventInv: the instance has an element or there is one for it.
LEMMA FindStep ==
    ASSUME EventInv, NEW p \in part, Find(p)
    PROVE  EventInv'
<1> DEFINE s == Suitable(proc[p].inst)
           i == Min(s)
           found == [pc |-> IF einst[i] = proc[p].inst THEN "route" ELSE "claim",
                     d |-> proc[p].d, inst |-> proc[p].inst, i |-> i]
<1>1. /\ proc[p].pc = "find" /\ UNCHANGED <<part, kinst, einst, emulti, sinst, evt_idx>>
      /\ Then(p, IF s = {} THEN [pc |-> "refused"] ELSE found)
  BY DEF Find, knet
<1>2. proc[p].d \in p /\ proc[p].inst = p
  BY <1>1 DEF EventInv, VersionPlace
<1>3. \A q \in part : q # p => proc[q].pc \notin VersionSteps
  BY <1>1 DEF EventInv, OneSending, VersionSteps
<1>4. s # {}
  <2> SUFFICES ASSUME s = {} PROVE FALSE
    OBVIOUS
  <2>1. \A e \in Elements : einst[e] # p /\ einst[e] # None
    BY <1>2 DEF Suitable
  <2>2. \A e \in Elements : einst[e] \in part /\ einst[e] # p
    BY <2>1 DEF EventInv, EventElements
  <2>3. \A e, j \in Elements : e # j => einst[e] # einst[j]
    BY <2>1 DEF EventInv, EventElements
  <2>4. part \in Partitions
    BY DEF EventInv, EventType
  <2> HIDE DEF s
  <2>5. QED
    BY <2>2, <2>3, <2>4, EnoughElements
<1>5. /\ einst[i] = p \/ emulti = 0 \/ einst[i] = None
      /\ \A j \in Elements : j < i => einst[j] # p /\ emulti # 0 /\ einst[j] # None
  <2>1. s \in SUBSET Elements
    BY DEF Suitable
  <2>2. i \in s /\ \A j \in s : i <= j
    BY <1>4, <2>1, FirstElement
  <2>3. s = {e \in Elements : einst[e] = p \/ emulti = 0 \/ einst[e] = None}
    BY <1>2 DEF Suitable
  <2> HIDE DEF s, i
  <2>4. \A j \in Elements : j \in Int
    BY InstancesAssumption DEF Elements
  <2>5. QED
    BY <2>2, <2>3, <2>4
<1>6. Then(p, found)
  BY <1>1, <1>4
<1>7. /\ found = [pc |-> IF einst[i] = p THEN "route" ELSE "claim",
                  d |-> proc[p].d, inst |-> p, i |-> i]
      /\ found.d = proc[p].d /\ found.i = i
  BY <1>2
<1>8. i \in Elements
  <2>1. s \in SUBSET Elements
    BY DEF Suitable
  <2>2. QED
    BY <1>4, <2>1, FirstElement
<1> HIDE DEF found, i, s
<1>9. /\ p \in Insts /\ p # None /\ p \subseteq Devs
      /\ DOMAIN proc' = Insts /\ proc'[p] = found
      /\ kinst' \in [Devs -> Insts \cup {None}] /\ Belongs(kinst)' /\ OneSending'
      /\ \A q \in part : q # p => VersionPlace(q)'
  BY <1>1, <1>3, <1>6, OtherVersions
<1>10. VersionPlace(p)'
  <2>1. CASE einst[i] = p
    BY <1>1, <1>2, <1>7, <1>8, <1>9, <2>1 DEF VersionPlace
  <2>2. CASE einst[i] # p
    <3>1. einst[i] = None
      BY <1>5, <1>8, <2>2 DEF EventInv, EventElements
    <3>2. ASSUME NEW j \in Elements PROVE einst[j] # p /\ (j < i => einst[j] # None)
      <4>1. i \in Int /\ j \in Int
        BY <1>8, InstancesAssumption DEF Elements
      <4>2. i < j => einst[j] = None
        BY <1>8, <3>1 DEF EventInv, EventElements
      <4>3. j < i \/ j = i \/ i < j
        BY <4>1
      <4>4. QED
        BY <1>5, <1>9, <2>2, <4>2, <4>3
    <3>3. QED
      BY <1>1, <1>2, <1>7, <1>8, <1>9, <2>2, <3>1, <3>2 DEF VersionPlace
  <2>3. QED
    BY <2>1, <2>2
<1>11. EventType' /\ Belongs(sinst)' /\ EventElements' /\ Routed'
  BY <1>1, <1>9 DEF EventInv, EventType, Belongs, EventElements, Routed
<1>12. QED
  BY <1>1, <1>9, <1>10, <1>11 DEF EventInv

\* Claim keeps EventInv: the element is the first that is free, and the only one.
LEMMA ClaimStep ==
    ASSUME EventInv, NEW p \in part, Claim(p)
    PROVE  EventInv'
<1> DEFINE d == proc[p].d
           i == proc[p].i
           do == [pc |-> "route", d |-> d, inst |-> p, i |-> i]
<1>1. /\ proc[p].pc = "claim" /\ UNCHANGED <<part, kinst, sinst, evt_idx>>
      /\ einst' = [einst EXCEPT ![i] = proc[p].inst] /\ emulti' = emulti + 1
      /\ Then(p, [proc[p] EXCEPT !.pc = "route"])
  BY DEF Claim
<1>2. /\ proc[p] = [pc |-> "claim", d |-> d, inst |-> p, i |-> i]
      /\ d \in p /\ i \in Elements /\ einst[i] = None
      /\ \A j \in Elements : einst[j] # p /\ (j < i => einst[j] # None)
  BY <1>1 DEF EventInv, VersionPlace
<1>3. \A q \in part : q # p => proc[q].pc \notin VersionSteps
  BY <1>1 DEF EventInv, OneSending, VersionSteps
<1> HIDE DEF d, i
<1>4. Then(p, do) /\ einst' = [einst EXCEPT ![i] = p]
  <2>1. [proc[p] EXCEPT !.pc = "route"] = do /\ proc[p].inst = p
    BY <1>2
  <2>2. QED
    BY <1>1, <2>1
<1>5. /\ p \in Insts /\ p # None /\ p \subseteq Devs
      /\ DOMAIN proc' = Insts /\ proc'[p] = do
      /\ kinst' \in [Devs -> Insts \cup {None}] /\ Belongs(kinst)' /\ OneSending'
      /\ \A q \in part : q # p => VersionPlace(q)'
  BY <1>1, <1>3, <1>4, OtherVersions
<1>6. /\ einst'[i] = p
      /\ \A j \in Elements : j # i => einst'[j] = einst[j]
      /\ \A j \in Elements : einst[j] # None => einst'[j] = einst[j]
  BY <1>2, <1>4 DEF EventInv, EventType
<1>7. EventType' /\ Belongs(sinst)'
  <2>1. einst' \in [Elements -> Insts \cup {None}] /\ emulti' \in Nat
    <3>1. p \in Insts /\ einst' = [einst EXCEPT ![i] = p] /\ emulti' = emulti + 1
      BY <1>1, <1>4, <1>5
    <3>2. einst \in [Elements -> Insts \cup {None}] /\ emulti \in Nat
      BY DEF EventInv, EventType
    <3> HIDE DEF do
    <3>3. einst' \in [Elements -> Insts \cup {None}]
      BY <3>1, <3>2
    <3>4. emulti' \in Nat
      BY <3>1, <3>2
    <3>5. QED
      BY <3>3, <3>4
  <2>2. QED
    BY <1>1, <1>5, <2>1 DEF EventInv, EventType, Belongs
<1>8. VersionPlace(p)'
  BY <1>2, <1>5, <1>6 DEF VersionPlace
<1>9. Routed'
  <2> SUFFICES ASSUME NEW e \in Devs, sinst[e] # None
               PROVE  evt_idx[e] \in Elements /\ einst'[evt_idx[e]] = sinst[e]
    BY <1>1 DEF Routed
  <2>1. evt_idx[e] \in Elements /\ einst[evt_idx[e]] = sinst[e]
    BY DEF EventInv, Routed
  <2>2. QED
    BY <1>6, <2>1
<1>10. EventElements'
  <2>1. emulti' # 0
    BY <1>1 DEF EventInv, EventType
  <2>2. \A e \in Elements : einst'[e] = None \/ einst'[e] \in part
    BY <1>6 DEF EventInv, EventElements
  <2>3. ASSUME NEW e \in Elements, NEW j \in Elements, e # j, einst'[e] # None
        PROVE  einst'[e] # einst'[j]
    BY <1>2, <1>6, <2>3 DEF EventInv, EventElements
  <2>4. ASSUME NEW e \in Elements, NEW j \in Elements, e < j, einst'[j] # None
        PROVE  einst'[e] # None
    BY <1>2, <1>5, <1>6, <2>4 DEF EventInv, EventElements
  <2>5. QED
    BY <1>1, <2>1, <2>2, <2>3, <2>4 DEF EventElements
<1>11. QED
  BY <1>1, <1>5, <1>7, <1>8, <1>9, <1>10 DEF EventInv

\* Route keeps EventInv.
LEMMA RouteStep ==
    ASSUME EventInv, NEW p \in part, Route(p)
    PROVE  EventInv'
<1> DEFINE d == proc[p].d
           i == proc[p].i
           do == [pc |-> "enter", d |-> d, inst |-> p, i |-> i]
<1>1. /\ proc[p].pc = "route" /\ UNCHANGED <<part, kinst, einst, emulti, sinst>>
      /\ evt_idx' = [e \in Devs |-> IF e \in proc[p].inst THEN i ELSE evt_idx[e]]
      /\ Then(p, [proc[p] EXCEPT !.pc = "enter"])
  BY DEF Route
<1>2. /\ proc[p] = [pc |-> "route", d |-> d, inst |-> p, i |-> i]
      /\ d \in p /\ i \in Elements /\ einst[i] = p
  BY <1>1 DEF EventInv, VersionPlace
<1>3. \A q \in part : q # p => proc[q].pc \notin VersionSteps
  BY <1>1 DEF EventInv, OneSending, VersionSteps
<1> HIDE DEF d, i
<1>4. Then(p, do) /\ evt_idx' = [e \in Devs |-> IF e \in p THEN i ELSE evt_idx[e]]
  <2>1. [proc[p] EXCEPT !.pc = "enter"] = do /\ proc[p].inst = p
    BY <1>2
  <2>2. QED
    BY <1>1, <2>1
<1>5. /\ p \in Insts /\ p # None /\ p \subseteq Devs
      /\ DOMAIN proc' = Insts /\ proc'[p] = do
      /\ kinst' \in [Devs -> Insts \cup {None}] /\ Belongs(kinst)' /\ OneSending'
      /\ \A q \in part : q # p => VersionPlace(q)'
  BY <1>1, <1>3, <1>4, OtherVersions
<1>6. EventType' /\ Belongs(sinst)' /\ EventElements'
  <2>1. i \in Indices
    BY <1>2 DEF Indices
  <2>2. evt_idx' \in [Devs -> Indices]
    BY <1>4, <2>1 DEF EventInv, EventType
  <2>3. QED
    BY <1>1, <1>5, <2>2 DEF EventInv, EventType, Belongs, EventElements
<1>7. VersionPlace(p)'
  <2>1. d \in Devs /\ evt_idx'[d] = i
    BY <1>2, <1>4, <1>5
  <2>2. QED
    BY <1>1, <1>2, <1>5, <2>1 DEF VersionPlace
<1>8. Routed'
  <2> SUFFICES ASSUME NEW e \in Devs, sinst[e] # None
               PROVE  evt_idx'[e] \in Elements /\ einst[evt_idx'[e]] = sinst[e]
    BY <1>1 DEF Routed
  <2>1. CASE e \in p
    <3>1. sinst[e] = p
      BY <2>1, Instances DEF EventInv, EventType, Belongs
    <3>2. QED
      BY <1>2, <1>4, <2>1, <3>1
  <2>2. CASE e \notin p
    BY <1>4, <2>2 DEF EventInv, Routed
  <2>3. QED
    BY <2>1, <2>2
<1>9. QED
  BY <1>1, <1>5, <1>6, <1>7, <1>8 DEF EventInv

\* Enter keeps EventInv.
LEMMA EnterStep ==
    ASSUME EventInv, NEW p \in part, Enter(p)
    PROVE  EventInv'
<1> DEFINE d == proc[p].d
<1>1. /\ proc[p].pc = "enter" /\ UNCHANGED <<part, kinst, einst, emulti, evt_idx>>
      /\ sinst' = [sinst EXCEPT ![d] = proc[p].inst] /\ Then(p, Ready)
  BY DEF Enter
<1>2. /\ d \in p /\ proc[p].inst = p
      /\ evt_idx[d] \in Elements /\ einst[evt_idx[d]] = p
  BY <1>1 DEF EventInv, VersionPlace
<1>3. \A q \in part : q # p => proc[q].pc \notin VersionSteps
  BY <1>1 DEF EventInv, OneSending, VersionSteps
<1> HIDE DEF d
<1>4. /\ p \in Insts /\ p # None /\ p \subseteq Devs
      /\ DOMAIN proc' = Insts /\ proc'[p] = Ready
      /\ kinst' \in [Devs -> Insts \cup {None}] /\ Belongs(kinst)' /\ OneSending'
      /\ \A q \in part : q # p => VersionPlace(q)'
  BY <1>1, <1>3, OtherVersions
<1>5. sinst' = [sinst EXCEPT ![d] = p] /\ d \in Devs
  BY <1>1, <1>2, <1>4
<1>6. EventType' /\ Belongs(sinst)' /\ EventElements' /\ Routed'
  BY <1>1, <1>2, <1>4, <1>5 DEF EventInv, EventType, Belongs, EventElements, Routed
<1>7. VersionPlace(p)'
  BY <1>4 DEF VersionPlace, Ready
<1>8. QED
  BY <1>1, <1>4, <1>6, <1>7 DEF EventInv

\* EventInv is inductive.
LEMMA EventInvariant ==
    ASSUME OneVersion, SamePartition
    PROVE  Spec => []EventInv
<1>1. Init => EventInv
  <2> SUFFICES ASSUME Init PROVE EventInv
    OBVIOUS
  <2>1. 0 \in Nat /\ -1 \in Indices
    BY DEF Indices
  <2>2. EventType
    <3>1. DOMAIN proc = Insts /\ part \in Partitions /\ emulti \in Nat
      BY DEF Init
    <3>2. /\ kinst \in [Devs -> Insts \cup {None}]
          /\ sinst \in [Devs -> Insts \cup {None}]
      BY DEF Init
    <3>3. einst \in [Elements -> Insts \cup {None}]
      BY DEF Init
    <3>4. evt_idx \in [Devs -> Indices]
      BY <2>1 DEF Init
    <3>5. QED
      BY <3>1, <3>2, <3>3, <3>4 DEF EventType
  <2>3. Belongs(kinst) /\ Belongs(sinst) /\ EventElements /\ Routed
    BY DEF Init, Belongs, EventElements, Routed
  <2>4. \A p \in part : proc[p].pc = "ready"
    BY Instances DEF Init, Ready
  <2>5. OneSending /\ \A p \in part : VersionPlace(p)
    BY <2>4 DEF OneSending, VersionPlace, VersionSteps
  <2>6. QED
    BY <2>2, <2>3, <2>5 DEF EventInv
<1>2. EventInv /\ [Next]_vars => EventInv'
  <2> SUFFICES ASSUME EventInv, [Next]_vars PROVE EventInv'
    OBVIOUS
  <2>1. ASSUME NEW p \in part,
               \/ Attach(p) \/ DmaAlloc(p) \/ Reserve(p) \/ Choose(p) \/ Take(p) \/ Assign(p)
        PROVE  EventInv'
    BY <2>1, AttachApart
  <2>2. ASSUME NEW p \in part, Version(p) PROVE EventInv'
    BY <2>2, VersionStep
  <2>3. ASSUME NEW p \in part, Find(p) PROVE EventInv'
    BY <2>3, FindStep
  <2>4. ASSUME NEW p \in part, Claim(p) PROVE EventInv'
    BY <2>4, ClaimStep
  <2>5. ASSUME NEW p \in part, Route(p) PROVE EventInv'
    BY <2>5, RouteStep
  <2>6. ASSUME NEW p \in part, Enter(p) PROVE EventInv'
    BY <2>6, EnterStep
  <2>7. ASSUME Reload PROVE EventInv'
    <3>1. /\ UNCHANGED <<part, proc, knet>> /\ kinst' = [d \in Devs |-> None]
      BY <2>7 DEF Reload
    <3>2. kinst' \in [Devs -> Insts \cup {None}] /\ \A d \in Devs : kinst'[d] = None
      BY <3>1
    <3>3. Belongs(kinst)' /\ DOMAIN proc' = Insts
      BY <3>1, <3>2 DEF EventInv, EventType, Belongs
    <3>4. QED
      BY <3>1, <3>2, <3>3, OtherEvents
  <2>8. ASSUME UNCHANGED vars PROVE EventInv'
    <3>1. UNCHANGED <<part, proc, kinst, knet>>
      BY <2>8 DEF vars
    <3>2. kinst' \in [Devs -> Insts \cup {None}] /\ Belongs(kinst)' /\ DOMAIN proc' = Insts
      BY <3>1 DEF EventInv, EventType, Belongs
    <3>3. QED
      BY <3>1, <3>2, OtherEvents
  <2>9. QED
    BY <2>1, <2>2, <2>3, <2>4, <2>5, <2>6, <2>7, <2>8 DEF Next
<1>3. QED
  BY <1>1, <1>2, PTL DEF Spec

\* Events of a device wake the one wait queue of its instance, whatever processes send
\* VERSION, and VERSION finds one for each of them.
THEOREM OwnEventsCorrect ==
    ASSUME OneVersion, SamePartition
    PROVE  Spec => []OwnEvents
<1>1. EventInv => OwnEvents
  <2> SUFFICES ASSUME EventInv PROVE OwnEvents
    OBVIOUS
  <2>1. ASSUME NEW d \in Devs, sinst[d] # None
        PROVE  /\ evt_idx[d] \in Elements /\ einst[evt_idx[d]] = sinst[d]
               /\ \A e \in Devs : sinst[e] \notin {None, sinst[d]} => evt_idx[e] # evt_idx[d]
    BY <2>1 DEF EventInv, Routed
  <2>2. \A i, j \in Elements : i # j => einst[i] = None \/ einst[i] # einst[j]
    BY DEF EventInv, EventElements
  <2>3. \A p \in part : proc[p].pc # "refused"
    BY DEF EventInv, VersionPlace
  <2>4. QED
    BY <2>1, <2>2, <2>3 DEF OwnEvents
<1>2. QED
  BY <1>1, EventInvariant, PTL
=============================================================================
