---------------------------- MODULE BdeInstances ----------------------------
(***************************************************************************)
(* Several application processes, each with the switch devices of its      *)
(* instance.  The user BDE gives an instance a part of the DMA memory and  *)
(* a wait queue for interrupts (ATTACH_INSTANCE); the kernel BDE keeps the *)
(* instance of a device for KNET, which gives each instance a wait queue   *)
(* for its events (KCOM_M_VERSION).  Neither ioctl takes a lock around its *)
(* steps.  An instance stands for its process; a process that ends and is  *)
(* started again attaches again.  Devices that are plugged in later are    *)
(* left out, and so are processes without an instance.                     *)
(***************************************************************************)
EXTENDS Integers, FiniteSets, FiniteSetsExt

CONSTANTS
    NumDevices,     \* num_devices(BDE_ALL_DEVICES)
    Partitions,     \* the ways devices may be divided into instances
    TotalSize,      \* _dma_pool.total_size
    Sizes,          \* sizes of DMA memory that a process may ask for
    OneAttach,      \* processes attach one at a time
    OneVersion,     \* and send VERSION one at a time
    SameSize,       \* a process asks for the same size each time
    SamePartition   \* and the instances do not change

Devs == 0 .. NumDevices - 1
Elements == 0 .. NumDevices - 1     \* of _bde_inst_resource and of _bkn_evt
Insts == UNION Partitions
None == {}

ASSUME InstancesAssumption ==
    /\ NumDevices \in Nat \ {0} /\ TotalSize \in Nat /\ Sizes \subseteq Nat \ {0}
    /\ \A part \in Partitions :
         /\ UNION part = Devs /\ {} \notin part
         /\ \A p, q \in part : p # q => p \cap q = {}
    /\ OneAttach \in BOOLEAN /\ OneVersion \in BOOLEAN /\ SameSize \in BOOLEAN
    /\ SamePartition \in BOOLEAN

VARIABLES
    part,      \* the instances of the processes that run
    ask,       \* the size each asks for, when it is always the same
    proc,      \* what the process of an instance is doing
    res,       \* _bde_inst_resource: inst_id, dma_offset, dma_size
    offset,    \* _dma_pool.offset
    multi,     \* _bde_multi_inst
    dinst,     \* _devices[d].inst of the user BDE
    kinst,     \* inst_id of the device in the kernel BDE
    granted,   \* ghost: the size for which the process is attached, or 0
    einst,     \* KNET: _bkn_evt[i].inst_id
    emulti,    \* _bkn_multi_inst
    sinst,     \* sinfo->inst_id
    evt_idx    \* sinfo->evt_idx

userbde == <<res, offset, multi, dinst, granted>>
knet == <<einst, emulti, sinst, evt_idx>>
vars == <<part, ask, proc, userbde, kinst, knet>>

Ready == [pc |-> "ready"]
Then(p, do) == proc' = [proc EXCEPT ![p] = do]

AttachSteps == {"alloc", "reserve", "choose", "take", "assign"}
VersionSteps == {"find", "claim", "route", "enter"}
Others(p, steps) == \E q \in part \ {p} : proc[q].pc \in steps

-----------------------------------------------------------------------------
\* The user BDE as it is loaded: element 0 is that of all devices.
LoadUser ==
    /\ res' = [i \in Elements |-> IF i = 0 THEN [inst |-> Devs, off |-> 0, size |-> TotalSize]
                                  ELSE [inst |-> None, off |-> 0, size |-> 0]]
    /\ offset' = 0 /\ multi' = 0 /\ dinst' = [d \in Devs |-> 0]
    /\ granted' = [p \in Insts |-> 0]

Init ==
    /\ part \in Partitions /\ ask \in [Insts -> Sizes]
    /\ proc = [p \in Insts |-> Ready]
    /\ res = [i \in Elements |-> IF i = 0 THEN [inst |-> Devs, off |-> 0, size |-> TotalSize]
                                 ELSE [inst |-> None, off |-> 0, size |-> 0]]
    /\ offset = 0 /\ multi = 0 /\ dinst = [d \in Devs |-> 0]
    /\ granted = [p \in Insts |-> 0]
    /\ kinst = [d \in Devs |-> None]
    /\ einst = [i \in Elements |-> None] /\ emulti = 0
    /\ sinst = [d \in Devs |-> None] /\ evt_idx = [d \in Devs |-> -1]

\* The last process is gone; linux-user-bde is unloaded and loaded again.
Reload ==
    /\ \A p \in part : proc[p] = Ready
    /\ LoadUser
    /\ kinst' = [d \in Devs |-> None]
    /\ part' \in IF SamePartition THEN {part} ELSE Partitions
    /\ UNCHANGED <<ask, proc, knet>>

-----------------------------------------------------------------------------
(* LUBDE_ATTACH_INSTANCE: _instance_attach.                                *)

OfInst(p) == {i \in Elements : res[i].inst = p}

\* _instance_validate: "exists" is success, "new" goes on.  The device looked at has the
\* number of the element.
Validate(p, n) ==
    IF OfInst(p) = {} THEN "new"
    ELSE LET i == Min(OfInst(p)) IN
         IF res[i].size = n THEN "exists"
         ELSE IF dinst[i] = 0 THEN "new"
         ELSE "mismatch"

Attach(p) ==
    /\ proc[p] = Ready
    /\ OneAttach => ~Others(p, AttachSteps)
    /\ \E n \in IF SameSize THEN {ask[p]} ELSE Sizes :
         CASE Validate(p, n) = "exists" ->
                  granted' = [granted EXCEPT ![p] = n] /\ UNCHANGED proc
           [] Validate(p, n) = "mismatch" ->
                  granted' = [granted EXCEPT ![p] = 0] /\ UNCHANGED proc
           [] OTHER ->
                  /\ granted' = [granted EXCEPT ![p] = 0]
                  /\ Then(p, [pc |-> "alloc", n |-> n])
    /\ UNCHANGED <<part, ask, res, offset, multi, dinst, kinst, knet>>

\* _dma_resource_alloc: the part starts where the last one ended ...
DmaAlloc(p) ==
    /\ proc[p].pc = "alloc"
    /\ Then(p, IF proc[p].n > TotalSize - offset THEN Ready
               ELSE [pc |-> "reserve", n |-> proc[p].n, off |-> offset])
    /\ UNCHANGED <<part, ask, userbde, kinst, knet>>

\* Mutant: the part is not taken from the pool.
ReserveNothing(p) ==
    /\ proc[p].pc = "reserve"
    /\ Then(p, [proc[p] EXCEPT !.pc = "choose"])
    /\ UNCHANGED <<part, ask, userbde, kinst, knet>>

\* ... and the pool what is left.
Reserve(p) ==
    /\ proc[p].pc = "reserve"
    /\ offset' = offset + proc[p].n
    /\ Then(p, [proc[p] EXCEPT !.pc = "choose"])
    /\ UNCHANGED <<part, ask, res, multi, dinst, granted, kinst, knet>>

\* Elements that _instance_attach may take: the first instance takes element 0.
FreeElements == {i \in Elements : multi = 0 \/ res[i].inst = None}

\* The first of them, or none, is chosen ...
Choose(p) ==
    /\ proc[p].pc = "choose"
    /\ LET i == IF FreeElements = {} THEN -1 ELSE Min(FreeElements) IN
       Then(p, [pc |-> IF i = -1 THEN "assign" ELSE "take",
                n |-> proc[p].n, off |-> proc[p].off, i |-> i])
    /\ UNCHANGED <<part, ask, userbde, kinst, knet>>

\* ... and taken.
Take(p) ==
    /\ proc[p].pc = "take"
    /\ res' = [res EXCEPT ![proc[p].i] =
                 [inst |-> p, off |-> proc[p].off, size |-> proc[p].n]]
    /\ multi' = multi + 1
    /\ Then(p, [proc[p] EXCEPT !.pc = "assign"])
    /\ UNCHANGED <<part, ask, offset, dinst, granted, kinst, knet>>

\* Mutant: the element is noted for the first device only.
AssignFirst(p) ==
    /\ proc[p].pc = "assign"
    /\ dinst' = [dinst EXCEPT ![Min(p)] = proc[p].i]
    /\ kinst' = [d \in Devs |-> IF d \in p /\ kinst[d] = None THEN p ELSE kinst[d]]
    /\ granted' = [granted EXCEPT ![p] = proc[p].n]
    /\ Then(p, Ready)
    /\ UNCHANGED <<part, ask, res, offset, multi, knet>>

\* The devices of the instance get the element; the kernel BDE learns the instance of
\* those that had none.
Assign(p) ==
    /\ proc[p].pc = "assign"
    /\ dinst' = [d \in Devs |-> IF d \in p THEN proc[p].i ELSE dinst[d]]
    /\ kinst' = [d \in Devs |-> IF d \in p /\ kinst[d] = None THEN p ELSE kinst[d]]
    /\ granted' = [granted EXCEPT ![p] = proc[p].n]
    /\ Then(p, Ready)
    /\ UNCHANGED <<part, ask, res, offset, multi, knet>>

\* LUBDE_GET_DMA_INFO: _dma_resource_get, or all of the memory.
DmaInfo(p) ==
    IF multi = 0 THEN [off |-> 0, size |-> TotalSize]
    ELSE IF OfInst(p) = {} THEN [off |-> 0, size |-> 0]
    ELSE [off |-> res[Min(OfInst(p))].off, size |-> res[Min(OfInst(p))].size]

-----------------------------------------------------------------------------
(* KCOM_M_VERSION: bkn_knet_dev_inst_set.                                  *)

\* An instance that changed is forgotten.
Version(p) ==
    /\ proc[p] = Ready /\ granted[p] > 0
    /\ OneVersion => ~Others(p, VersionSteps)
    /\ \E d \in p :
         /\ kinst[d] # None
         /\ Then(p, [pc |-> IF sinst[d] = kinst[d] THEN "enter" ELSE "find",
                     d |-> d, inst |-> kinst[d]])
         /\ sinst' = [sinst EXCEPT ![d] = IF @ = kinst[d] THEN @ ELSE None]
         /\ evt_idx' = [evt_idx EXCEPT ![d] = IF sinst[d] = kinst[d] THEN @ ELSE -1]
    /\ UNCHANGED <<part, ask, userbde, kinst, einst, emulti>>

\* Mutant: an element of the instance is not looked for.
SuitableFree(inst) == {i \in Elements : emulti = 0 \/ einst[i] = None}

\* Elements of _bkn_evt that bkn_create_inst may use for an instance.
Suitable(inst) == {i \in Elements : einst[i] = inst \/ emulti = 0 \/ einst[i] = None}

\* bkn_create_inst looks for one ...
Find(p) ==
    /\ proc[p].pc = "find"
    /\ LET s == Suitable(proc[p].inst) IN
       Then(p, IF s = {} THEN [pc |-> "refused"]
               ELSE [pc |-> IF einst[Min(s)] = proc[p].inst THEN "route" ELSE "claim",
                     d |-> proc[p].d, inst |-> proc[p].inst, i |-> Min(s)])
    /\ UNCHANGED <<part, ask, userbde, kinst, knet>>

\* ... takes it (and initialises its wait queue) ...
Claim(p) ==
    /\ proc[p].pc = "claim"
    /\ einst' = [einst EXCEPT ![proc[p].i] = proc[p].inst]
    /\ emulti' = emulti + 1
    /\ Then(p, [proc[p] EXCEPT !.pc = "route"])
    /\ UNCHANGED <<part, ask, userbde, kinst, sinst, evt_idx>>

\* ... and gives it to all devices of the instance.
Route(p) ==
    /\ proc[p].pc = "route"
    /\ evt_idx' = [d \in Devs |-> IF d \in proc[p].inst THEN proc[p].i ELSE evt_idx[d]]
    /\ Then(p, [proc[p] EXCEPT !.pc = "enter"])
    /\ UNCHANGED <<part, ask, userbde, kinst, einst, emulti, sinst>>

Enter(p) ==
    /\ proc[p].pc = "enter"
    /\ sinst' = [sinst EXCEPT ![proc[p].d] = proc[p].inst]
    /\ Then(p, Ready)
    /\ UNCHANGED <<part, ask, userbde, kinst, einst, emulti, evt_idx>>

Next ==
    \/ \E p \in part :
         \/ Attach(p) \/ DmaAlloc(p) \/ Reserve(p) \/ Choose(p) \/ Take(p) \/ Assign(p)
         \/ Version(p) \/ Find(p) \/ Claim(p) \/ Route(p) \/ Enter(p)
    \/ Reload

Spec == Init /\ [][Next]_vars

-----------------------------------------------------------------------------
(* Properties.                                                             *)

Indices == Elements \cup {-1}

TypeOK ==
    /\ part \in Partitions /\ ask \in [Insts -> Sizes]
    /\ res \in [Elements -> [inst : SUBSET Devs, off : Nat, size : Nat]]
    /\ offset \in 0 .. TotalSize /\ multi \in Nat /\ dinst \in [Devs -> Indices]
    /\ kinst \in [Devs -> Insts \cup {None}] /\ granted \in [Insts -> Nat]
    /\ einst \in [Elements -> Insts \cup {None}] /\ emulti \in Nat
    /\ sinst \in [Devs -> Insts \cup {None}] /\ evt_idx \in [Devs -> Indices]

Attached == {p \in part : granted[p] > 0}

\* GET_DMA_INFO gives a process that is attached memory of the size it asked for, inside
\* the DMA memory and apart from that of every other process.
OwnDma ==
    /\ \A p \in Attached :
         /\ DmaInfo(p).size = granted[p]
         /\ DmaInfo(p).off + DmaInfo(p).size <= TotalSize
    /\ \A p, q \in Attached : p # q =>
         \/ DmaInfo(p).off + DmaInfo(p).size <= DmaInfo(q).off
         \/ DmaInfo(q).off + DmaInfo(q).size <= DmaInfo(p).off

\* Interrupts of an attached process's devices wake its own wait queue: the element that
\* _devices[d].inst names exists and is that of the instance.
OwnInterrupts ==
    \A p \in Attached : \A d \in p : dinst[d] \in Elements /\ res[dinst[d]].inst = p

\* Events of a device that KNET knows the instance of wake a wait queue that exists and
\* that only processes of this instance wait for.  An instance has one for all of its
\* devices, since a caller sleeps on the one it found, and VERSION does not run out.
OwnEvents ==
    /\ \A d \in Devs : sinst[d] # None =>
         /\ evt_idx[d] \in Elements /\ einst[evt_idx[d]] = sinst[d]
         /\ \A e \in Devs : sinst[e] \notin {None, sinst[d]} => evt_idx[e] # evt_idx[d]
    /\ \A i, j \in Elements : i # j => einst[i] = None \/ einst[i] # einst[j]
    /\ \A p \in part : proc[p].pc # "refused"
=============================================================================
