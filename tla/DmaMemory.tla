----------------------------- MODULE DmaMemory -----------------------------
(***************************************************************************)
(* The kernel BDE's DMA memory (linux_dma.c) with dmaalloc=1: a segment    *)
(* put together from blocks of the page allocator, mapped for every        *)
(* device, and the pool (Mpool) that kernel clients share.  Not modelled:  *)
(* dmaalloc=0, high memory, and the case without a pool (dmasize=0), where *)
(* salloc uses kmalloc or a segment for each block.                        *)
(*                                                                         *)
(* Addresses of pages count blocks of DMA_BLOCK_SIZE; 0 is what a block    *)
(* that could not be allocated has in blk_ptr.                             *)
(***************************************************************************)
EXTENDS Mpool

CONSTANTS
    Blocks,          \* addresses the page allocator may hand out
    ReqBlocks,       \* blocks the pool needs
    MoreBlocks,      \* blocks by which a segment's blocks grow: 8 in the code
    BlkCntMax,       \* blk_cnt_max
    BlockBytes,      \* DMA_BLOCK_SIZE
    NumDevices,      \* devices that memory is mapped for
    BusAddresses,    \* where they may see it
    FirstBlockGiven, \* the page allocator has at least one block
    Below4GB         \* all mapped addresses are

\* Kernel addresses of blocks are far from 0.
ASSUME MemoryAssumption ==
    /\ IsFiniteSet(Blocks) /\ \A a \in Blocks : a \in Nat /\ a > 1
    /\ ReqBlocks \in Nat \ {0} /\ MoreBlocks \in Nat \ {0} /\ BlkCntMax \in Nat
    /\ ReqBlocks <= BlkCntMax /\ BlockBytes \in Nat \ {0} /\ BlockBytes % Line = 0
    /\ NumDevices \in Nat /\ BusAddresses \subseteq Nat \ {0}
    /\ FirstBlockGiven \in BOOLEAN /\ Below4GB \in BOOLEAN

VARIABLES
    pc,        \* "idle", or where _alloc_mpool is
    boot,      \* the module was just loaded: _dma_init comes
    pages,     \* blocks that the page allocator handed out
    reserved,  \* blocks whose pages are reserved
    blk_ptr,   \* the segment being put together: its blocks,
    tag,       \* their tags (low bits of blk_ptr)
    seg_begin, \* and the largest contiguous segment
    seg_size,
    blk,       \* _find_largest_segment's i,
    look,      \* j,
    begin,     \* b,
    end,       \* e
    found,     \* and found
    dma_seg,   \* _dma_seg: the blocks of finished segments
    vbase,     \* _dma_vbase, or 0
    pbase,     \* _dma_pbase, or 0
    maps       \* mappings of memory for devices, as <<device, bus address>>

dseg == <<blk_ptr, tag, seg_begin, seg_size>>
locals == <<blk, look, begin, end, found>>
memory == <<boot, dma_seg, reserved, vbase, pbase, maps>>
vars == <<poolvars, pc, pages, dseg, locals, memory>>

Untagged == 0
Discarded == 1
Largest == 2
Current == 3

-----------------------------------------------------------------------------
Init ==
    /\ PoolInit
    /\ pc = "idle" /\ boot = TRUE /\ pages = {} /\ reserved = {} /\ dma_seg = {}
    /\ blk_ptr = <<>> /\ tag = <<>> /\ seg_begin = 0 /\ seg_size = 0
    /\ blk = 0 /\ look = 0 /\ begin = 0 /\ end = 0 /\ found = FALSE
    /\ vbase = 0 /\ pbase = 0 /\ maps = {}

\* _alloc_dma_blocks: n more entries of blk_ptr, of which the page allocator fills the
\* first ones.
AllocBlocks(n) ==
    \E given \in UNION {[1 .. g -> Blocks \ pages] : g \in 0 .. n} :
        /\ IsInjective(given)
        /\ FirstBlockGiven /\ blk_ptr = <<>> => Len(given) > 0
        /\ blk_ptr' = blk_ptr \o given \o [x \in 1 .. n - Len(given) |-> 0]
        /\ pages' = pages \cup Range(given)

\* _dma_init or lkbde_get_dma_info, without memory: _dma_segment_alloc starts.
Begin ==
    /\ pc = "idle" /\ vbase = 0
    /\ pc' = "find"
    /\ AllocBlocks(ReqBlocks)
    /\ seg_begin' = 0 /\ seg_size' = 0 /\ tag' = <<>>
    /\ UNCHANGED <<poolvars, locals, memory>>

\* _find_largest_segment starts: tags are cleared; the largest segment of earlier calls
\* still counts.
FindLargest ==
    /\ pc = "find"
    /\ tag' = [x \in 1 .. Len(blk_ptr) |-> Untagged]
    /\ blk' = 1
    /\ pc' = "scan"
    /\ UNCHANGED <<poolvars, pages, blk_ptr, seg_begin, seg_size, look, begin, end, found, memory>>

Scanning == blk <= Len(blk_ptr) /\ seg_size < ReqBlocks

\* The next block is in a segment already, or begins one of its own.
PassBlock ==
    /\ pc = "scan" /\ Scanning /\ tag[blk] # Untagged
    /\ blk' = blk + 1
    /\ UNCHANGED <<poolvars, pc, pages, dseg, look, begin, end, found, memory>>

StartSegment ==
    /\ pc = "scan" /\ Scanning /\ tag[blk] = Untagged
    /\ begin' = blk_ptr[blk] /\ end' = blk_ptr[blk] + 1
    /\ tag' = [tag EXCEPT ![blk] = Current]
    /\ found' = FALSE /\ look' = blk + 1
    /\ pc' = "grow"
    /\ UNCHANGED <<poolvars, pages, blk_ptr, seg_begin, seg_size, blk, memory>>

Looking == look <= Len(blk_ptr) /\ end - begin < ReqBlocks

\* Mutant: only blocks above the segment.
Above(a) == a = end

\* Blocks next to either end of the segment.
Adjacent(a) == a = begin - 1 \/ a = end

\* One block after blk is looked at: the segment [begin, end) grows by it.
Look ==
    /\ pc = "grow" /\ Looking
    /\ look' = look + 1
    /\ LET a == blk_ptr[look] IN
       IF tag[look] = Untagged /\ Adjacent(a)
         THEN /\ begin' = IF a = begin - 1 THEN a ELSE begin
              /\ end' = IF a = begin - 1 THEN end ELSE end + 1
              /\ tag' = [tag EXCEPT ![look] = Current]
              /\ found' = TRUE
         ELSE UNCHANGED <<begin, end, tag, found>>
    /\ UNCHANGED <<poolvars, pc, pages, blk_ptr, seg_begin, seg_size, blk, memory>>

\* Another round, as long as the last one found a block.
LookAgain ==
    /\ pc = "grow" /\ ~Looking /\ found
    /\ found' = FALSE /\ look' = blk + 1
    /\ UNCHANGED <<poolvars, pc, pages, dseg, blk, begin, end, memory>>

\* The segment is the largest so far, and the one before is discarded; or it is.
EndSegment ==
    /\ pc = "grow" /\ ~Looking /\ ~found
    /\ IF end - begin > seg_size
         THEN /\ seg_begin' = begin /\ seg_size' = end - begin
              /\ tag' = [x \in DOMAIN tag |->
                           CASE tag[x] = Current -> Largest
                             [] tag[x] = Largest -> Discarded
                             [] OTHER -> tag[x]]
         ELSE /\ tag' = [x \in DOMAIN tag |-> IF tag[x] = Current THEN Discarded ELSE tag[x]]
              /\ UNCHANGED <<seg_begin, seg_size>>
    /\ blk' = blk + 1
    /\ look' = 0 /\ begin' = 0 /\ end' = 0 /\ UNCHANGED found
    /\ pc' = "scan"
    /\ UNCHANGED <<poolvars, pages, blk_ptr, memory>>

EndScan ==
    /\ pc = "scan" /\ ~Scanning
    /\ blk' = 0
    /\ pc' = IF seg_size >= ReqBlocks THEN "release" ELSE "more"
    /\ UNCHANGED <<poolvars, pages, dseg, look, begin, end, found, memory>>

\* More blocks; when one cannot be had, or there are too many, the search is over.
MoreMemory ==
    /\ pc = "more"
    /\ \/ /\ Len(blk_ptr) + MoreBlocks > BlkCntMax
          /\ pc' = "release"
          /\ UNCHANGED <<blk_ptr, pages>>
       \/ /\ Len(blk_ptr) + MoreBlocks <= BlkCntMax
          /\ AllocBlocks(MoreBlocks)
          /\ pc' = IF blk_ptr'[Len(blk_ptr')] = 0 THEN "release" ELSE "find"
    /\ tag' = tag \o [x \in 1 .. Len(blk_ptr') - Len(blk_ptr) |-> Untagged]
    /\ UNCHANGED <<poolvars, seg_begin, seg_size, locals, memory>>

Kept == {blk_ptr[j] : j \in {x \in DOMAIN tag : tag[x] = Largest}}

\* _dma_segment_alloc ends: the pages of the largest segment are reserved, other blocks
\* are freed.  _pgalloc frees the segment, too, when it is too small.
Release ==
    /\ pc = "release"
    /\ LET whole == seg_size >= ReqBlocks
           given == whole /\ seg_begin # 0 IN
       /\ pages' = pages \ (Range(blk_ptr) \ IF whole THEN Kept ELSE {})
       /\ reserved' = IF whole THEN reserved \cup Kept
                      ELSE reserved \cup (Kept \cap {0})
       /\ dma_seg' = IF whole THEN dma_seg \cup Kept ELSE dma_seg
       /\ vbase' = IF given THEN seg_begin ELSE 0
       /\ pc' = IF given THEN "map" ELSE "idle"
       /\ boot' = (boot /\ given)
    /\ blk_ptr' = <<>> /\ tag' = <<>> /\ seg_begin' = 0 /\ seg_size' = 0
    /\ UNCHANGED <<poolvars, locals, pbase, maps>>

\* _pgcleanup, with mappings m, frees every segment of the list.
Unmapped(m, addr) == m \ {<<d, addr>> : d \in 1 .. NumDevices}
PgCleanup(m) ==
    /\ maps' = m
    /\ pages' = pages \ dma_seg
    /\ reserved' = reserved \ dma_seg
    /\ dma_seg' = {}

\* Devices whose bus address differs from the one before.
Differ(h) == {d \in 2 .. NumDevices : h[d] # h[d - 1]}

\* Mutant: the mapping of the first device is kept.
UndoButFirst(h) ==
    LET i == Min(Differ(h)) IN
    {<<d, h[d]>> : d \in 1 .. i} \ ({<<i, h[i]>>} \cup {<<d, h[i - 1]>> : d \in 2 .. i - 1})

\* What is left of the mappings when the address of device i is not that of the others:
\* device i and those before it are unmapped.
Undo(h) ==
    LET i == Min(Differ(h)) IN
    {<<d, h[d]>> : d \in 1 .. i} \ ({<<i, h[i]>>} \cup {<<d, h[i - 1]>> : d \in 1 .. i - 1})

\* The segment is mapped for each device.  All must see it at one address, and below
\* 4 GB: otherwise it is given back (the second time by _dma_pbase, which is not set).
Map ==
    /\ pc = "map"
    /\ \E h \in [1 .. NumDevices -> BusAddresses], low \in {TRUE, Below4GB} :
         LET all == {<<d, h[d]>> : d \in 1 .. NumDevices} IN
         \/ /\ Differ(h) # {}
            /\ PgCleanup(maps \cup Undo(h))
            /\ vbase' = 0 /\ pc' = "idle" /\ boot' = FALSE
            /\ UNCHANGED pbase
         \/ /\ Differ(h) = {} /\ ~low
            /\ PgCleanup(Unmapped(maps \cup all, pbase))
            /\ vbase' = 0 /\ pbase' = 0 /\ pc' = "idle" /\ boot' = FALSE
         \/ /\ Differ(h) = {} /\ low
            /\ pbase' = IF NumDevices = 0 THEN vbase ELSE h[1]
            /\ maps' = maps \cup all
            /\ pc' = "pool"
            /\ UNCHANGED <<pages, reserved, dma_seg, vbase, boot>>
    /\ UNCHANGED <<poolvars, dseg, locals>>

\* _dma_init creates the pool; lkbde_get_dma_info does not.
MakePool ==
    /\ pc = "pool"
    /\ IF boot THEN Create(vbase * BlockBytes, ReqBlocks * BlockBytes)
       ELSE UNCHANGED poolvars
    /\ pc' = "idle" /\ boot' = FALSE
    /\ UNCHANGED <<pages, reserved, dseg, locals, dma_seg, vbase, pbase, maps>>

\* _salloc and _sfree of kernel clients.
Salloc ==
    /\ pc = "idle"
    /\ \E n \in Sizes : Alloc(n)
    /\ UNCHANGED <<pc, pages, dseg, locals, memory>>

Sfree ==
    /\ pc = "idle"
    /\ \E b \in held : Free(b)
    /\ UNCHANGED <<pc, pages, dseg, locals, memory>>

\* _dma_cleanup as the module is unloaded, when no client is left; then the module is
\* loaded again.
Reload ==
    /\ pc = "idle"
    /\ IF vbase # 0
         THEN /\ Destroy
              /\ PgCleanup(Unmapped(maps, pbase))
         ELSE UNCHANGED <<poolvars, maps, pages, reserved, dma_seg>>
    /\ vbase' = 0 /\ pbase' = 0 /\ boot' = TRUE
    /\ UNCHANGED <<pc, dseg, locals>>

Next ==
    \/ Begin \/ MoreMemory \/ Release \/ Map \/ MakePool
    \/ FindLargest \/ PassBlock \/ StartSegment \/ Look \/ LookAgain \/ EndSegment \/ EndScan
    \/ Salloc \/ Sfree \/ Reload

Spec == Init /\ [][Next]_vars

-----------------------------------------------------------------------------
(* Properties.                                                             *)

TypeOK ==
    /\ PoolTypeOK
    /\ pc \in {"idle", "find", "scan", "grow", "more", "release", "map", "pool"} /\ boot \in BOOLEAN
    /\ pages \subseteq Blocks /\ reserved \subseteq Blocks \cup {0}
    /\ blk_ptr \in Seq(Blocks \cup {0}) /\ tag \in Seq(0 .. 3)
    /\ seg_begin \in Blocks \cup {0} /\ seg_size \in 0 .. ReqBlocks
    /\ dma_seg \subseteq Blocks \cup {0} /\ vbase \in Blocks \cup {0}
    /\ maps \subseteq (1 .. NumDevices) \X BusAddresses

Run(a, n) == a .. a + n - 1

\* _find_largest_segment finds the largest run of adjacent blocks there is, up to the
\* size asked for, whatever the order of the blocks and of the calls; the blocks of a
\* whole segment are those that will be kept.
LargestFound ==
    /\ pc = "more" =>
        \A n \in 1 .. ReqBlocks, a \in Blocks : Run(a, n) \subseteq Range(blk_ptr) => n <= seg_size
    /\ pc = "release" /\ seg_size >= ReqBlocks => Kept = Run(seg_begin, seg_size)

\* What _dma_segment_alloc says of itself: out of blocks, it returns the largest segment
\* found so far.  Not so when the last search found none as large as one before it: all
\* blocks are freed, and seg_begin points to one of them.
LargestReturned == pc = "release" => Kept \ {0} = Run(seg_begin, seg_size) \ {0}

\* The pool is memory that the module has: all its pages are allocated and reserved and
\* every device has it mapped.  Outside of an allocation the module holds just this, and
\* nothing after a failure or _dma_cleanup.
MemoryBalanced ==
    pc = "idle" =>
        /\ pages = (IF vbase = 0 THEN {} ELSE Run(vbase, ReqBlocks))
        /\ reserved = pages /\ dma_seg = pages
        /\ maps = (IF vbase = 0 THEN {} ELSE {<<d, pbase>> : d \in 1 .. NumDevices})
        /\ nodes # <<>> => /\ vbase # 0 /\ nodes[1].address = vbase * BlockBytes
                           /\ nodes[Len(nodes)].address = (vbase + ReqBlocks) * BlockBytes
=============================================================================
