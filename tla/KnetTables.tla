----------------------------- MODULE KnetTables -----------------------------
(***************************************************************************)
(* The virtual network interfaces and the Rx filters of one switch device: *)
(* commands of several processes change the tables under sinfo->lock and   *)
(* free what they removed after they released it; the Rx path picks a      *)
(* filter and an interface under the lock and releases it while the        *)
(* network stack takes the packet.                                         *)
(*                                                                         *)
(* The LIST and GET commands only read.  A packet is what filters tell     *)
(* apart; whether it fits a filter's data and mask is the set m of the     *)
(* filter.  One context at a time takes packets (KnetNapi, KnetRx).        *)
(***************************************************************************)
EXTENDS Integers, Sequences, FiniteSets, SequencesExt

CONSTANTS
    Procs,          \* processes that send commands
    Ifaces,         \* memory for net_device objects
    Filters,        \* memory for bkn_filter_t objects
    Nil,
    NDEVS_CHUNK,
    KCOM_FILTER_MAX,
    NumRxPrio,      \* num_rx_prio
    RxChans,        \* sinfo->rx_chans
    Pkts,           \* packets as filters tell them apart
    Kfs,            \* contents a filter may be created with
    CbKfs,          \* what knet_filter_cb may make of them
    use_rx_skb,     \* Rx buffers of the kernel (SKB mode) or of the BCM Rx API
    KnownIdsOnly,   \* an interface is destroyed after its CREATE was answered
    MaxFails        \* bound on failures of kmalloc

Dests == {"NULL", "NETIF", "API", "CB"}
Contents == [priority : Nat, m : SUBSET Pkts, dest_type : Dests, dest_id : Nat,
             mirror_type : Dests, mirror_id : Nat]

ASSUME TablesAssumption ==
    /\ IsFiniteSet(Ifaces) /\ IsFiniteSet(Filters)
    /\ Nil \notin Ifaces \cup Filters
    /\ NDEVS_CHUNK \in Nat \ {0} /\ KCOM_FILTER_MAX \in Nat \ {0}
    /\ NumRxPrio \in Nat /\ RxChans \in Nat /\ MaxFails \in Nat
    /\ Kfs \subseteq Contents /\ CbKfs \subseteq Contents
    /\ use_rx_skb \in BOOLEAN /\ KnownIdsOnly \in BOOLEAN

VARIABLES
    ndev_list,    \* interfaces, in the order of the list
    ifid,         \* priv->id
    ndevs,        \* indexed array of ndev_list
    ndev_max,
    ifmem,        \* net_device objects that are allocated
    rxpf_list,    \* filters, in the order of the list
    kf, fid,      \* contents of a filter, its kf.id
    fmem,         \* bkn_filter_t objects that are allocated
    proc,         \* what each process still has to do for its command
    fails,        \* failures of kmalloc so far
    rx,           \* the Rx path
    made,         \* ghost: filters in the order of their creation
    sent          \* ghost: copies of the packet an interface got

ifvars == <<ndev_list, ifid, ndevs, ndev_max>>
filtervars == <<rxpf_list, kf, fid, made>>
vars == <<ifvars, ifmem, filtervars, fmem, proc, fails, rx, sent>>

-----------------------------------------------------------------------------
(* Lists.                                                                  *)

\* The ID expected at position k when there is no hole before it.
ExpectedId(k) == IF k = 1 THEN 1 ELSE ifid[ndev_list[k - 1]] + 1

\* Where bkn_knet_netif_create inserts: at the first hole.
NetifPos == Min({k \in 1 .. Len(ndev_list) : ExpectedId(k) < ifid[ndev_list[k]]}
                  \cup {Len(ndev_list) + 1})

\* Mutant: a new filter goes before those of the same priority.
FilterPosFirst(p) == Min({k \in 1 .. Len(rxpf_list) : p <= kf[rxpf_list[k]].priority}
                           \cup {Len(rxpf_list) + 1})

\* Where bkn_knet_filter_create inserts: before the first filter of a larger priority.
FilterPos(p) == Min({k \in 1 .. Len(rxpf_list) : p < kf[rxpf_list[k]].priority}
                      \cup {Len(rxpf_list) + 1})

\* Mutant: without the slow path.
LookupFast(id) == IF id < ndev_max THEN ndevs[id] ELSE Nil

\* bkn_netif_lookup: the array, then the list.
Lookup(id) ==
    LET held == {k \in 1 .. Len(ndev_list) : ifid[ndev_list[k]] = id} IN
    IF id < ndev_max /\ ndevs[id] # Nil THEN ndevs[id]
    ELSE IF held # {} THEN ndev_list[Min(held)]
    ELSE Nil

-----------------------------------------------------------------------------
(* bkn_match_rx_pkt.                                                       *)

\* A filter of a channel's priority range applies to this channel only.
ForChannel(p, chan) ==
    p < NumRxPrio * RxChans =>
        /\ p >= NumRxPrio * chan
        /\ p < NumRxPrio * (chan + 1)

\* taken: the call-back function takes the packet.
Matches(f, pkt, chan, taken) ==
    /\ ForChannel(kf[f].priority, chan)
    /\ pkt \in kf[f].m
    /\ kf[f].dest_type = "CB" => taken

\* The first filter of the list that matches.
FirstMatch(pkt, chan, taken) ==
    LET hits == {k \in 1 .. Len(rxpf_list) : Matches(rxpf_list[k], pkt, chan, taken)} IN
    IF hits = {} THEN Nil ELSE rxpf_list[Min(hits)]

-----------------------------------------------------------------------------
Idle == [pc |-> "idle"]
Blank == [priority |-> 0, m |-> {}, dest_type |-> "NULL", dest_id |-> 0,
          mirror_type |-> "NULL", mirror_id |-> 0]
NoCopies == [i \in Ifaces |-> 0]

Init ==
    /\ ndev_list = <<>> /\ ifid = [i \in Ifaces |-> 0]
    /\ ndevs = [id \in {} |-> Nil] /\ ndev_max = 0 /\ ifmem = {}
    /\ rxpf_list = <<>> /\ made = <<>> /\ fmem = {}
    /\ kf = [f \in Filters |-> Blank] /\ fid = [f \in Filters |-> 0]
    /\ proc = [p \in Procs |-> [op |-> "ready"]]
    /\ fails = 0 /\ rx = Idle /\ sent = NoCopies

-----------------------------------------------------------------------------
(* Commands.                                                               *)

Ready(p) == proc[p].op = "ready"
Then(p, do) == proc' = [proc EXCEPT ![p] = do]
Done(p) == Then(p, [op |-> "ready"])

\* The array grows by a chunk of empty entries.
Grown(t, id) == [n \in 0 .. ndev_max + NDEVS_CHUNK - 1 |->
                   IF n = id THEN t ELSE IF n < ndev_max THEN ndevs[n] ELSE Nil]

\* The array after interface i got an ID.  A write past its end has no place in
\* [0 .. ndev_max - 1 -> ...] and shows as an entry too many.
SetEntry(i, id) ==
    \/ /\ id < ndev_max
       /\ ndevs' = [ndevs EXCEPT ![id] = i]
       /\ UNCHANGED <<ndev_max, fails>>
    \/ /\ id >= ndev_max
       /\ ndevs' = IF id < ndev_max + NDEVS_CHUNK THEN Grown(i, id)
                   ELSE Grown(Nil, id) @@ (id :> i)
       /\ ndev_max' = ndev_max + NDEVS_CHUNK
       /\ UNCHANGED fails
    \/ /\ id >= ndev_max /\ fails < MaxFails       \* kmalloc failed
       /\ fails' = fails + 1
       /\ UNCHANGED <<ndevs, ndev_max>>

NetifCreate(p) ==
    /\ Ready(p)
    /\ \E i \in Ifaces \ ifmem :
         /\ ifmem' = ifmem \cup {i}
         /\ ifid' = [ifid EXCEPT ![i] = ExpectedId(NetifPos)]
         /\ ndev_list' = InsertAt(ndev_list, NetifPos, i)
         /\ SetEntry(i, ExpectedId(NetifPos))
         /\ Then(p, [op |-> "answer", dev |-> i])
    /\ UNCHANGED <<filtervars, fmem, rx, sent>>

\* The answer is made of the interface's ID, address and name, without the lock.
NetifAnswer(p) ==
    /\ proc[p].op = "answer"
    /\ Done(p)
    /\ UNCHANGED <<ifvars, ifmem, filtervars, fmem, fails, rx, sent>>

Unanswered == {proc[p].dev : p \in {q \in Procs : proc[q].op = "answer"}}

\* The interface leaves list and array.
NetifDestroy(p) ==
    /\ Ready(p)
    /\ \E k \in 1 .. Len(ndev_list) :
         LET i == ndev_list[k] IN
         /\ KnownIdsOnly => i \notin Unanswered
         /\ ndev_list' = RemoveAt(ndev_list, k)
         /\ ndevs' = IF ifid[i] < ndev_max THEN [ndevs EXCEPT ![ifid[i]] = Nil] ELSE ndevs
         /\ Then(p, [op |-> "unregister", dev |-> i])
    /\ UNCHANGED <<ifid, ndev_max, ifmem, filtervars, fmem, fails, rx, sent>>

\* unregister_netdev, which returns when no receiver of the network stack that
\* may hold the device is running any more, and free_netdev.
NetifFree(p) ==
    /\ proc[p].op = "unregister"
    /\ rx = Idle
    /\ ifmem' = ifmem \ {proc[p].dev}
    /\ ifid' = [ifid EXCEPT ![proc[p].dev] = 0]
    /\ Done(p)
    /\ UNCHANGED <<ndev_list, ndevs, ndev_max, filtervars, fmem, fails, rx, sent>>

FreeIds == {n \in 1 .. KCOM_FILTER_MAX - 1 :
              \A k \in 1 .. Len(rxpf_list) : fid[rxpf_list[k]] # n}

FilterCreate(p) ==
    /\ Ready(p)
    /\ FreeIds # {}
    /\ \E f \in Filters \ fmem, c \in Kfs :
         /\ fmem' = fmem \cup {f}
         /\ kf' = [kf EXCEPT ![f] = c]
         /\ fid' = [fid EXCEPT ![f] = Min(FreeIds)]
         /\ rxpf_list' = InsertAt(rxpf_list, FilterPos(c.priority), f)
         /\ made' = Append(made, f)
    /\ UNCHANGED <<ifvars, ifmem, proc, fails, rx, sent>>

\* The place of filter f in the order of creation.
Position(f) == CHOOSE k \in 1 .. Len(made) : made[k] = f

FilterDestroy(p) ==
    /\ Ready(p)
    /\ \E k \in 1 .. Len(rxpf_list) :
         /\ rxpf_list' = RemoveAt(rxpf_list, k)
         /\ made' = RemoveAt(made, Position(rxpf_list[k]))
         /\ Then(p, [op |-> "kfree", filter |-> rxpf_list[k]])
    /\ UNCHANGED <<ifvars, ifmem, kf, fid, fmem, fails, rx, sent>>

FilterFree(p) ==
    /\ proc[p].op = "kfree"
    /\ fmem' = fmem \ {proc[p].filter}
    /\ kf' = [kf EXCEPT ![proc[p].filter] = Blank]
    /\ fid' = [fid EXCEPT ![proc[p].filter] = 0]
    /\ Done(p)
    /\ UNCHANGED <<ifvars, ifmem, rxpf_list, made, fails, rx, sent>>

-----------------------------------------------------------------------------
(* The Rx path: bkn_do_skb_rx, or bkn_do_api_rx.                           *)

\* Mutant: the packet goes to the interface of the filter, like its clone.
SkbDevKept(i, m) == i

\* With a mirror the clone goes to the interface of the filter, since it was made
\* before skb->dev changed, and the packet itself to the mirror.
SkbDev(i, m) == IF m = Nil THEN i ELSE m

\* The filter matched (cb: what the call-back made of it), and the interfaces found.
\* up: the interface has a carrier; clone: the mirror has one, and memory was found.
RxMatch(pkt, chan) ==
    /\ rx = Idle
    /\ \E taken \in BOOLEAN, up \in BOOLEAN, clone \in BOOLEAN, cb \in CbKfs :
         LET f == FirstMatch(pkt, chan, taken)
             local == f # Nil /\ kf[f].dest_type = "CB"
             c == IF f = Nil THEN Blank ELSE IF local THEN cb ELSE kf[f]
             i == IF c.dest_type = "NETIF" /\ up THEN Lookup(c.dest_id) ELSE Nil
             m == IF i # Nil /\ use_rx_skb /\ c.mirror_type = "NETIF" /\ clone
                    THEN Lookup(c.mirror_id) ELSE Nil
         IN
         rx' = [pc |-> IF i = Nil THEN "drop" ELSE IF m # Nil THEN "clone" ELSE "stack",
                pkt |-> pkt, chan |-> chan, taken |-> taken,
                f |-> f, local |-> local, dest |-> i, mirror |-> m,
                skb |-> SkbDev(i, m)]
    /\ sent' = NoCopies
    /\ UNCHANGED <<ifvars, ifmem, filtervars, fmem, proc, fails>>

\* Without the lock: the network stack takes the clone.
RxClone ==
    /\ rx.pc = "clone"
    /\ sent' = [sent EXCEPT ![rx.dest] = @ + 1]
    /\ rx' = [rx EXCEPT !.pc = "stack"]
    /\ UNCHANGED <<ifvars, ifmem, filtervars, fmem, proc, fails>>

\* Without the lock: the network stack takes the packet.  In SKB mode nothing of
\* filter and interface is used after that; API mode looks at the filter's mirror.
RxStack ==
    /\ rx.pc = "stack"
    /\ sent' = [sent EXCEPT ![rx.skb] = @ + 1]
    /\ rx' = Idle
    /\ UNCHANGED <<ifvars, ifmem, filtervars, fmem, proc, fails>>

\* To the API, to nobody, or an interface that is down or unknown.
RxOther ==
    /\ rx.pc = "drop"
    /\ rx' = Idle
    /\ UNCHANGED <<ifvars, ifmem, filtervars, fmem, proc, fails, sent>>

Next ==
    \/ \E p \in Procs : \/ NetifCreate(p) \/ NetifAnswer(p) \/ NetifDestroy(p)
                        \/ NetifFree(p) \/ FilterCreate(p) \/ FilterDestroy(p)
                        \/ FilterFree(p)
    \/ \E pkt \in Pkts, chan \in 0 .. RxChans - 1 : RxMatch(pkt, chan)
    \/ RxClone \/ RxStack \/ RxOther

Spec == Init /\ [][Next]_vars

-----------------------------------------------------------------------------
(* Properties.                                                             *)

Members(s) == {s[k] : k \in 1 .. Len(s)}

\* The state is of its type; the array has an entry for each index below ndev_max and
\* none beyond, although it grows by one chunk whatever ID made it grow.
TypeOK ==
    /\ ndev_list \in Seq(Ifaces) /\ ifid \in [Ifaces -> Nat]
    /\ ndev_max \in Nat /\ ndevs \in [0 .. ndev_max - 1 -> Ifaces \cup {Nil}]
    /\ rxpf_list \in Seq(Filters) /\ kf \in [Filters -> Contents]
    /\ fid \in [Filters -> Nat] /\ made \in Seq(Filters)
    /\ ifmem \subseteq Ifaces /\ fmem \subseteq Filters /\ fails \in 0 .. MaxFails
    /\ \A p \in Procs : proc[p] \in
         [op : {"ready"}] \cup [op : {"answer", "unregister"}, dev : Ifaces]
         \cup [op : {"kfree"}, filter : Filters]
    /\ sent \in [Ifaces -> Nat]

\* Looking up an ID (bkn_netif_lookup, for the Rx path and NETIF_GET) gives the one
\* interface of the list with that ID, and nothing when there is none: array and list
\* agree although the array may miss interfaces that were created without memory.
LookupRight ==
    \A id \in 0 .. Cardinality(Ifaces) + 1 :
        LET held == {i \in Members(ndev_list) : ifid[i] = id} IN
        \/ held = {} /\ Lookup(id) = Nil
        \/ held = {Lookup(id)}

\* Interfaces that some path will still follow a pointer to, lock or not.
HeldIfaces ==
    Members(ndev_list) \cup Unanswered
    \cup (CASE rx.pc = "clone" -> {rx.dest, rx.skb}
            [] rx.pc = "stack" -> {rx.skb}
            [] OTHER -> {})
    \cup {ndevs[n] : n \in {x \in DOMAIN ndevs : ndevs[x] # Nil}}

\* Mutant: SKB mode looks at the filter's mirror after the window, as API mode does.
HeldFiltersAlways ==
    Members(rxpf_list)
    \cup (IF rx.pc \in {"clone", "stack"} /\ ~rx.local THEN {rx.f} ELSE {})

\* Filters that some path will still follow a pointer to.
HeldFilters ==
    Members(rxpf_list)
    \cup (IF ~use_rx_skb /\ rx.pc = "stack" /\ ~rx.local THEN {rx.f} ELSE {})

\* Nothing is used after it was freed: not by the Rx path while the network stack has
\* the packet and commands destroy its filter and interface, not by the tables; nor is
\* the array written past its end, although it grows by one chunk for any ID.
NoFreedUse ==
    /\ HeldIfaces \subseteq ifmem /\ HeldFilters \subseteq fmem
    /\ DOMAIN ndevs = 0 .. ndev_max - 1

\* f is the filter that should have the packet: of those that match, the first created
\* of the smallest priority.
IsBest(f, pkt, chan, taken) ==
    LET hits == {g \in Members(made) : Matches(g, pkt, chan, taken)} IN
    \/ hits = {} /\ f = Nil
    \/ /\ f \in hits
       /\ \A g \in hits \ {f} :
            \/ kf[f].priority < kf[g].priority
            \/ kf[f].priority = kf[g].priority /\ Position(f) < Position(g)

\* Each packet goes to the right filter, whatever filters were created and destroyed
\* before it, in whatever order.
RightFilter ==
    [][rx = Idle /\ rx' # Idle => IsBest(rx'.f, rx'.pkt, rx'.chan, rx'.taken)]_vars

\* When the Rx path is done with a packet, the interface of its filter and that of the
\* mirror got one copy each (two if they are the same) and nobody else got any.
DeliveredRight ==
    [][rx # Idle /\ rx' = Idle =>
        \A i \in Ifaces : sent'[i] = (IF i = rx.dest THEN 1 ELSE 0)
                                   + (IF i = rx.mirror THEN 1 ELSE 0)]_vars
=============================================================================
