-------------------------- MODULE KnetTablesProofs --------------------------
(***************************************************************************)
(* Proofs about interfaces and Rx filters (KnetTables), in SKB mode, for   *)
(* any number of processes, interfaces, filters and packets: lookups find  *)
(* what they should, nothing is used after it was freed, each packet goes  *)
(* to the filter and to the interfaces it should.                          *)
(***************************************************************************)
EXTENDS KnetTables, SequenceTheorems, FiniteSetTheorems, TLAPS

-----------------------------------------------------------------------------
(* Lists with an element put in or taken out, first positions.             *)

\* Positions of a list of which there are some have a first one.
LEMMA FirstPosition ==
    ASSUME NEW T \in SUBSET Nat, T # {}
    PROVE  Min(T) \in T /\ \A y \in T : Min(T) <= y
<1>1. PICK x \in T : \A y \in T : <<y, x>> \notin OpToRel(<, Nat)
    BY WFMin, NatLessThanWellFounded, Zenon
<1>2. \A y \in T : ~(y < x)
    BY <1>1, Zenon DEF OpToRel
<1>3. \A y \in T : x <= y
    BY <1>2
<1> QED BY <1>3 DEF Min

\* The elements of a list with e inserted at position k.
LEMMA InsertFacts ==
    ASSUME NEW S, NEW s \in Seq(S), NEW k \in 1 .. Len(s) + 1, NEW e \in S
    PROVE  /\ InsertAt(s, k, e) \in Seq(S)
           /\ Len(InsertAt(s, k, e)) = Len(s) + 1
           /\ \A j \in 1 .. Len(s) + 1 :
                 InsertAt(s, k, e)[j] = IF j < k THEN s[j] ELSE IF j = k THEN e ELSE s[j - 1]
<1> DEFINE a == SubSeq(s, 1, k - 1)
           b == SubSeq(s, k, Len(s))
<1>1. a \in Seq(S) /\ Len(a) = k - 1 /\ \A j \in 1 .. k - 1 : a[j] = s[j]
    OBVIOUS
<1>2. b \in Seq(S) /\ Len(b) = Len(s) - k + 1 /\ \A j \in 1 .. Len(b) : b[j] = s[k + j - 1]
    OBVIOUS
<1> HIDE DEF a, b
<1>3. /\ a \o <<e>> \in Seq(S) /\ Len(a \o <<e>>) = k
      /\ \A j \in 1 .. k : (a \o <<e>>)[j] = IF j < k THEN s[j] ELSE e
    BY <1>1, ConcatProperties
<1>4. InsertAt(s, k, e) = (a \o <<e>>) \o b
    BY DEF InsertAt, a, b
<1> QED BY <1>2, <1>3, <1>4, ConcatProperties

\* The elements of a list without the one at position k.
LEMMA RemoveFacts ==
    ASSUME NEW S, NEW s \in Seq(S), NEW k \in 1 .. Len(s)
    PROVE  /\ RemoveAt(s, k) \in Seq(S)
           /\ Len(RemoveAt(s, k)) = Len(s) - 1
           /\ \A j \in 1 .. Len(s) - 1 :
                 RemoveAt(s, k)[j] = IF j < k THEN s[j] ELSE s[j + 1]
<1> DEFINE a == SubSeq(s, 1, k - 1)
           b == SubSeq(s, k + 1, Len(s))
<1>1. a \in Seq(S) /\ Len(a) = k - 1 /\ \A j \in 1 .. k - 1 : a[j] = s[j]
    OBVIOUS
<1>2. b \in Seq(S) /\ Len(b) = Len(s) - k /\ \A j \in 1 .. Len(s) - k : b[j] = s[k + j]
    OBVIOUS
<1> HIDE DEF a, b
<1>3. RemoveAt(s, k) = a \o b
    BY DEF RemoveAt, a, b
<1> QED BY <1>1, <1>2, <1>3, ConcatProperties

-----------------------------------------------------------------------------
(* Assumptions and invariants.                                             *)

\* Failures of kmalloc leave room in the chunk that the array grows by.
FewFailures == MaxFails + 1 < NDEVS_CHUNK

-----------------------------------------------------------------------------
(* Lists and their elements.                                               *)

Distinct(s) == \A j, k \in 1 .. Len(s) : s[j] = s[k] => j = k

\* What is in a list with an element more.
LEMMA InsertMembers ==
    ASSUME NEW S, NEW s \in Seq(S), NEW k \in 1 .. Len(s) + 1, NEW e \in S
    PROVE  /\ Members(InsertAt(s, k, e)) = Members(s) \cup {e}
           /\ Distinct(s) /\ e \notin Members(s) => Distinct(InsertAt(s, k, e))
<1> DEFINE t == InsertAt(s, k, e)
<1>1. /\ Len(t) = Len(s) + 1 /\ Len(s) \in Nat
      /\ \A j \in 1 .. Len(s) + 1 : t[j] = IF j < k THEN s[j] ELSE IF j = k THEN e ELSE s[j - 1]
  BY InsertFacts, LenProperties
<1> HIDE DEF t
<1>2. \A x \in Members(t) : x \in Members(s) \cup {e}
  BY <1>1 DEF Members
<1>3. ASSUME NEW x \in Members(s) PROVE x \in Members(t)
  <2>1. PICK j \in 1 .. Len(s) : x = s[j]
    BY DEF Members
  <2>2. j \in 1 .. Len(t) /\ j + 1 \in 1 .. Len(t)
    BY <1>1
  <2>3. CASE j < k
    BY <1>1, <2>1, <2>2, <2>3 DEF Members
  <2>4. CASE j >= k
    <3>1. t[j + 1] = s[j]
      BY <1>1, <2>2, <2>4
    <3>2. QED
      BY <2>1, <2>2, <3>1 DEF Members
  <2>5. QED
    BY <1>1, <2>3, <2>4
<1>4. e \in Members(t)
  <2>1. k \in 1 .. Len(t) /\ t[k] = e
    BY <1>1
  <2>2. QED
    BY <2>1 DEF Members
<1>5. ASSUME Distinct(s), e \notin Members(s) PROVE Distinct(t)
  <2>1. ASSUME NEW i \in 1 .. Len(s) + 1, NEW j \in 1 .. Len(s) + 1, i < j
        PROVE  t[i] # t[j]
    <3>1. \A x \in 1 .. Len(s) : s[x] # e
      BY <1>5 DEF Members
    <3>2. CASE i = k
      BY <1>1, <2>1, <3>1, <3>2
    <3>3. CASE j = k
      BY <1>1, <2>1, <3>1, <3>3
    <3>4. CASE j < k
      BY <1>1, <1>5, <2>1, <3>4 DEF Distinct
    <3>5. CASE k < i
      <4>1. i - 1 \in 1 .. Len(s) /\ j - 1 \in 1 .. Len(s) /\ i - 1 # j - 1
            /\ t[i] = s[i - 1] /\ t[j] = s[j - 1]
        BY <1>1, <2>1, <3>5
      <4>2. QED
        BY <1>5, <4>1 DEF Distinct
    <3>6. CASE i < k /\ k < j
      <4>1. i \in 1 .. Len(s) /\ j - 1 \in 1 .. Len(s) /\ i # j - 1
            /\ t[i] = s[i] /\ t[j] = s[j - 1]
        BY <1>1, <2>1, <3>6
      <4>2. QED
        BY <1>5, <4>1 DEF Distinct
    <3>7. QED
      BY <1>1, <2>1, <3>2, <3>3, <3>4, <3>5, <3>6
  <2>2. QED
    BY <1>1, <2>1 DEF Distinct
<1>6. QED
  BY <1>2, <1>3, <1>4, <1>5 DEF t

\* What is in a list with an element less.
LEMMA RemoveMembers ==
    ASSUME NEW S, NEW s \in Seq(S), NEW k \in 1 .. Len(s), Distinct(s)
    PROVE  /\ Members(RemoveAt(s, k)) = Members(s) \ {s[k]}
           /\ Distinct(RemoveAt(s, k))
<1> DEFINE t == RemoveAt(s, k)
<1>1. /\ Len(t) = Len(s) - 1 /\ Len(s) \in Nat
      /\ \A j \in 1 .. Len(s) - 1 : t[j] = IF j < k THEN s[j] ELSE s[j + 1]
  BY RemoveFacts, LenProperties
<1> HIDE DEF t
<1>2. \A x \in Members(t) : x \in Members(s) \ {s[k]}
  BY <1>1 DEF Members, Distinct
<1>3. ASSUME NEW x \in Members(s) \ {s[k]} PROVE x \in Members(t)
  <2>1. PICK j \in 1 .. Len(s) : x = s[j]
    BY DEF Members
  <2>2. CASE j < k
    <3>1. j \in 1 .. Len(t) /\ t[j] = s[j]
      BY <1>1, <2>2
    <3>2. QED
      BY <2>1, <3>1 DEF Members
  <2>3. CASE j > k
    <3>1. j - 1 \in 1 .. Len(t) /\ t[j - 1] = s[j]
      BY <1>1, <2>3
    <3>2. QED
      BY <2>1, <3>1 DEF Members
  <2>4. j # k
    BY <2>1
  <2>5. QED
    BY <1>1, <2>2, <2>3, <2>4
<1>4. Distinct(t)
  BY <1>1 DEF Distinct
<1>5. QED
  BY <1>2, <1>3, <1>4 DEF t

\* The first position that a search stops at.
LEMMA FirstOf ==
    ASSUME NEW n \in Nat
    PROVE  \A T \in SUBSET (1 .. n) : T # {} => Min(T) \in T /\ \A y \in T : Min(T) <= y
<1>1. \A T \in SUBSET (1 .. n) : T \in SUBSET Nat
  OBVIOUS
<1>2. QED
  BY <1>1, FirstPosition

\* Elements are in the list's set.
LEMMA MembersType ==
    ASSUME NEW S, NEW s \in Seq(S)
    PROVE  /\ Members(s) \subseteq S /\ Len(s) \in Nat
           /\ \A k \in 1 .. Len(s) : s[k] \in Members(s) /\ s[k] \in S
BY ElementOfSeq, LenProperties DEF Members

-----------------------------------------------------------------------------
(* The state.                                                              *)

Duties == [op : {"ready"}] \cup [op : {"answer", "unregister"}, dev : Ifaces]
          \cup [op : {"kfree"}, filter : Filters]

IfaceTypes ==
    /\ ndev_list \in Seq(Ifaces) /\ ifid \in [Ifaces -> Nat]
    /\ ndev_max \in Nat /\ ndevs \in [0 .. ndev_max - 1 -> Ifaces \cup {Nil}]
    /\ ifmem \subseteq Ifaces /\ fails \in 0 .. MaxFails
FilterTypes ==
    /\ rxpf_list \in Seq(Filters) /\ kf \in [Filters -> Contents]
    /\ fid \in [Filters -> Nat] /\ made \in Seq(Filters) /\ fmem \subseteq Filters

\* IDs rise along the list, none is used twice, and they pass the end of the array by
\* no more than the failures to let it grow; what is in the array is in the list.
IfaceInv ==
    /\ \A j, k \in 1 .. Len(ndev_list) : j < k => ifid[ndev_list[j]] < ifid[ndev_list[k]]
    /\ \A k \in 1 .. Len(ndev_list) :
         ifid[ndev_list[k]] >= 1 /\ ifid[ndev_list[k]] <= ndev_max + fails
    /\ \A n \in 0 .. ndev_max - 1 :
         ndevs[n] # Nil => ndevs[n] \in Members(ndev_list) /\ ifid[ndevs[n]] = n
    /\ Members(ndev_list) \subseteq ifmem

\* The list is in the order of priority, and filters of one priority are in the order
\* of their creation.
FilterInv ==
    /\ Distinct(rxpf_list) /\ Distinct(made) /\ Members(rxpf_list) = Members(made)
    /\ Members(rxpf_list) \subseteq fmem
    /\ \A j, k \in 1 .. Len(rxpf_list) : j < k =>
         /\ kf[rxpf_list[j]].priority <= kf[rxpf_list[k]].priority
         /\ kf[rxpf_list[j]].priority = kf[rxpf_list[k]].priority =>
              \A x, y \in 1 .. Len(made) :
                 made[x] = rxpf_list[j] /\ made[y] = rxpf_list[k] => x < y

\* What a process will free is out of the tables, still allocated, and its own to free.
DutyInv ==
    /\ proc \in [Procs -> Duties]
    /\ \A p \in Procs :
         /\ proc[p].op = "answer" => proc[p].dev \in Members(ndev_list)
         /\ proc[p].op = "unregister" => proc[p].dev \in ifmem \ Members(ndev_list)
         /\ proc[p].op = "kfree" => proc[p].filter \in fmem \ Members(rxpf_list)
    /\ \A p, q \in Procs : p # q =>
         /\ proc[p].op = "unregister" /\ proc[q].op = "unregister" => proc[p].dev # proc[q].dev
         /\ proc[p].op = "kfree" /\ proc[q].op = "kfree" => proc[p].filter # proc[q].filter

\* The interfaces of a packet are allocated while the network stack has it, and have got
\* what they should by now.
RxInv ==
    /\ sent \in [Ifaces -> Nat]
    /\ rx # Idle =>
         /\ rx \in [pc : {"drop", "clone", "stack"}, pkt : Pkts, chan : Nat, taken : BOOLEAN,
                    f : Filters \cup {Nil}, local : BOOLEAN, dest : ifmem \cup {Nil},
                    mirror : ifmem \cup {Nil}, skb : ifmem \cup {Nil}]
         /\ rx.pc = "drop" => sent = NoCopies /\ rx.dest = Nil /\ rx.mirror = Nil
         /\ rx.pc = "clone" => /\ sent = NoCopies /\ rx.dest # Nil
                               /\ rx.mirror # Nil /\ rx.skb = rx.mirror
         /\ rx.pc = "stack" => /\ rx.dest # Nil /\ rx.skb = SkbDev(rx.dest, rx.mirror)
                               /\ rx.mirror = Nil => sent = NoCopies
                               /\ rx.mirror # Nil => sent = [NoCopies EXCEPT ![rx.dest] = 1]

Inv == IfaceTypes /\ FilterTypes /\ IfaceInv /\ FilterInv /\ DutyInv /\ RxInv

\* What the duties of a process say of it.
LEMMA DutyFacts ==
    ASSUME NEW d \in Duties
    PROVE  /\ d.op \in {"ready", "answer", "unregister", "kfree"}
           /\ d.op \in {"answer", "unregister"} => d.dev \in Ifaces
           /\ d.op = "kfree" => d.filter \in Filters
BY DEF Duties

-----------------------------------------------------------------------------
(* Interfaces.                                                             *)

\* A list in the order of IDs has no interface twice.
LEMMA IfacesDistinct ==
    ASSUME IfaceTypes, IfaceInv
    PROVE  /\ Distinct(ndev_list)
           /\ \A j, k \in 1 .. Len(ndev_list) :
                 ifid[ndev_list[j]] = ifid[ndev_list[k]] => j = k
<1>1. \A k \in 1 .. Len(ndev_list) : ifid[ndev_list[k]] \in Nat
  BY MembersType DEF IfaceTypes
<1>2. Len(ndev_list) \in Nat
  BY LenProperties DEF IfaceTypes
<1>3. QED
  BY <1>1, <1>2 DEF IfaceInv, Distinct

\* Looking up an ID finds the interface that has it.
LEMMA LookupFinds ==
    ASSUME IfaceTypes, IfaceInv, NEW id \in Nat
    PROVE  LET held == {i \in Members(ndev_list) : ifid[i] = id} IN
           (held = {} /\ Lookup(id) = Nil) \/ held = {Lookup(id)}
<1> DEFINE held == {i \in Members(ndev_list) : ifid[i] = id}
           at == {k \in 1 .. Len(ndev_list) : ifid[ndev_list[k]] = id}
<1>1. \A x, y \in held : x = y
  BY IfacesDistinct DEF Members
<1>2. CASE id < ndev_max /\ ndevs[id] # Nil
  <2>1. id \in 0 .. ndev_max - 1
    BY <1>2 DEF IfaceTypes
  <2>2. ndevs[id] \in held
    BY <1>2, <2>1 DEF IfaceInv
  <2>3. Lookup(id) = ndevs[id]
    BY <1>2 DEF Lookup
  <2>4. QED
    BY <1>1, <2>2, <2>3
<1>3. CASE ~(id < ndev_max /\ ndevs[id] # Nil) /\ at # {}
  <2>1. Len(ndev_list) \in Nat /\ at \in SUBSET (1 .. Len(ndev_list)) /\ at # {}
    BY <1>3, LenProperties DEF IfaceTypes
  <2>2. Min(at) \in at
    <3> HIDE DEF at
    <3>1. QED
      BY <2>1, FirstOf
  <2>3. Lookup(id) = ndev_list[Min(at)]
    BY <1>3 DEF Lookup
  <2>4. ndev_list[Min(at)] \in held
    BY <2>2 DEF Members
  <2>5. QED
    BY <1>1, <2>3, <2>4
<1>4. CASE ~(id < ndev_max /\ ndevs[id] # Nil) /\ at = {}
  BY <1>4 DEF Lookup, Members
<1>5. QED
  BY <1>2, <1>3, <1>4

\* A new interface goes where the order of IDs has a hole for it.
LEMMA NetifPosFacts ==
    ASSUME IfaceTypes, IfaceInv
    PROVE  /\ NetifPos \in 1 .. Len(ndev_list) + 1
           /\ ExpectedId(NetifPos) \in Nat /\ ExpectedId(NetifPos) >= 1
           /\ ExpectedId(NetifPos) <= ndev_max + fails + 1
           /\ \A j \in 1 .. Len(ndev_list) :
                 IF j < NetifPos THEN ifid[ndev_list[j]] < ExpectedId(NetifPos)
                 ELSE ExpectedId(NetifPos) < ifid[ndev_list[j]]
<1> DEFINE L == Len(ndev_list)
           Holes == {k \in 1 .. L : ExpectedId(k) < ifid[ndev_list[k]]}
           T == Holes \cup {L + 1}
           k == NetifPos
<1>1. L \in Nat /\ \A j \in 1 .. L : ifid[ndev_list[j]] \in Nat
  BY MembersType DEF IfaceTypes
<1>2. k \in T
  <2>1. T \in SUBSET (1 .. L + 1) /\ T # {} /\ L + 1 \in Nat
    BY <1>1
  <2>2. k = Min(T)
    BY DEF NetifPos
  <2> HIDE DEF T, k
  <2>3. QED
    BY <2>1, <2>2, FirstOf
<1>3. k \in 1 .. L + 1 /\ (k \in 1 .. L => ExpectedId(k) < ifid[ndev_list[k]])
  BY <1>1, <1>2
<1> HIDE DEF k, T
<1>4. CASE k = 1
  <2>1. ExpectedId(k) = 1
    BY <1>4 DEF ExpectedId
  <2>2. \A j \in 1 .. L : ifid[ndev_list[j]] > 1
    BY <1>1, <1>3, <1>4, <2>1 DEF IfaceInv
  <2>3. QED
    BY <1>1, <1>3, <1>4, <2>1, <2>2 DEF IfaceTypes, k
<1>5. CASE k # 1
  <2>1. k - 1 \in 1 .. L /\ ExpectedId(k) = ifid[ndev_list[k - 1]] + 1
    BY <1>1, <1>3, <1>5 DEF ExpectedId
  <2>2. ifid[ndev_list[k - 1]] >= 1 /\ ifid[ndev_list[k - 1]] <= ndev_max + fails
    BY <2>1 DEF IfaceInv
  <2>3. \A j \in 1 .. L : j < k => ifid[ndev_list[j]] < ExpectedId(k)
    BY <1>1, <1>3, <2>1 DEF IfaceInv
  <2>4. \A j \in 1 .. L : ~(j < k) => ExpectedId(k) < ifid[ndev_list[j]]
    BY <1>1, <1>3, <2>1 DEF IfaceInv
  <2>5. /\ ExpectedId(k) \in Nat /\ ExpectedId(k) >= 1
        /\ ExpectedId(k) <= ndev_max + fails + 1
    BY <1>1, <2>1, <2>2 DEF IfaceTypes
  <2>6. \A j \in 1 .. L : IF j < k THEN ifid[ndev_list[j]] < ExpectedId(k)
                          ELSE ExpectedId(k) < ifid[ndev_list[j]]
    BY <2>3, <2>4, Zenon
  <2>7. QED
    BY <1>3, <2>5, <2>6, Zenon DEF k
<1>6. QED
  BY <1>4, <1>5

\* The array keeps its length, or grows by a chunk.
LEMMA SetEntryFacts ==
    ASSUME IfaceTypes, IfaceInv, FewFailures, NEW i \in Ifaces, NEW id \in Nat,
           id <= ndev_max + fails + 1, SetEntry(i, id)
    PROVE  /\ ndev_max' \in Nat /\ ndevs' \in [0 .. ndev_max' - 1 -> Ifaces \cup {Nil}]
           /\ fails' \in 0 .. MaxFails
           /\ id <= ndev_max' + fails' /\ ndev_max + fails <= ndev_max' + fails'
           /\ \A n \in 0 .. ndev_max' - 1 :
                 \/ ndevs'[n] = Nil
                 \/ n = id /\ ndevs'[n] = i
                 \/ n \in 0 .. ndev_max - 1 /\ ndevs'[n] = ndevs[n]
<1>1. /\ NDEVS_CHUNK \in Nat /\ MaxFails \in Nat /\ MaxFails + 1 < NDEVS_CHUNK
      /\ fails \in 0 .. MaxFails /\ ndev_max \in Nat
  BY TablesAssumption DEF FewFailures, IfaceTypes
<1>2. CASE id < ndev_max /\ ndevs' = [ndevs EXCEPT ![id] = i] /\ UNCHANGED <<ndev_max, fails>>
  BY <1>1, <1>2 DEF IfaceTypes
<1>3. CASE id >= ndev_max /\ ndev_max' = ndev_max + NDEVS_CHUNK /\ UNCHANGED fails
           /\ ndevs' = IF id < ndev_max + NDEVS_CHUNK THEN Grown(i, id)
                       ELSE Grown(Nil, id) @@ (id :> i)
  <2>1. id < ndev_max + NDEVS_CHUNK
    BY <1>1
  <2>2. ndevs' = [n \in 0 .. ndev_max + NDEVS_CHUNK - 1 |->
                    IF n = id THEN i ELSE IF n < ndev_max THEN ndevs[n] ELSE Nil]
    BY <1>3, <2>1 DEF Grown
  <2>3. \A n \in 0 .. ndev_max + NDEVS_CHUNK - 1 : n < ndev_max => n \in 0 .. ndev_max - 1
    BY <1>1
  <2>4. ndevs' \in [0 .. ndev_max' - 1 -> Ifaces \cup {Nil}]
    <3> DEFINE e(n) == IF n = id THEN i ELSE IF n < ndev_max THEN ndevs[n] ELSE Nil
               m == ndev_max + NDEVS_CHUNK - 1
    <3>1. \A n \in 0 .. m : e(n) \in Ifaces \cup {Nil}
      BY <2>3 DEF IfaceTypes
    <3>2. ndev_max' - 1 = m
      BY <1>1, <1>3
    <3>3. ndevs' = [n \in 0 .. m |-> e(n)]
      BY <2>2
    <3> HIDE DEF e, m
    <3>4. QED
      BY <3>1, <3>2, <3>3
  <2>5. \A n \in 0 .. ndev_max' - 1 :
          \/ ndevs'[n] = Nil
          \/ n = id /\ ndevs'[n] = i
          \/ n \in 0 .. ndev_max - 1 /\ ndevs'[n] = ndevs[n]
    <3> SUFFICES ASSUME NEW n \in 0 .. ndev_max' - 1
                 PROVE  \/ ndevs'[n] = Nil
                        \/ n = id /\ ndevs'[n] = i
                        \/ n \in 0 .. ndev_max - 1 /\ ndevs'[n] = ndevs[n]
      OBVIOUS
    <3>1. n \in 0 .. ndev_max + NDEVS_CHUNK - 1
      <4>1. ndev_max' - 1 = ndev_max + NDEVS_CHUNK - 1
        BY <1>1, <1>3
      <4>2. QED
        BY <4>1, Zenon
    <3>2. ndevs'[n] = IF n = id THEN i ELSE IF n < ndev_max THEN ndevs[n] ELSE Nil
      BY <2>2, <3>1
    <3>3. QED
      BY <2>3, <3>1, <3>2, Zenon
  <2>6. /\ ndev_max' \in Nat /\ fails' \in 0 .. MaxFails
        /\ id <= ndev_max' + fails' /\ ndev_max + fails <= ndev_max' + fails'
    BY <1>1, <1>3
  <2>7. QED
    BY <2>4, <2>5, <2>6, Zenon
<1>4. CASE id >= ndev_max /\ fails < MaxFails /\ fails' = fails + 1 /\ UNCHANGED <<ndevs, ndev_max>>
  BY <1>1, <1>4 DEF IfaceTypes
<1>5. QED
  BY <1>2, <1>3, <1>4 DEF SetEntry

\* A bound on an ID stays one when array and failures together grow.
LEMMA StillAtMost ==
    ASSUME NEW id \in Nat, NEW m \in Nat, NEW f \in Nat, NEW mm \in Nat, NEW ff \in Nat,
           id <= m + f, m + f <= mm + ff
    PROVE  id <= mm + ff
OBVIOUS

\* NETIF_CREATE keeps the order of IDs, array and memory.
LEMMA CreateIface ==
    ASSUME Inv, FewFailures, NEW p \in Procs, NetifCreate(p)
    PROVE  /\ IfaceTypes' /\ IfaceInv' /\ ifmem \subseteq ifmem'
           /\ \E i \in Ifaces \ ifmem : /\ Members(ndev_list') = Members(ndev_list) \cup {i}
                                        /\ proc' = [proc EXCEPT ![p] = [op |-> "answer", dev |-> i]]
<1> DEFINE L == Len(ndev_list)
           k == NetifPos
           id == ExpectedId(NetifPos)
<1>1. PICK i \in Ifaces \ ifmem :
         /\ ifmem' = ifmem \cup {i} /\ ifid' = [ifid EXCEPT ![i] = id]
         /\ ndev_list' = InsertAt(ndev_list, k, i) /\ SetEntry(i, id)
         /\ proc' = [proc EXCEPT ![p] = [op |-> "answer", dev |-> i]]
  BY DEF NetifCreate, Then
<1>2. /\ k \in 1 .. L + 1 /\ id \in Nat /\ id >= 1 /\ id <= ndev_max + fails + 1
      /\ \A j \in 1 .. L : IF j < k THEN ifid[ndev_list[j]] < id ELSE id < ifid[ndev_list[j]]
  BY NetifPosFacts DEF Inv
<1> HIDE DEF k, id
<1>3. /\ ndev_list' \in Seq(Ifaces) /\ Len(ndev_list') = L + 1 /\ L \in Nat
      /\ \A j \in 1 .. L + 1 : ndev_list'[j] =
            IF j < k THEN ndev_list[j] ELSE IF j = k THEN i ELSE ndev_list[j - 1]
      /\ Members(ndev_list') = Members(ndev_list) \cup {i}
  <2>1. ndev_list \in Seq(Ifaces) /\ i \in Ifaces /\ L \in Nat /\ k \in 1 .. Len(ndev_list) + 1
    BY <1>2, LenProperties DEF Inv, IfaceTypes
  <2>2. Members(InsertAt(ndev_list, k, i)) = Members(ndev_list) \cup {i}
    BY <2>1, InsertMembers
  <2>3. /\ InsertAt(ndev_list, k, i) \in Seq(Ifaces) /\ Len(InsertAt(ndev_list, k, i)) = L + 1
        /\ \A j \in 1 .. L + 1 : InsertAt(ndev_list, k, i)[j] =
              IF j < k THEN ndev_list[j] ELSE IF j = k THEN i ELSE ndev_list[j - 1]
    BY <2>1, InsertFacts
  <2>4. QED
    BY <1>1, <2>1, <2>2, <2>3
<1>4. /\ ndev_max' \in Nat /\ ndevs' \in [0 .. ndev_max' - 1 -> Ifaces \cup {Nil}]
      /\ fails' \in 0 .. MaxFails
      /\ id <= ndev_max' + fails' /\ ndev_max + fails <= ndev_max' + fails'
      /\ \A n \in 0 .. ndev_max' - 1 :
            \/ ndevs'[n] = Nil
            \/ n = id /\ ndevs'[n] = i
            \/ n \in 0 .. ndev_max - 1 /\ ndevs'[n] = ndevs[n]
  BY <1>1, <1>2, SetEntryFacts DEF Inv
<1>5. /\ ifid' \in [Ifaces -> Nat] /\ ifid'[i] = id
      /\ \A x \in Members(ndev_list) : x # i /\ ifid'[x] = ifid[x] /\ ifid[x] \in Nat
  BY <1>1, <1>2, MembersType DEF Inv, IfaceTypes, IfaceInv
<1>6. IfaceTypes'
  BY <1>1, <1>3, <1>4, <1>5 DEF Inv, IfaceTypes
<1>7. \A j \in 1 .. L : /\ ifid'[ndev_list[j]] = ifid[ndev_list[j]] /\ ifid[ndev_list[j]] \in Nat
  BY <1>5, MembersType DEF Inv, IfaceTypes
<1>8. \A j, h \in 1 .. L + 1 : j < h => ifid'[ndev_list'[j]] < ifid'[ndev_list'[h]]
  <2> SUFFICES ASSUME NEW j \in 1 .. L + 1, NEW h \in 1 .. L + 1, j < h
               PROVE  ifid'[ndev_list'[j]] < ifid'[ndev_list'[h]]
    OBVIOUS
  <2>1. CASE h < k
    <3>1. j \in 1 .. L /\ h \in 1 .. L /\ ndev_list'[j] = ndev_list[j] /\ ndev_list'[h] = ndev_list[h]
      BY <1>2, <1>3, <2>1
    <3>2. QED
      BY <1>7, <3>1 DEF Inv, IfaceInv
  <2>2. CASE h = k
    <3>1. j \in 1 .. L /\ ndev_list'[j] = ndev_list[j] /\ ndev_list'[h] = i /\ j < k
      BY <1>2, <1>3, <2>2
    <3>2. QED
      BY <1>2, <1>5, <1>7, <3>1
  <2>3. CASE h > k
    <3>1. h - 1 \in 1 .. L /\ ndev_list'[h] = ndev_list[h - 1] /\ ~(h - 1 < k)
      BY <1>2, <1>3, <2>3
    <3>2. CASE j < k
      <4>1. j \in 1 .. L /\ ndev_list'[j] = ndev_list[j] /\ j < h - 1
        BY <1>2, <1>3, <2>3, <3>2
      <4>2. QED
        BY <1>7, <3>1, <4>1 DEF Inv, IfaceInv
    <3>3. CASE j = k
      <4>1. ndev_list'[j] = i /\ id < ifid[ndev_list[h - 1]]
        BY <1>2, <1>3, <3>1, <3>3
      <4>2. QED
        BY <1>5, <1>7, <3>1, <4>1
    <3>4. CASE j > k
      <4>1. j - 1 \in 1 .. L /\ ~(j < k) /\ j # k /\ j - 1 < h - 1 /\ h - 1 \in 1 .. L
        BY <1>2, <1>3, <3>1, <3>4
      <4>2. ndev_list'[j] = ndev_list[j - 1]
        BY <1>3, <4>1
      <4>3. QED
        BY <1>7, <3>1, <4>1, <4>2 DEF Inv, IfaceInv
    <3>5. QED
      BY <1>2, <3>2, <3>3, <3>4
  <2>4. QED
    BY <1>2, <2>1, <2>2, <2>3
<1>9. \A j \in 1 .. L + 1 : /\ ifid'[ndev_list'[j]] >= 1
                           /\ ifid'[ndev_list'[j]] <= ndev_max' + fails'
  <2>1. \A j \in 1 .. L : ifid[ndev_list[j]] >= 1 /\ ifid[ndev_list[j]] <= ndev_max + fails
    BY DEF Inv, IfaceInv
  <2>2. ndev_max \in Nat /\ fails \in Nat /\ fails' \in Nat
    BY <1>4, TablesAssumption DEF Inv, IfaceTypes
  <2>3. \A j \in 1 .. L + 1 : \/ ndev_list'[j] = i
                             \/ \E h \in 1 .. L : ndev_list'[j] = ndev_list[h]
    BY <1>2, <1>3
  <2>4. ASSUME NEW j \in 1 .. L + 1
        PROVE  /\ ifid'[ndev_list'[j]] >= 1
               /\ ifid'[ndev_list'[j]] <= ndev_max' + fails'
    <3>1. CASE ndev_list'[j] = i
      BY <1>2, <1>4, <1>5, <2>2, <3>1
    <3>2. ASSUME NEW h \in 1 .. L, ndev_list'[j] = ndev_list[h]
          PROVE  /\ ifid'[ndev_list'[j]] >= 1
                 /\ ifid'[ndev_list'[j]] <= ndev_max' + fails'
      <4>1. /\ ifid'[ndev_list'[j]] = ifid[ndev_list[h]] /\ ifid[ndev_list[h]] \in Nat
            /\ ifid[ndev_list[h]] >= 1 /\ ifid[ndev_list[h]] <= ndev_max + fails
        BY <1>7, <2>1, <3>2
      <4>2. ndev_max + fails <= ndev_max' + fails' /\ ndev_max' \in Nat
        BY <1>4
      <4>3. ifid[ndev_list[h]] <= ndev_max' + fails'
        BY <2>2, <4>1, <4>2, StillAtMost
      <4>4. QED
        BY <4>1, <4>3, Zenon
    <3>3. QED
      BY <2>3, <3>1, <3>2
  <2>5. QED
    BY <2>4
<1>10. \A n \in 0 .. ndev_max' - 1 :
         ndevs'[n] # Nil => ndevs'[n] \in Members(ndev_list') /\ ifid'[ndevs'[n]] = n
  <2> SUFFICES ASSUME NEW n \in 0 .. ndev_max' - 1, ndevs'[n] # Nil
               PROVE  ndevs'[n] \in Members(ndev_list') /\ ifid'[ndevs'[n]] = n
    OBVIOUS
  <2>1. CASE n = id /\ ndevs'[n] = i
    BY <1>3, <1>5, <2>1
  <2>2. CASE n \in 0 .. ndev_max - 1 /\ ndevs'[n] = ndevs[n]
    <3>1. ndevs[n] \in Members(ndev_list) /\ ifid[ndevs[n]] = n
      BY <2>2 DEF Inv, IfaceInv
    <3>2. QED
      BY <1>3, <1>5, <2>2, <3>1
  <2>3. QED
    BY <1>4, <2>1, <2>2
<1>11. Members(ndev_list') \subseteq ifmem'
  BY <1>1, <1>3 DEF Inv, IfaceInv
<1>12. IfaceInv'
  BY <1>3, <1>8, <1>9, <1>10, <1>11 DEF IfaceInv, Members
<1>13. QED
  BY <1>1, <1>3, <1>6, <1>12

\* NETIF_DESTROY keeps them.
LEMMA DestroyIface ==
    ASSUME Inv, NEW p \in Procs, NetifDestroy(p)
    PROVE  /\ IfaceTypes' /\ IfaceInv'
           /\ \E i \in Members(ndev_list) :
                 /\ Members(ndev_list') = Members(ndev_list) \ {i}
                 /\ KnownIdsOnly => i \notin Unanswered
                 /\ proc' = [proc EXCEPT ![p] = [op |-> "unregister", dev |-> i]]
<1> DEFINE L == Len(ndev_list)
<1>1. PICK k \in 1 .. L :
         /\ KnownIdsOnly => ndev_list[k] \notin Unanswered
         /\ ndev_list' = RemoveAt(ndev_list, k)
         /\ ndevs' = IF ifid[ndev_list[k]] < ndev_max
                     THEN [ndevs EXCEPT ![ifid[ndev_list[k]]] = Nil] ELSE ndevs
         /\ proc' = [proc EXCEPT ![p] = [op |-> "unregister", dev |-> ndev_list[k]]]
  BY DEF NetifDestroy, Then
<1>2. UNCHANGED <<ifid, ndev_max, ifmem, fails>>
  BY DEF NetifDestroy
<1> DEFINE i == ndev_list[k]
<1>3. Distinct(ndev_list) /\ i \in Members(ndev_list) /\ L \in Nat
      /\ \A j \in 1 .. L : ndev_list[j] \in Ifaces /\ ifid[ndev_list[j]] \in Nat
  BY IfacesDistinct, MembersType DEF Inv, IfaceTypes
<1>4. /\ ndev_list' \in Seq(Ifaces) /\ Len(ndev_list') = L - 1
      /\ \A j \in 1 .. L - 1 : ndev_list'[j] = IF j < k THEN ndev_list[j] ELSE ndev_list[j + 1]
      /\ Members(ndev_list') = Members(ndev_list) \ {i}
  BY <1>1, <1>3, RemoveFacts, RemoveMembers DEF Inv, IfaceTypes
<1>5. /\ ndevs' \in [0 .. ndev_max - 1 -> Ifaces \cup {Nil}]
      /\ \A n \in 0 .. ndev_max - 1 : ndevs'[n] # Nil => ndevs'[n] = ndevs[n] /\ ifid[i] # n
  <2>1. CASE ifid[i] < ndev_max
    BY <1>1, <2>1 DEF Inv, IfaceTypes
  <2>2. CASE ~(ifid[i] < ndev_max)
    BY <1>1, <1>3, <2>2 DEF Inv, IfaceTypes
  <2>3. QED
    BY <2>1, <2>2
<1>6. IfaceTypes'
  BY <1>2, <1>4, <1>5 DEF Inv, IfaceTypes
<1>7. \A j, h \in 1 .. L - 1 : j < h => ifid[ndev_list'[j]] < ifid[ndev_list'[h]]
  <2> SUFFICES ASSUME NEW j \in 1 .. L - 1, NEW h \in 1 .. L - 1, j < h
               PROVE  ifid[ndev_list'[j]] < ifid[ndev_list'[h]]
    OBVIOUS
  <2>1. \E x, y \in 1 .. L : x < y /\ ndev_list'[j] = ndev_list[x] /\ ndev_list'[h] = ndev_list[y]
    <3>1. CASE h < k
      <4>1. j \in 1 .. L /\ h \in 1 .. L /\ j < k
        BY <1>3, <3>1
      <4>2. QED
        BY <1>4, <3>1, <4>1
    <3>2. CASE ~(h < k) /\ j < k
      <4>1. j \in 1 .. L /\ h + 1 \in 1 .. L /\ j < h + 1
        BY <1>3
      <4>2. QED
        BY <1>4, <3>2, <4>1
    <3>3. CASE ~(h < k) /\ ~(j < k)
      <4>1. j + 1 \in 1 .. L /\ h + 1 \in 1 .. L /\ j + 1 < h + 1
        BY <1>3
      <4>2. QED
        BY <1>4, <3>3, <4>1
    <3>4. QED
      BY <3>1, <3>2, <3>3
  <2>2. QED
    BY <2>1 DEF Inv, IfaceInv
<1>8. \A j \in 1 .. L - 1 : \E x \in 1 .. L : ndev_list'[j] = ndev_list[x]
  BY <1>3, <1>4
<1>9. \A n \in 0 .. ndev_max - 1 :
        ndevs'[n] # Nil => ndevs'[n] \in Members(ndev_list') /\ ifid[ndevs'[n]] = n
  BY <1>4, <1>5 DEF Inv, IfaceInv
<1>10. IfaceInv'
  <2>1. \A j \in 1 .. L - 1 : /\ ifid[ndev_list'[j]] >= 1
                             /\ ifid[ndev_list'[j]] <= ndev_max + fails
    BY <1>8 DEF Inv, IfaceInv
  <2>2. Members(ndev_list') \subseteq ifmem
    BY <1>4 DEF Inv, IfaceInv
  <2>3. QED
    BY <1>2, <1>4, <1>7, <1>9, <2>1, <2>2 DEF IfaceInv, Members
<1>11. QED
  BY <1>1, <1>3, <1>4, <1>6, <1>10

\* The memory of an interface that is in no table may go.
LEMMA FreeIface ==
    ASSUME Inv, NEW p \in Procs, NetifFree(p)
    PROVE  IfaceTypes' /\ IfaceInv' /\ ifmem' = ifmem \ {proc[p].dev}
<1> DEFINE d == proc[p].dev
<1>1. /\ ifmem' = ifmem \ {d} /\ ifid' = [ifid EXCEPT ![d] = 0]
      /\ UNCHANGED <<ndev_list, ndevs, ndev_max, fails>> /\ proc[p].op = "unregister"
  BY DEF NetifFree
<1>2. d \notin Members(ndev_list)
  BY <1>1 DEF Inv, DutyInv
<1>3. IfaceTypes'
  BY <1>1 DEF Inv, IfaceTypes
<1>4. \A i \in Members(ndev_list) : ifid'[i] = ifid[i]
  <2>1. \A i \in Members(ndev_list) : i \in Ifaces /\ i # d
    BY <1>2, MembersType DEF Inv, IfaceTypes
  <2>2. QED
    BY <1>1, <2>1 DEF Inv, IfaceTypes
<1>5. \A k \in 1 .. Len(ndev_list) : ifid'[ndev_list[k]] = ifid[ndev_list[k]]
  BY <1>4 DEF Members
<1>6. IfaceInv'
  <2>1. Members(ndev_list) \subseteq ifmem'
    BY <1>1, <1>2 DEF Inv, IfaceInv
  <2>2. \A n \in 0 .. ndev_max - 1 :
          ndevs[n] # Nil => ndevs[n] \in Members(ndev_list) /\ ifid'[ndevs[n]] = n
    BY <1>4 DEF Inv, IfaceInv
  <2>3. QED
    BY <1>1, <1>5, <2>1, <2>2 DEF Inv, IfaceInv
<1>7. QED
  BY <1>1, <1>3, <1>6

-----------------------------------------------------------------------------
(* Filters.                                                                *)

Prio(k) == kf[rxpf_list[k]].priority

LEMMA PrioType ==
    ASSUME FilterTypes
    PROVE  /\ \A f \in Filters : kf[f].priority \in Nat
           /\ \A k \in 1 .. Len(rxpf_list) : Prio(k) \in Nat
           /\ Len(rxpf_list) \in Nat /\ Len(made) \in Nat
<1>1. \A f \in Filters : kf[f].priority \in Nat
  BY DEF FilterTypes, Contents
<1>2. QED
  BY <1>1, MembersType DEF FilterTypes, Prio

\* A new filter goes behind those of its priority.
LEMMA FilterPosFacts ==
    ASSUME FilterTypes, FilterInv, NEW p \in Nat
    PROVE  /\ FilterPos(p) \in 1 .. Len(rxpf_list) + 1
           /\ \A j \in 1 .. Len(rxpf_list) :
                 IF j < FilterPos(p) THEN Prio(j) <= p ELSE p < Prio(j)
<1> DEFINE L == Len(rxpf_list)
           T == {k \in 1 .. L : p < Prio(k)} \cup {L + 1}
           k == FilterPos(p)
<1>1. L \in Nat /\ \A j \in 1 .. L : Prio(j) \in Nat
  BY PrioType
<1>2. k \in T /\ \A y \in T : k <= y
  <2>1. T \in SUBSET (1 .. L + 1) /\ T # {} /\ L + 1 \in Nat
    BY <1>1
  <2>2. k = Min(T)
    BY DEF FilterPos, Prio
  <2> HIDE DEF T, k
  <2>3. QED
    BY <2>1, <2>2, FirstOf
<1>3. k \in 1 .. L + 1 /\ (k \in 1 .. L => p < Prio(k))
  BY <1>1, <1>2
<1>4. \A j \in 1 .. L : j < k => Prio(j) <= p
  <2> SUFFICES ASSUME NEW j \in 1 .. L, j < k, p < Prio(j) PROVE FALSE
    BY <1>1
  <2>1. j \in T
    OBVIOUS
  <2> HIDE DEF T, k
  <2>2. QED
    BY <1>1, <1>2, <1>3, <2>1
<1>5. \A j \in 1 .. L : ~(j < k) => p < Prio(j)
  <2> SUFFICES ASSUME NEW j \in 1 .. L, ~(j < k) PROVE p < Prio(j)
    OBVIOUS
  <2> HIDE DEF k
  <2>1. k \in 1 .. L /\ (k = j \/ k < j)
    BY <1>1, <1>3
  <2>2. k < j => Prio(k) <= Prio(j)
    BY <2>1 DEF FilterInv, Prio
  <2>3. QED
    BY <1>1, <1>3, <2>1, <2>2
<1>6. QED
  BY <1>3, <1>4, <1>5

\* FILTER_CREATE keeps the order of filters.
LEMMA CreateFilter ==
    ASSUME Inv, NEW p \in Procs, FilterCreate(p)
    PROVE  /\ FilterTypes' /\ FilterInv' /\ fmem \subseteq fmem'
           /\ \E f \in Filters \ fmem : Members(rxpf_list') = Members(rxpf_list) \cup {f}
<1> DEFINE L == Len(rxpf_list)
           M == Len(made)
<1>1. PICK f \in Filters \ fmem, c \in Kfs :
         /\ fmem' = fmem \cup {f} /\ kf' = [kf EXCEPT ![f] = c]
         /\ fid' = [fid EXCEPT ![f] = Min(FreeIds)]
         /\ rxpf_list' = InsertAt(rxpf_list, FilterPos(c.priority), f)
         /\ made' = Append(made, f)
  BY DEF FilterCreate
<1> DEFINE k == FilterPos(c.priority)
<1>2. c \in Contents /\ c.priority \in Nat
  BY TablesAssumption DEF Contents
<1>3. /\ k \in 1 .. L + 1 /\ L \in Nat /\ M \in Nat
      /\ \A j \in 1 .. L : /\ Prio(j) \in Nat
                          /\ IF j < k THEN Prio(j) <= c.priority ELSE c.priority < Prio(j)
  BY <1>2, FilterPosFacts, PrioType DEF Inv
<1>4. Min(FreeIds) \in Nat
  <2>1. /\ KCOM_FILTER_MAX - 1 \in Nat /\ FreeIds \in SUBSET (1 .. KCOM_FILTER_MAX - 1)
        /\ FreeIds # {}
    BY TablesAssumption DEF FreeIds, FilterCreate
  <2>2. Min(FreeIds) \in FreeIds
    BY <2>1, FirstOf
  <2>3. Min(FreeIds) \in 1 .. KCOM_FILTER_MAX - 1
    BY <2>1, <2>2, Zenon
  <2>4. QED
    BY <2>3
<1> HIDE DEF k
<1>5. f \notin Members(rxpf_list) /\ f \notin Members(made)
  BY DEF Inv, FilterInv
<1>6. rxpf_list \in Seq(Filters) /\ f \in Filters /\ k \in 1 .. Len(rxpf_list) + 1
  BY <1>3 DEF Inv, FilterTypes
<1>7. /\ rxpf_list' \in Seq(Filters) /\ Len(rxpf_list') = L + 1
      /\ \A j \in 1 .. L + 1 : rxpf_list'[j] =
            IF j < k THEN rxpf_list[j] ELSE IF j = k THEN f ELSE rxpf_list[j - 1]
  <2>1. /\ InsertAt(rxpf_list, k, f) \in Seq(Filters) /\ Len(InsertAt(rxpf_list, k, f)) = L + 1
        /\ \A j \in 1 .. L + 1 : InsertAt(rxpf_list, k, f)[j] =
              IF j < k THEN rxpf_list[j] ELSE IF j = k THEN f ELSE rxpf_list[j - 1]
    BY <1>6, InsertFacts
  <2>2. QED
    BY <1>1, <2>1 DEF k
<1>8. Members(rxpf_list') = Members(rxpf_list) \cup {f} /\ Distinct(rxpf_list')
  <2>1. /\ Members(InsertAt(rxpf_list, k, f)) = Members(rxpf_list) \cup {f}
        /\ Distinct(InsertAt(rxpf_list, k, f))
    BY <1>5, <1>6, InsertMembers DEF Inv, FilterInv
  <2>2. QED
    BY <1>1, <2>1 DEF k
<1>9. /\ made' \in Seq(Filters) /\ Len(made') = M + 1 /\ made'[M + 1] = f
      /\ \A x \in 1 .. M : made'[x] = made[x] /\ made[x] # f
  BY <1>1, <1>3, <1>5, AppendProperties DEF Inv, FilterTypes, Members
<1>10. Members(made') = Members(made) \cup {f} /\ Distinct(made')
  <2>1. \A x \in 1 .. M + 1 : x \in 1 .. M \/ x = M + 1
    BY <1>3
  <2>2. Distinct(made)
    BY DEF Inv, FilterInv
  <2>3. Distinct(made')
    BY <1>9, <2>1, <2>2 DEF Distinct
  <2>4. M + 1 \in 1 .. M + 1 /\ \A x \in 1 .. M : x \in 1 .. M + 1
    BY <1>3
  <2>5. Members(made') = Members(made) \cup {f}
    BY <1>9, <2>1, <2>4 DEF Members
  <2>6. QED
    BY <2>3, <2>5
<1>11. /\ kf' \in [Filters -> Contents] /\ kf'[f].priority = c.priority
       /\ \A g \in Members(rxpf_list) : kf'[g] = kf[g]
  BY <1>1, <1>2, <1>5 DEF Inv, FilterTypes
<1>12. FilterTypes'
  BY <1>1, <1>4, <1>7, <1>9, <1>11 DEF Inv, FilterTypes
<1> DEFINE Ordered(a, b) ==
             /\ kf'[a].priority <= kf'[b].priority
             /\ kf'[a].priority = kf'[b].priority =>
                  \A x, y \in 1 .. M + 1 : made'[x] = a /\ made'[y] = b => x < y
<1>13. \A j, h \in 1 .. L : j < h => Ordered(rxpf_list[j], rxpf_list[h])
  <2> SUFFICES ASSUME NEW j \in 1 .. L, NEW h \in 1 .. L, j < h
               PROVE  Ordered(rxpf_list[j], rxpf_list[h])
    OBVIOUS
  <2>1. /\ rxpf_list[j] \in Members(rxpf_list) /\ rxpf_list[h] \in Members(rxpf_list)
    BY DEF Members
  <2>2. /\ kf'[rxpf_list[j]] = kf[rxpf_list[j]] /\ kf'[rxpf_list[h]] = kf[rxpf_list[h]]
        /\ rxpf_list[j] # f /\ rxpf_list[h] # f
    BY <1>5, <1>11, <2>1
  <2>3. \A x \in 1 .. M + 1 : made'[x] # f => x \in 1 .. M /\ made'[x] = made[x]
    BY <1>3, <1>9
  <2>4. QED
    BY <2>2, <2>3, SMTT(20) DEF Inv, FilterInv
<1>14. \A j \in 1 .. L : j < k => Ordered(rxpf_list[j], f)
  <2> SUFFICES ASSUME NEW j \in 1 .. L, j < k PROVE Ordered(rxpf_list[j], f)
    OBVIOUS
  <2>1. rxpf_list[j] \in Members(rxpf_list)
    BY DEF Members
  <2>2. kf'[rxpf_list[j]] = kf[rxpf_list[j]] /\ rxpf_list[j] # f /\ Prio(j) <= c.priority
    BY <1>3, <1>5, <1>11, <2>1
  <2>3. \A x \in 1 .. M + 1 : IF x = M + 1 THEN made'[x] = f ELSE x \in 1 .. M /\ made'[x] # f
    BY <1>3, <1>9
  <2>4. \A x, y \in 1 .. M + 1 : made'[x] = rxpf_list[j] /\ made'[y] = f => x < y
    BY <1>3, <2>2, <2>3
  <2>5. QED
    BY <1>11, <2>2, <2>4 DEF Prio
<1>15. \A h \in 1 .. L : ~(h < k) => Ordered(f, rxpf_list[h])
  <2> SUFFICES ASSUME NEW h \in 1 .. L, ~(h < k) PROVE Ordered(f, rxpf_list[h])
    OBVIOUS
  <2>1. rxpf_list[h] \in Members(rxpf_list)
    BY DEF Members
  <2>2. kf'[rxpf_list[h]].priority = Prio(h) /\ c.priority < Prio(h) /\ Prio(h) \in Nat
    BY <1>3, <1>11, <2>1 DEF Prio
  <2>3. QED
    BY <1>2, <1>11, <2>2
<1> HIDE DEF Ordered
<1>16. \A j, h \in 1 .. L + 1 : j < h => Ordered(rxpf_list'[j], rxpf_list'[h])
  <2> SUFFICES ASSUME NEW j \in 1 .. L + 1, NEW h \in 1 .. L + 1, j < h
               PROVE  Ordered(rxpf_list'[j], rxpf_list'[h])
    OBVIOUS
  <2>1. CASE h < k
    <3>1. j \in 1 .. L /\ h \in 1 .. L /\ rxpf_list'[j] = rxpf_list[j] /\ rxpf_list'[h] = rxpf_list[h]
      BY <1>3, <1>7, <2>1
    <3>2. QED
      BY <1>13, <3>1
  <2>2. CASE h = k
    <3>1. j \in 1 .. L /\ rxpf_list'[j] = rxpf_list[j] /\ rxpf_list'[h] = f /\ j < k
      BY <1>3, <1>7, <2>2
    <3>2. QED
      BY <1>14, <3>1
  <2>3. CASE h > k
    <3>1. h - 1 \in 1 .. L /\ rxpf_list'[h] = rxpf_list[h - 1] /\ ~(h - 1 < k)
      BY <1>3, <1>7, <2>3
    <3>2. CASE j < k
      <4>1. j \in 1 .. L /\ rxpf_list'[j] = rxpf_list[j] /\ j < h - 1
        BY <1>3, <1>7, <2>3, <3>2
      <4>2. QED
        BY <1>13, <3>1, <4>1
    <3>3. CASE j = k
      <4>1. rxpf_list'[j] = f
        BY <1>3, <1>7, <3>3
      <4>2. QED
        BY <1>15, <3>1, <4>1
    <3>4. CASE j > k
      <4>1. j - 1 \in 1 .. L /\ ~(j < k) /\ j # k /\ j - 1 < h - 1
        BY <1>3, <3>4
      <4>2. rxpf_list'[j] = rxpf_list[j - 1]
        BY <1>7, <4>1
      <4>3. QED
        BY <1>13, <3>1, <4>1, <4>2
    <3>5. QED
      BY <1>3, <3>2, <3>3, <3>4
  <2>4. QED
    BY <1>3, <2>1, <2>2, <2>3
<1>17. FilterInv'
  BY <1>1, <1>7, <1>8, <1>9, <1>10, <1>16 DEF Inv, FilterInv, Ordered
<1>18. QED
  BY <1>1, <1>8, <1>12, <1>17

\* FILTER_DESTROY keeps it.
LEMMA DestroyFilter ==
    ASSUME Inv, NEW p \in Procs, FilterDestroy(p)
    PROVE  /\ FilterTypes' /\ FilterInv'
           /\ \E f \in Members(rxpf_list) :
                 /\ Members(rxpf_list') = Members(rxpf_list) \ {f}
                 /\ proc' = [proc EXCEPT ![p] = [op |-> "kfree", filter |-> f]]
<1> DEFINE L == Len(rxpf_list)
           M == Len(made)
<1>1. PICK k \in 1 .. L :
         /\ rxpf_list' = RemoveAt(rxpf_list, k)
         /\ made' = RemoveAt(made, Position(rxpf_list[k]))
         /\ proc' = [proc EXCEPT ![p] = [op |-> "kfree", filter |-> rxpf_list[k]]]
  BY DEF FilterDestroy, Then
<1> DEFINE f == rxpf_list[k]
           m == Position(f)
<1>2. UNCHANGED <<kf, fid, fmem>>
  BY DEF FilterDestroy
<1>3. /\ rxpf_list \in Seq(Filters) /\ made \in Seq(Filters) /\ L \in Nat /\ M \in Nat
      /\ Distinct(rxpf_list) /\ Distinct(made) /\ Members(rxpf_list) = Members(made)
  BY PrioType DEF Inv, FilterTypes, FilterInv
<1>4. f \in Members(rxpf_list)
  BY DEF Members
<1>5. m \in 1 .. M /\ made[m] = f
  <2>1. \E x \in 1 .. M : made[x] = f
    BY <1>3, <1>4 DEF Members
  <2>2. QED
    BY <2>1 DEF Position
<1> HIDE DEF m
<1>6. /\ rxpf_list' \in Seq(Filters) /\ Len(rxpf_list') = L - 1
      /\ \A j \in 1 .. L - 1 : rxpf_list'[j] = IF j < k THEN rxpf_list[j] ELSE rxpf_list[j + 1]
      /\ Members(rxpf_list') = Members(rxpf_list) \ {f} /\ Distinct(rxpf_list')
  BY <1>1, <1>3, RemoveFacts, RemoveMembers
<1>7. /\ made' \in Seq(Filters) /\ Len(made') = M - 1
      /\ \A j \in 1 .. M - 1 : made'[j] = IF j < m THEN made[j] ELSE made[j + 1]
      /\ Members(made') = Members(made) \ {f} /\ Distinct(made')
  <2>1. made' = RemoveAt(made, m)
    BY <1>1 DEF m
  <2>2. /\ RemoveAt(made, m) \in Seq(Filters) /\ Len(RemoveAt(made, m)) = M - 1
        /\ \A j \in 1 .. M - 1 : RemoveAt(made, m)[j] = IF j < m THEN made[j] ELSE made[j + 1]
    BY <1>3, <1>5, RemoveFacts
  <2>3. Members(RemoveAt(made, m)) = Members(made) \ {made[m]} /\ Distinct(RemoveAt(made, m))
    BY <1>3, <1>5, RemoveMembers
  <2>4. QED
    BY <1>5, <2>1, <2>2, <2>3
<1>8. \A x, y \in 1 .. M - 1 : ~(x < y) =>
        \E u, v \in 1 .. M : made[u] = made'[x] /\ made[v] = made'[y] /\ ~(u < v)
  <2> SUFFICES ASSUME NEW x \in 1 .. M - 1, NEW y \in 1 .. M - 1, ~(x < y)
               PROVE  \E u, v \in 1 .. M : made[u] = made'[x] /\ made[v] = made'[y] /\ ~(u < v)
    OBVIOUS
  <2>1. x \in 1 .. M /\ x + 1 \in 1 .. M /\ y \in 1 .. M /\ y + 1 \in 1 .. M
    BY <1>3
  <2>2. CASE x < m
    <3>1. y < m
      BY <1>3, <1>5, <2>2
    <3>2. made'[x] = made[x] /\ made'[y] = made[y]
      BY <1>7, <2>2, <3>1
    <3>3. QED
      BY <2>1, <3>2
  <2>3. CASE ~(x < m) /\ y < m
    <3>1. made'[x] = made[x + 1] /\ made'[y] = made[y] /\ ~(x + 1 < y)
      BY <1>7, <2>3
    <3>2. QED
      BY <2>1, <3>1
  <2>4. CASE ~(x < m) /\ ~(y < m)
    <3>1. made'[x] = made[x + 1] /\ made'[y] = made[y + 1] /\ ~(x + 1 < y + 1)
      BY <1>7, <2>4
    <3>2. QED
      BY <2>1, <3>1
  <2>5. QED
    BY <2>2, <2>3, <2>4
<1>9. \A j, h \in 1 .. L - 1 : j < h =>
        \E a, b \in 1 .. L : a < b /\ rxpf_list'[j] = rxpf_list[a] /\ rxpf_list'[h] = rxpf_list[b]
  <2> SUFFICES ASSUME NEW j \in 1 .. L - 1, NEW h \in 1 .. L - 1, j < h
               PROVE  \E a, b \in 1 .. L : /\ a < b /\ rxpf_list'[j] = rxpf_list[a]
                                          /\ rxpf_list'[h] = rxpf_list[b]
    OBVIOUS
  <2>1. j \in 1 .. L /\ j + 1 \in 1 .. L /\ h \in 1 .. L /\ h + 1 \in 1 .. L
    BY <1>3
  <2>2. CASE h < k
    <3>1. rxpf_list'[j] = rxpf_list[j] /\ rxpf_list'[h] = rxpf_list[h]
      BY <1>6, <2>2
    <3>2. QED
      BY <2>1, <3>1
  <2>3. CASE ~(h < k) /\ j < k
    <3>1. rxpf_list'[j] = rxpf_list[j] /\ rxpf_list'[h] = rxpf_list[h + 1] /\ j < h + 1
      BY <1>6, <2>3
    <3>2. QED
      BY <2>1, <3>1
  <2>4. CASE ~(h < k) /\ ~(j < k)
    <3>1. rxpf_list'[j] = rxpf_list[j + 1] /\ rxpf_list'[h] = rxpf_list[h + 1] /\ j + 1 < h + 1
      BY <1>6, <2>4
    <3>2. QED
      BY <2>1, <3>1
  <2>5. QED
    BY <2>2, <2>3, <2>4
<1>10. ASSUME NEW j \in 1 .. L - 1, NEW h \in 1 .. L - 1, j < h
       PROVE  /\ kf[rxpf_list'[j]].priority <= kf[rxpf_list'[h]].priority
              /\ kf[rxpf_list'[j]].priority = kf[rxpf_list'[h]].priority =>
                   \A x, y \in 1 .. M - 1 :
                      made'[x] = rxpf_list'[j] /\ made'[y] = rxpf_list'[h] => x < y
  <2>1. PICK a \in 1 .. L, b \in 1 .. L :
           a < b /\ rxpf_list'[j] = rxpf_list[a] /\ rxpf_list'[h] = rxpf_list[b]
    BY <1>9, <1>10
  <2>2. /\ kf[rxpf_list[a]].priority <= kf[rxpf_list[b]].priority
        /\ kf[rxpf_list[a]].priority = kf[rxpf_list[b]].priority =>
             \A u, v \in 1 .. M : made[u] = rxpf_list[a] /\ made[v] = rxpf_list[b] => u < v
    BY <2>1 DEF Inv, FilterInv
  <2>3. /\ kf[rxpf_list'[j]].priority <= kf[rxpf_list'[h]].priority
        /\ kf[rxpf_list'[j]].priority = kf[rxpf_list'[h]].priority =>
             \A u, v \in 1 .. M : made[u] = rxpf_list'[j] /\ made[v] = rxpf_list'[h] => u < v
    BY <2>1, <2>2, Zenon
  <2>4. ASSUME NEW x \in 1 .. M - 1, NEW y \in 1 .. M - 1, ~(x < y),
               kf[rxpf_list'[j]].priority = kf[rxpf_list'[h]].priority,
               made'[x] = rxpf_list'[j], made'[y] = rxpf_list'[h]
        PROVE  FALSE
    <3>1. PICK u \in 1 .. M, v \in 1 .. M :
             made[u] = made'[x] /\ made[v] = made'[y] /\ ~(u < v)
      BY <1>8, <2>4, Zenon
    <3>2. made[u] = rxpf_list'[j] /\ made[v] = rxpf_list'[h]
      BY <2>4, <3>1, Zenon
    <3>3. QED
      BY <2>3, <2>4, <3>1, <3>2, Zenon
  <2>5. QED
    BY <2>3, <2>4, Zenon
<1>11. FilterInv'
  <2>1. Members(rxpf_list') = Members(made') /\ Members(rxpf_list') \subseteq fmem'
    BY <1>2, <1>3, <1>6, <1>7 DEF Inv, FilterInv
  <2>2. QED
    BY <1>2, <1>6, <1>7, <1>10, <2>1 DEF FilterInv
<1>12. FilterTypes'
  BY <1>2, <1>6, <1>7 DEF Inv, FilterTypes
<1>13. QED
  BY <1>1, <1>4, <1>6, <1>11, <1>12

\* The memory of a filter that is in no list may go.
LEMMA FreeFilter ==
    ASSUME Inv, NEW p \in Procs, FilterFree(p)
    PROVE  FilterTypes' /\ FilterInv' /\ fmem' = fmem \ {proc[p].filter}
<1> DEFINE g == proc[p].filter
<1>1. /\ fmem' = fmem \ {g} /\ kf' = [kf EXCEPT ![g] = Blank] /\ fid' = [fid EXCEPT ![g] = 0]
      /\ UNCHANGED <<rxpf_list, made>> /\ proc[p].op = "kfree"
  BY DEF FilterFree
<1>2. g \notin Members(rxpf_list)
  BY <1>1 DEF Inv, DutyInv
<1>3. Blank \in Contents
  BY DEF Blank, Contents, Dests
<1>4. FilterTypes'
  BY <1>1, <1>3 DEF Inv, FilterTypes
<1>5. \A k \in 1 .. Len(rxpf_list) : kf'[rxpf_list[k]] = kf[rxpf_list[k]]
  <2>1. \A k \in 1 .. Len(rxpf_list) : rxpf_list[k] \in Filters /\ rxpf_list[k] # g
    BY <1>2, MembersType DEF Inv, FilterTypes, Members
  <2>2. QED
    BY <1>1, <2>1 DEF Inv, FilterTypes
<1>6. FilterInv'
  <2>1. /\ Distinct(rxpf_list') /\ Distinct(made') /\ Members(rxpf_list') = Members(made')
        /\ Members(rxpf_list') \subseteq fmem'
    BY <1>1, <1>2 DEF Inv, FilterInv
  <2>2. \A j, k \in 1 .. Len(rxpf_list) : j < k =>
          /\ kf'[rxpf_list[j]].priority <= kf'[rxpf_list[k]].priority
          /\ kf'[rxpf_list[j]].priority = kf'[rxpf_list[k]].priority =>
               \A x, y \in 1 .. Len(made) :
                  made[x] = rxpf_list[j] /\ made[y] = rxpf_list[k] => x < y
    <3> SUFFICES ASSUME NEW j \in 1 .. Len(rxpf_list), NEW k \in 1 .. Len(rxpf_list), j < k
                 PROVE  /\ kf'[rxpf_list[j]].priority <= kf'[rxpf_list[k]].priority
                        /\ kf'[rxpf_list[j]].priority = kf'[rxpf_list[k]].priority =>
                             \A x, y \in 1 .. Len(made) :
                                made[x] = rxpf_list[j] /\ made[y] = rxpf_list[k] => x < y
      BY Zenon
    <3>1. kf'[rxpf_list[j]] = kf[rxpf_list[j]] /\ kf'[rxpf_list[k]] = kf[rxpf_list[k]]
      BY <1>5
    <3>2. QED
      BY <3>1, SMTT(20) DEF Inv, FilterInv
  <2>3. QED
    BY <1>1, <2>1, <2>2, SMTT(20) DEF FilterInv
<1>7. QED
  BY <1>1, <1>4, <1>6

-----------------------------------------------------------------------------
(* The Rx path.                                                            *)

\* The search along the list gives the filter that should have the packet.
LEMMA MatchFacts ==
    ASSUME FilterTypes, FilterInv, NEW pkt, NEW ch, NEW taken
    PROVE  /\ IsBest(FirstMatch(pkt, ch, taken), pkt, ch, taken)
           /\ FirstMatch(pkt, ch, taken) \in Filters \cup {Nil}
<1> DEFINE L == Len(rxpf_list)
           T == {k \in 1 .. L : Matches(rxpf_list[k], pkt, ch, taken)}
           hits == {g \in Members(made) : Matches(g, pkt, ch, taken)}
           f == FirstMatch(pkt, ch, taken)
<1>1. /\ L \in Nat /\ Members(made) = Members(rxpf_list)
      /\ \A k \in 1 .. L : rxpf_list[k] \in Filters /\ Prio(k) \in Nat
  BY PrioType, MembersType DEF FilterTypes, FilterInv
<1>2. CASE T = {}
  <2>1. f = Nil
    BY <1>2 DEF FirstMatch
  <2>2. hits = {}
    BY <1>1, <1>2 DEF Members
  <2>3. QED
    BY <2>1, <2>2 DEF IsBest
<1>3. CASE T # {}
  <2> DEFINE k == Min(T)
  <2>1. k \in T /\ \A y \in T : k <= y
    <3>1. T \in SUBSET (1 .. L)
      OBVIOUS
    <3> HIDE DEF T
    <3>2. QED
      BY <1>1, <1>3, <3>1, FirstOf
  <2>2. f = rxpf_list[k]
    BY <1>3 DEF FirstMatch
  <2> HIDE DEF k, f
  <2>3. f \in hits /\ k \in 1 .. L
    BY <1>1, <2>1, <2>2 DEF Members
  <2>4. ASSUME NEW g \in hits \ {f}
        PROVE  \/ kf[f].priority < kf[g].priority
               \/ kf[f].priority = kf[g].priority /\ Position(f) < Position(g)
    <3>1. PICK h \in 1 .. L : g = rxpf_list[h]
      BY <1>1 DEF Members
    <3>2. h \in T /\ h # k
      BY <2>2, <3>1
    <3>3. k < h
      BY <1>1, <2>1, <2>3, <3>2
    <3>4. /\ Prio(k) <= Prio(h)
          /\ Prio(k) = Prio(h) =>
               \A x, y \in 1 .. Len(made) : made[x] = f /\ made[y] = g => x < y
      BY <2>2, <2>3, <3>1, <3>3 DEF FilterInv, Prio
    <3>5. \A e \in Members(made) : Position(e) \in 1 .. Len(made) /\ made[Position(e)] = e
      BY DEF Position, Members
    <3>6. Position(f) \in 1 .. Len(made) /\ made[Position(f)] = f
          /\ Position(g) \in 1 .. Len(made) /\ made[Position(g)] = g
      BY <2>3, <3>5
    <3>7. kf[f].priority = Prio(k) /\ kf[g].priority = Prio(h)
      BY <2>2, <3>1 DEF Prio
    <3>8. QED
      BY <1>1, <2>3, <3>4, <3>6, <3>7
  <2>5. QED
    BY <1>1, <2>2, <2>3, <2>4 DEF IsBest, f
<1>4. QED
  BY <1>2, <1>3

\* A lookup gives an interface of the list, or nothing.
LEMMA LookupType ==
    ASSUME Inv, NEW id \in Nat
    PROVE  Lookup(id) \in ifmem \cup {Nil}
BY LookupFinds DEF Inv, IfaceInv

\* What the Rx path knows after it has matched a packet.
LEMMA RxBegins ==
    ASSUME Inv, use_rx_skb, NEW pkt \in Pkts, NEW ch \in 0 .. RxChans - 1, RxMatch(pkt, ch)
    PROVE  RxInv' /\ IsBest(rx'.f, rx'.pkt, rx'.chan, rx'.taken)
<1>1. PICK taken \in BOOLEAN, up \in BOOLEAN, clone \in BOOLEAN, cb \in CbKfs :
        LET f == FirstMatch(pkt, ch, taken)
            local == f # Nil /\ kf[f].dest_type = "CB"
            c == IF f = Nil THEN Blank ELSE IF local THEN cb ELSE kf[f]
            i == IF c.dest_type = "NETIF" /\ up THEN Lookup(c.dest_id) ELSE Nil
            m == IF i # Nil /\ use_rx_skb /\ c.mirror_type = "NETIF" /\ clone
                 THEN Lookup(c.mirror_id) ELSE Nil
        IN rx' = [pc |-> IF i = Nil THEN "drop" ELSE IF m # Nil THEN "clone" ELSE "stack",
                  pkt |-> pkt, chan |-> ch, taken |-> taken,
                  f |-> f, local |-> local, dest |-> i, mirror |-> m, skb |-> SkbDev(i, m)]
  BY DEF RxMatch
<1> DEFINE f == FirstMatch(pkt, ch, taken)
           local == f # Nil /\ kf[f].dest_type = "CB"
           c == IF f = Nil THEN Blank ELSE IF local THEN cb ELSE kf[f]
           i == IF c.dest_type = "NETIF" /\ up THEN Lookup(c.dest_id) ELSE Nil
           m == IF i # Nil /\ use_rx_skb /\ c.mirror_type = "NETIF" /\ clone
                THEN Lookup(c.mirror_id) ELSE Nil
<1>2. f \in Filters \cup {Nil} /\ IsBest(f, pkt, ch, taken)
  BY MatchFacts DEF Inv
<1>3. Blank \in Contents /\ cb \in Contents /\ kf \in [Filters -> Contents]
  BY TablesAssumption DEF Blank, Contents, Dests, Inv, FilterTypes
<1> HIDE DEF f
<1>4. local \in BOOLEAN /\ c \in Contents
  BY <1>2, <1>3
<1> HIDE DEF local, c
<1>5. c.dest_id \in Nat /\ c.mirror_id \in Nat
  BY <1>4 DEF Contents
<1>6. i \in ifmem \cup {Nil} /\ m \in ifmem \cup {Nil} /\ (i = Nil => m = Nil)
  BY <1>5, LookupType
<1> HIDE DEF i, m
<1>7. rx' = [pc |-> IF i = Nil THEN "drop" ELSE IF m # Nil THEN "clone" ELSE "stack",
             pkt |-> pkt, chan |-> ch, taken |-> taken,
             f |-> f, local |-> local, dest |-> i, mirror |-> m, skb |-> SkbDev(i, m)]
  BY <1>1 DEF f, local, c, i, m
<1>8. sent' = NoCopies /\ ifmem' = ifmem /\ NoCopies \in [Ifaces -> Nat]
  BY DEF RxMatch, NoCopies
<1>9. SkbDev(i, m) \in ifmem \cup {Nil} /\ ch \in Nat
  BY <1>6, TablesAssumption DEF SkbDev
<1>10. rx' \in [pc : {"drop", "clone", "stack"}, pkt : Pkts, chan : Nat, taken : BOOLEAN,
                 f : Filters \cup {Nil}, local : BOOLEAN, dest : ifmem \cup {Nil},
                 mirror : ifmem \cup {Nil}, skb : ifmem \cup {Nil}]
  BY <1>2, <1>4, <1>6, <1>7, <1>9
<1>11. /\ rx'.pc = "drop" => i = Nil
       /\ rx'.pc = "clone" => i # Nil /\ m # Nil
       /\ rx'.pc = "stack" => i # Nil /\ m = Nil
       /\ rx'.dest = i /\ rx'.mirror = m /\ rx'.skb = SkbDev(i, m)
       /\ rx'.f = f /\ rx'.pkt = pkt /\ rx'.chan = ch /\ rx'.taken = taken
  BY <1>7
<1>12. RxInv'
  BY <1>6, <1>8, <1>10, <1>11 DEF RxInv, SkbDev
<1>13. QED
  BY <1>2, <1>11, <1>12

\* One copy more.
LEMMA OneMore ==
    ASSUME NEW s \in [Ifaces -> Nat], NEW i \in Ifaces
    PROVE  [s EXCEPT ![i] = @ + 1] \in [Ifaces -> Nat]
<1>1. s[i] + 1 \in Nat
  OBVIOUS
<1>2. QED
  BY <1>1

\* The network stack gets the clone, then the packet.
LEMMA RxGoesOn ==
    ASSUME Inv, RxClone \/ RxStack \/ RxOther
    PROVE  /\ RxInv'
           /\ rx' = Idle => \A i \in Ifaces : sent'[i] = (IF i = rx.dest THEN 1 ELSE 0)
                                                      + (IF i = rx.mirror THEN 1 ELSE 0)
<1>1. /\ sent \in [Ifaces -> Nat] /\ ifmem \subseteq Ifaces /\ Nil \notin Ifaces
      /\ NoCopies \in [Ifaces -> Nat] /\ \A i \in Ifaces : NoCopies[i] = 0
  BY TablesAssumption DEF Inv, IfaceTypes, RxInv, NoCopies
<1>2. rx.pc \in {"clone", "stack", "drop"} /\ rx # Idle /\ ifmem' = ifmem
  BY DEF RxClone, RxStack, RxOther, Idle
<1> DEFINE Packets == [pc : {"drop", "clone", "stack"}, pkt : Pkts, chan : Nat,
                       taken : BOOLEAN, f : Filters \cup {Nil}, local : BOOLEAN,
                       dest : ifmem \cup {Nil}, mirror : ifmem \cup {Nil},
                       skb : ifmem \cup {Nil}]
<1>3. rx \in Packets
  BY <1>2 DEF Inv, RxInv
<1>4. rx.dest \in ifmem \cup {Nil} /\ rx.mirror \in ifmem \cup {Nil}
  BY <1>3
<1>5. CASE RxClone
  <2>1. /\ rx' = [rx EXCEPT !.pc = "stack"] /\ sent' = [sent EXCEPT ![rx.dest] = @ + 1]
        /\ sent = NoCopies /\ rx.dest # Nil /\ rx.mirror # Nil /\ rx.skb = rx.mirror
    BY <1>2, <1>5 DEF RxClone, Inv, RxInv
  <2>2. /\ rx' \in Packets /\ rx'.pc = "stack" /\ rx'.dest = rx.dest
        /\ rx'.mirror = rx.mirror /\ rx'.skb = rx.skb
    BY <1>3, <2>1
  <2>3. rx' # Idle
    BY <2>2 DEF Idle
  <2>4. sent' = [NoCopies EXCEPT ![rx.dest] = 1] /\ sent' \in [Ifaces -> Nat]
    <3>1. rx.dest \in Ifaces
      BY <1>1, <1>4, <2>1
    <3>2. NoCopies[rx.dest] + 1 = 1
      BY <1>1, <3>1
    <3>3. sent' \in [Ifaces -> Nat]
      BY <1>1, <2>1, <3>1, OneMore
    <3>4. QED
      BY <1>1, <2>1, <3>1, <3>2, <3>3
  <2>5. RxInv'
    BY <1>2, <2>1, <2>2, <2>4 DEF RxInv, SkbDev
  <2>6. QED
    BY <2>3, <2>5
<1>6. CASE RxStack
  <2>1. /\ rx' = Idle /\ sent' = [sent EXCEPT ![rx.skb] = @ + 1]
        /\ rx.dest # Nil /\ rx.skb = SkbDev(rx.dest, rx.mirror)
        /\ rx.mirror = Nil => sent = NoCopies
        /\ rx.mirror # Nil => sent = [NoCopies EXCEPT ![rx.dest] = 1]
    BY <1>2, <1>6 DEF RxStack, Inv, RxInv
  <2>2. sent' \in [Ifaces -> Nat]
    <3>1. rx.skb \in Ifaces
      BY <1>1, <1>4, <2>1 DEF SkbDev
    <3>2. QED
      BY <1>1, <2>1, <3>1, OneMore
  <2>3. CASE rx.mirror = Nil
    BY <1>1, <1>4, <2>1, <2>2, <2>3 DEF SkbDev, RxInv
  <2>4. CASE rx.mirror # Nil
    BY <1>1, <1>4, <2>1, <2>2, <2>4 DEF SkbDev, RxInv
  <2>5. QED
    BY <2>3, <2>4
<1>7. CASE RxOther
  <2>1. rx' = Idle /\ sent' = sent /\ sent = NoCopies /\ rx.dest = Nil /\ rx.mirror = Nil
    BY <1>2, <1>7 DEF RxOther, Inv, RxInv
  <2>2. QED
    BY <1>1, <2>1 DEF RxInv
<1>8. QED
  BY <1>5, <1>6, <1>7
-----------------------------------------------------------------------------
(* The duties of the processes.                                            *)

\* A process gets a duty, the others keep theirs.
LEMMA NewDuty ==
    ASSUME Inv, NEW p \in Procs, NEW d \in Duties, proc' = [proc EXCEPT ![p] = d]
    PROVE  /\ proc' \in [Procs -> Duties] /\ proc'[p] = d
           /\ \A q \in Procs : q # p => proc'[q] = proc[q]
BY DEF Inv, DutyInv

\* Every command of a process keeps them.
LEMMA DutyStep ==
    ASSUME Inv, FewFailures, KnownIdsOnly, NEW p \in Procs,
           \/ NetifCreate(p) \/ NetifAnswer(p) \/ NetifDestroy(p) \/ NetifFree(p)
           \/ FilterCreate(p) \/ FilterDestroy(p) \/ FilterFree(p)
    PROVE  DutyInv'
<1> DEFINE nothing == [op |-> "ready"]
<1>1. nothing \in Duties /\ nothing.op = "ready"
  BY DEF Duties
<1>2. /\ Members(ndev_list) \subseteq ifmem /\ Members(rxpf_list) \subseteq fmem
      /\ Members(ndev_list) \subseteq Ifaces /\ Members(rxpf_list) \subseteq Filters
  BY MembersType DEF Inv, IfaceTypes, IfaceInv, FilterTypes, FilterInv
<1>3. CASE NetifCreate(p)
  <2>1. PICK i \in Ifaces \ ifmem : /\ Members(ndev_list') = Members(ndev_list) \cup {i}
                                  /\ proc' = [proc EXCEPT ![p] = [op |-> "answer", dev |-> i]]
    BY <1>3, CreateIface
  <2> DEFINE d == [op |-> "answer", dev |-> i]
  <2>2. d \in Duties /\ d.op = "answer" /\ d.dev = i
    BY DEF Duties
  <2>3. ifmem \subseteq ifmem' /\ UNCHANGED <<rxpf_list, fmem>>
    BY <1>3, CreateIface DEF NetifCreate, filtervars
  <2> HIDE DEF d
  <2>4. /\ proc' \in [Procs -> Duties] /\ proc'[p] = d
        /\ \A q \in Procs : q # p => proc'[q] = proc[q]
    BY <2>1, <2>2, NewDuty DEF d
  <2>5. QED
    BY <2>1, <2>2, <2>3, <2>4 DEF Inv, DutyInv
<1>4. CASE NetifAnswer(p)
  <2>1. proc' = [proc EXCEPT ![p] = nothing] /\ UNCHANGED <<ndev_list, ifmem, rxpf_list, fmem>>
    BY <1>4 DEF NetifAnswer, Done, Then, ifvars, filtervars
  <2> HIDE DEF nothing
  <2>2. /\ proc' \in [Procs -> Duties] /\ proc'[p] = nothing
        /\ \A q \in Procs : q # p => proc'[q] = proc[q]
    BY <1>1, <2>1, NewDuty
  <2>3. QED
    BY <1>1, <2>1, <2>2 DEF Inv, DutyInv
<1>5. CASE NetifDestroy(p)
  <2>1. PICK i \in Members(ndev_list) :
           /\ Members(ndev_list') = Members(ndev_list) \ {i} /\ i \notin Unanswered
           /\ proc' = [proc EXCEPT ![p] = [op |-> "unregister", dev |-> i]]
    BY <1>5, DestroyIface
  <2> DEFINE d == [op |-> "unregister", dev |-> i]
  <2>2. d \in Duties /\ d.op = "unregister" /\ d.dev = i /\ i \in ifmem
    BY <1>2 DEF Duties
  <2>3. UNCHANGED <<ifmem, rxpf_list, fmem>>
    BY <1>5 DEF NetifDestroy, filtervars
  <2>4. \A q \in Procs : proc[q].op = "answer" => proc[q].dev # i
    BY <2>1 DEF Unanswered
  <2> HIDE DEF d
  <2>5. /\ proc' \in [Procs -> Duties] /\ proc'[p] = d
        /\ \A q \in Procs : q # p => proc'[q] = proc[q]
    BY <2>1, <2>2, NewDuty DEF d
  <2>6. QED
    BY <2>1, <2>2, <2>3, <2>4, <2>5 DEF Inv, DutyInv
<1>6. CASE NetifFree(p)
  <2>1. /\ proc' = [proc EXCEPT ![p] = nothing] /\ UNCHANGED <<ndev_list, rxpf_list, fmem>>
        /\ proc[p].op = "unregister" /\ ifmem' = ifmem \ {proc[p].dev}
    BY <1>6 DEF NetifFree, Done, Then, filtervars
  <2> HIDE DEF nothing
  <2>2. /\ proc' \in [Procs -> Duties] /\ proc'[p] = nothing
        /\ \A q \in Procs : q # p => proc'[q] = proc[q]
    BY <1>1, <2>1, NewDuty
  <2>3. QED
    BY <1>1, <2>1, <2>2 DEF Inv, DutyInv
<1>7. CASE FilterCreate(p)
  <2>1. PICK f \in Filters \ fmem : Members(rxpf_list') = Members(rxpf_list) \cup {f}
    BY <1>7, CreateFilter
  <2>2. fmem \subseteq fmem' /\ UNCHANGED <<ndev_list, ifmem, proc>>
    BY <1>7, CreateFilter DEF FilterCreate, ifvars
  <2>3. QED
    BY <2>1, <2>2 DEF Inv, DutyInv
<1>8. CASE FilterDestroy(p)
  <2>1. PICK f \in Members(rxpf_list) :
           /\ Members(rxpf_list') = Members(rxpf_list) \ {f}
           /\ proc' = [proc EXCEPT ![p] = [op |-> "kfree", filter |-> f]]
    BY <1>8, DestroyFilter
  <2> DEFINE d == [op |-> "kfree", filter |-> f]
  <2>2. d \in Duties /\ d.op = "kfree" /\ d.filter = f /\ f \in fmem
    BY <1>2 DEF Duties
  <2>3. UNCHANGED <<ndev_list, ifmem, fmem>>
    BY <1>8 DEF FilterDestroy, ifvars
  <2> HIDE DEF d
  <2>4. /\ proc' \in [Procs -> Duties] /\ proc'[p] = d
        /\ \A q \in Procs : q # p => proc'[q] = proc[q]
    BY <2>1, <2>2, NewDuty DEF d
  <2>5. QED
    BY <2>1, <2>2, <2>3, <2>4 DEF Inv, DutyInv
<1>9. CASE FilterFree(p)
  <2>1. /\ proc' = [proc EXCEPT ![p] = nothing] /\ UNCHANGED <<ndev_list, ifmem, rxpf_list>>
        /\ proc[p].op = "kfree" /\ fmem' = fmem \ {proc[p].filter}
    BY <1>9 DEF FilterFree, Done, Then, ifvars
  <2> HIDE DEF nothing
  <2>2. /\ proc' \in [Procs -> Duties] /\ proc'[p] = nothing
        /\ \A q \in Procs : q # p => proc'[q] = proc[q]
    BY <1>1, <2>1, NewDuty
  <2>3. QED
    BY <1>1, <2>1, <2>2 DEF Inv, DutyInv
<1>10. QED
  BY <1>3, <1>4, <1>5, <1>6, <1>7, <1>8, <1>9

-----------------------------------------------------------------------------
(* The theorems.                                                           *)

\* A step that leaves a packet alone keeps what is known of it.
LEMMA RxKept ==
    ASSUME Inv, UNCHANGED <<rx, sent>>, rx = Idle \/ ifmem \subseteq ifmem'
    PROVE  RxInv'
BY DEF Inv, RxInv

\* Whoever leaves the filters alone keeps them.
LEMMA SameFilters ==
    ASSUME FilterTypes, FilterInv, UNCHANGED <<rxpf_list, kf, fid, made, fmem>>
    PROVE  FilterTypes' /\ FilterInv'
<1>1. rxpf_list' = rxpf_list /\ kf' = kf /\ fid' = fid /\ made' = made /\ fmem' = fmem
  OBVIOUS
<1>2. FilterTypes'
  BY <1>1 DEF FilterTypes
<1>3. /\ Distinct(rxpf_list)' /\ Distinct(made)' /\ Members(rxpf_list)' = Members(made)'
      /\ Members(rxpf_list)' \subseteq fmem'
  <2>1. Distinct(rxpf_list)' /\ Distinct(made)'
    BY <1>1, Zenon DEF FilterInv, Distinct
  <2>2. Members(rxpf_list)' = Members(rxpf_list) /\ Members(made)' = Members(made)
    BY <1>1, Zenon DEF Members
  <2>3. QED
    BY <1>1, <2>1, <2>2 DEF FilterInv
<1>4. (\A j, k \in 1 .. Len(rxpf_list) : j < k =>
         /\ kf[rxpf_list[j]].priority <= kf[rxpf_list[k]].priority
         /\ kf[rxpf_list[j]].priority = kf[rxpf_list[k]].priority =>
              \A x, y \in 1 .. Len(made) :
                 made[x] = rxpf_list[j] /\ made[y] = rxpf_list[k] => x < y)'
  BY <1>1, Zenon DEF FilterInv
<1>5. QED
  BY <1>2, <1>3, <1>4 DEF FilterInv

\* Nor do the interfaces change when nobody touches them.
LEMMA SameIfaces ==
    ASSUME IfaceTypes, IfaceInv, UNCHANGED <<ndev_list, ifid, ndevs, ndev_max, ifmem, fails>>
    PROVE  IfaceTypes' /\ IfaceInv'
<1>1. /\ ndev_list' = ndev_list /\ ifid' = ifid /\ ndevs' = ndevs /\ ndev_max' = ndev_max
      /\ ifmem' = ifmem /\ fails' = fails
  OBVIOUS
<1>2. IfaceTypes'
  BY <1>1 DEF IfaceTypes
<1>3. Members(ndev_list)' = Members(ndev_list)
  BY <1>1, Zenon DEF Members
<1>4. IfaceInv'
  BY <1>1, <1>3, Zenon DEF IfaceInv
<1>5. QED
  BY <1>2, <1>4

\* Every step of a command keeps the invariant.
LEMMA CommandStep ==
    ASSUME Inv, FewFailures, KnownIdsOnly, NEW p \in Procs,
           \/ NetifCreate(p) \/ NetifAnswer(p) \/ NetifDestroy(p) \/ NetifFree(p)
           \/ FilterCreate(p) \/ FilterDestroy(p) \/ FilterFree(p)
    PROVE  Inv' /\ rx' = rx
<1>1. DutyInv'
  BY DutyStep
<1> DEFINE FiltersKept == UNCHANGED <<rxpf_list, kf, fid, made, fmem>>
           IfacesKept == UNCHANGED <<ndev_list, ifid, ndevs, ndev_max, ifmem, fails>>
<1>2. FiltersKept => FilterTypes' /\ FilterInv'
  BY SameFilters DEF Inv
<1>3. IfacesKept => IfaceTypes' /\ IfaceInv'
  BY SameIfaces DEF Inv
<1>4. CASE NetifCreate(p)
  <2>1. FiltersKept /\ UNCHANGED <<rx, sent>>
    BY <1>4 DEF NetifCreate, filtervars
  <2>2. IfaceTypes' /\ IfaceInv' /\ ifmem \subseteq ifmem'
    BY <1>4, CreateIface
  <2>3. QED
    BY <1>1, <1>2, <2>1, <2>2, RxKept DEF Inv
<1>5. CASE NetifAnswer(p)
  <2>1. FiltersKept /\ IfacesKept /\ UNCHANGED <<rx, sent>>
    BY <1>5 DEF NetifAnswer, filtervars, ifvars
  <2>2. QED
    BY <1>1, <1>2, <1>3, <2>1, RxKept DEF Inv
<1>6. CASE NetifDestroy(p)
  <2>1. FiltersKept /\ UNCHANGED <<rx, sent, ifmem>>
    BY <1>6 DEF NetifDestroy, filtervars
  <2>2. IfaceTypes' /\ IfaceInv'
    BY <1>6, DestroyIface
  <2>3. QED
    BY <1>1, <1>2, <2>1, <2>2, RxKept DEF Inv
<1>7. CASE NetifFree(p)
  <2>1. FiltersKept /\ UNCHANGED <<rx, sent>> /\ rx = Idle
    BY <1>7 DEF NetifFree, filtervars
  <2>2. IfaceTypes' /\ IfaceInv'
    BY <1>7, FreeIface
  <2>3. QED
    BY <1>1, <1>2, <2>1, <2>2, RxKept DEF Inv
<1>8. CASE FilterCreate(p)
  <2>1. IfacesKept /\ UNCHANGED <<rx, sent>>
    BY <1>8 DEF FilterCreate, ifvars
  <2>2. FilterTypes' /\ FilterInv'
    BY <1>8, CreateFilter
  <2>3. QED
    BY <1>1, <1>3, <2>1, <2>2, RxKept DEF Inv
<1>9. CASE FilterDestroy(p)
  <2>1. IfacesKept /\ UNCHANGED <<rx, sent>>
    BY <1>9 DEF FilterDestroy, ifvars
  <2>2. FilterTypes' /\ FilterInv'
    BY <1>9, DestroyFilter
  <2>3. QED
    BY <1>1, <1>3, <2>1, <2>2, RxKept DEF Inv
<1>10. CASE FilterFree(p)
  <2>1. IfacesKept /\ UNCHANGED <<rx, sent>>
    BY <1>10 DEF FilterFree, ifvars
  <2>2. FilterTypes' /\ FilterInv'
    BY <1>10, FreeFilter
  <2>3. QED
    BY <1>1, <1>3, <2>1, <2>2, RxKept DEF Inv
<1>11. QED
  BY <1>4, <1>5, <1>6, <1>7, <1>8, <1>9, <1>10

\* A step of the Rx path changes no table.
LEMMA TablesKept ==
    ASSUME Inv, UNCHANGED <<ifvars, ifmem, filtervars, fmem, proc, fails>>, RxInv'
    PROVE  Inv'
<1>1. UNCHANGED <<ndev_list, ifid, ndevs, ndev_max, ifmem, fails, proc,
                  rxpf_list, kf, fid, made, fmem>>
  BY DEF ifvars, filtervars
<1>2. IfaceTypes' /\ IfaceInv'
  BY <1>1, SameIfaces DEF Inv
<1>3. FilterTypes' /\ FilterInv'
  BY <1>1, SameFilters DEF Inv
<1>4. DutyInv'
  BY <1>1 DEF Inv, DutyInv, Members
<1>5. QED
  BY <1>2, <1>3, <1>4 DEF Inv

\* The invariant, and what a step does to a packet: the filter it begins with is the
\* right one, and when it ends the right interfaces have their copies.
LEMMA InvStep ==
    ASSUME Inv, FewFailures, KnownIdsOnly, use_rx_skb, [Next]_vars
    PROVE  /\ Inv'
           /\ rx = Idle /\ rx' # Idle => IsBest(rx'.f, rx'.pkt, rx'.chan, rx'.taken)
           /\ rx # Idle /\ rx' = Idle =>
                 \A i \in Ifaces : sent'[i] = (IF i = rx.dest THEN 1 ELSE 0)
                                          + (IF i = rx.mirror THEN 1 ELSE 0)
<1>1. CASE \E p \in Procs : \/ NetifCreate(p) \/ NetifAnswer(p) \/ NetifDestroy(p)
                           \/ NetifFree(p) \/ FilterCreate(p) \/ FilterDestroy(p)
                           \/ FilterFree(p)
  BY <1>1, CommandStep
<1>2. CASE \E pkt \in Pkts, chan \in 0 .. RxChans - 1 : RxMatch(pkt, chan)
  <2>1. PICK pkt \in Pkts, chan \in 0 .. RxChans - 1 : RxMatch(pkt, chan)
    BY <1>2
  <2>2. RxInv' /\ IsBest(rx'.f, rx'.pkt, rx'.chan, rx'.taken)
    BY <2>1, RxBegins
  <2>3. UNCHANGED <<ifvars, ifmem, filtervars, fmem, proc, fails>> /\ rx = Idle
    BY <2>1 DEF RxMatch
  <2>4. Inv'
    BY <2>2, <2>3, TablesKept
  <2>5. QED
    BY <2>2, <2>3, <2>4
<1>3. CASE RxClone \/ RxStack \/ RxOther
  <2>1. /\ RxInv'
        /\ rx' = Idle => \A i \in Ifaces : sent'[i] = (IF i = rx.dest THEN 1 ELSE 0)
                                                   + (IF i = rx.mirror THEN 1 ELSE 0)
    BY <1>3, RxGoesOn
  <2>2. UNCHANGED <<ifvars, ifmem, filtervars, fmem, proc, fails>> /\ rx # Idle
    BY <1>3 DEF RxClone, RxStack, RxOther, Idle
  <2>3. Inv'
    BY <2>1, <2>2, TablesKept
  <2>4. QED
    BY <2>1, <2>2, <2>3
<1>4. CASE UNCHANGED vars
  <2>1. UNCHANGED <<ifvars, ifmem, filtervars, fmem, proc, fails, rx, sent>>
    BY <1>4 DEF vars
  <2>2. RxInv'
    BY <2>1, RxKept
  <2>3. Inv'
    BY <2>1, <2>2, TablesKept
  <2>4. QED
    BY <2>1, <2>3
<1>5. QED
  BY <1>1, <1>2, <1>3, <1>4 DEF Next

LEMMA InvInit ==
    ASSUME Init
    PROVE  Inv
<1>1. IfaceTypes
  BY TablesAssumption DEF Init, IfaceTypes
<1>2. FilterTypes
  <2>1. Blank \in Contents
    BY DEF Blank, Contents, Dests
  <2>2. QED
    BY <2>1 DEF Init, FilterTypes
<1>3. IfaceInv
  BY DEF Init, IfaceInv, Members
<1>4. FilterInv
  BY DEF Init, FilterInv, Distinct, Members
<1>5. DutyInv
  BY DEF Init, DutyInv, Duties
<1>6. RxInv
  BY DEF Init, RxInv, NoCopies
<1>7. QED
  BY <1>1, <1>2, <1>3, <1>4, <1>5, <1>6 DEF Inv

\* What the tables refer to, and what a packet on its way refers to, is allocated.
LEMMA HeldFacts ==
    ASSUME Inv, use_rx_skb
    PROVE  NoFreedUse
<1>1. Members(ndev_list) \subseteq ifmem /\ Members(rxpf_list) \subseteq fmem
  BY DEF Inv, IfaceInv, FilterInv
<1>2. Unanswered \subseteq Members(ndev_list)
  BY DEF Inv, DutyInv, Unanswered
<1>3. DOMAIN ndevs = 0 .. ndev_max - 1
  BY DEF Inv, IfaceTypes
<1>4. {ndevs[n] : n \in {x \in DOMAIN ndevs : ndevs[x] # Nil}} \subseteq Members(ndev_list)
  BY <1>3 DEF Inv, IfaceInv
<1>5. rx.pc = "clone" => rx.dest \in ifmem /\ rx.skb \in ifmem
  BY DEF Inv, RxInv, Idle
<1>6. rx.pc = "stack" => rx.skb \in ifmem
  BY DEF Inv, RxInv, Idle, SkbDev
<1>7. HeldIfaces \subseteq ifmem
  BY <1>1, <1>2, <1>4, <1>5, <1>6 DEF HeldIfaces
<1>8. HeldFilters \subseteq fmem
  BY <1>1 DEF HeldFilters
<1>9. QED
  BY <1>3, <1>7, <1>8 DEF NoFreedUse

\* The invariant holds, whatever the number of processes, interfaces and filters.
THEOREM TablesInvCorrect ==
    ASSUME FewFailures, KnownIdsOnly, use_rx_skb
    PROVE  Spec => []Inv
<1>1. Init => Inv
  BY InvInit
<1>2. Inv /\ [Next]_vars => Inv'
  BY InvStep
<1>3. QED
  BY <1>1, <1>2, PTL DEF Spec

\* The array has an entry for each index below ndev_max and none beyond, although it
\* grows by one chunk whatever ID made it grow.
THEOREM TablesTypeCorrect ==
    ASSUME FewFailures, KnownIdsOnly, use_rx_skb
    PROVE  Spec => []TypeOK
<1>1. Inv => TypeOK
  <2> SUFFICES ASSUME Inv PROVE TypeOK
    OBVIOUS
  <2>1. IfaceTypes /\ FilterTypes
    BY DEF Inv
  <2>2. (\A p \in Procs : proc[p] \in Duties) /\ sent \in [Ifaces -> Nat]
    BY DEF Inv, DutyInv, RxInv
  <2>3. QED
    BY <2>1, <2>2 DEF TypeOK, IfaceTypes, FilterTypes, Duties
<1>2. QED
  BY <1>1, TablesInvCorrect, PTL

\* Looking up an ID finds the interface with this ID and no other.
THEOREM LookupRightCorrect ==
    ASSUME FewFailures, KnownIdsOnly, use_rx_skb
    PROVE  Spec => []LookupRight
<1>1. Inv => LookupRight
  <2> SUFFICES ASSUME Inv, NEW id \in 0 .. Cardinality(Ifaces) + 1
               PROVE  LET held == {i \in Members(ndev_list) : ifid[i] = id} IN
                      (held = {} /\ Lookup(id) = Nil) \/ held = {Lookup(id)}
    BY DEF LookupRight
  <2>1. id \in Nat
    OBVIOUS
  <2>2. QED
    BY <2>1, LookupFinds DEF Inv
<1>2. QED
  BY <1>1, TablesInvCorrect, PTL

\* Neither the tables nor a packet on its way refer to freed memory.
THEOREM NoFreedUseCorrect ==
    ASSUME FewFailures, KnownIdsOnly, use_rx_skb
    PROVE  Spec => []NoFreedUse
<1>1. Inv => NoFreedUse
  BY HeldFacts
<1>2. QED
  BY <1>1, TablesInvCorrect, PTL

\* A packet goes to the filter it should.
THEOREM RightFilterCorrect ==
    ASSUME FewFailures, KnownIdsOnly, use_rx_skb
    PROVE  Spec => RightFilter
<1>1. Inv /\ [Next]_vars =>
        [rx = Idle /\ rx' # Idle => IsBest(rx'.f, rx'.pkt, rx'.chan, rx'.taken)]_vars
  BY InvStep
<1>2. QED
  BY <1>1, TablesInvCorrect, PTL DEF Spec, RightFilter

\* A packet and its clone go to the interfaces they should, once.
THEOREM DeliveredRightCorrect ==
    ASSUME FewFailures, KnownIdsOnly, use_rx_skb
    PROVE  Spec => DeliveredRight
<1>1. Inv /\ [Next]_vars =>
        [rx # Idle /\ rx' = Idle =>
            \A i \in Ifaces : sent'[i] = (IF i = rx.dest THEN 1 ELSE 0)
                                     + (IF i = rx.mirror THEN 1 ELSE 0)]_vars
  BY InvStep
<1>2. QED
  BY <1>1, TablesInvCorrect, PTL DEF Spec, DeliveredRight
=============================================================================
