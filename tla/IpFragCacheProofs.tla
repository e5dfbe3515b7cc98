------------------------- MODULE IpFragCacheProofs -------------------------
(***************************************************************************)
(* ReleaseOnItsWay, PortsOfOwnDatagram, ListsAreWhole and TypeOK for any   *)
(* number of entries, datagrams, CPUs and buckets, and any hash function.  *)
(* What the lists hold does not matter to the first two, so IInv says      *)
(* nothing of them; LInv does, and DInv adds what the lengths need.        *)
(***************************************************************************)
EXTENDS IpFragCache, FiniteSetTheorems, SequenceTheorems, TLAPS

Types ==
  /\ entry \in [Entries -> [valid : BOOLEAN, key : Keys, port : Keys]]
  /\ pending \in [Entries -> BOOLEAN]
  /\ cb \in [Entries -> {"idle", "start", "checked"}]
  /\ pkt \in [Cpus -> [pc : {"idle", "add", "cached"}, d : Keys, key : Keys, port : Keys]]

\* An entry's ports are those of the datagram it is keyed by.
EntryPorts == \A e \in Entries : entry[e].port = entry[e].key

IInv == Types /\ EntryPorts /\ ReleaseOnItsWay /\ PortsOfOwnDatagram

\* The cleared database satisfies the invariant.
LEMMA InitIInv == Init => IInv
<1> SUFFICES ASSUME Init PROVE IInv
  OBVIOUS
<1>1. Cleared \in [valid : BOOLEAN, key : Keys, port : Keys]
  BY DEF Cleared, Keys
<1>2. Idle \in [pc : {"idle", "add", "cached"}, d : Keys, key : Keys, port : Keys]
  BY DEF Idle, Keys
<1>3. Types
  BY <1>1, <1>2 DEF Init, Types
<1> QED
  BY <1>3 DEF Init, IInv, EntryPorts, ReleaseOnItsWay, PortsOfOwnDatagram, Cleared, Idle

\* rtk_fc_ipFrag_cache_free clears the entry, which needs no release then.
LEMMA FreeKeepsEntries ==
  ASSUME NEW e \in Entries, Types, EntryPorts, CacheFree(e)
  PROVE  /\ entry' \in [Entries -> [valid : BOOLEAN, key : Keys, port : Keys]]
         /\ EntryPorts'
         /\ ~entry'[e].valid
         /\ \A x \in Entries \ {e} : entry'[x] = entry[x]
<1>1. Cleared \in [valid : BOOLEAN, key : Keys, port : Keys]
  BY DEF Cleared, Keys
<1>2. entry' = [entry EXCEPT ![e] = Cleared]
  BY DEF CacheFree
<1> QED
  BY <1>1, <1>2 DEF Types, EntryPorts, Cleared

\* A packet that is done forgets what it copied from the cache.
LEMMA DoneKeepsPackets ==
  ASSUME NEW c \in Cpus, Types, PortsOfOwnDatagram, Done(c)
  PROVE  /\ pkt' \in [Cpus -> [pc : {"idle", "add", "cached"}, d : Keys, key : Keys, port : Keys]]
         /\ PortsOfOwnDatagram'
<1>1. Idle \in [pc : {"idle", "add", "cached"}, d : Keys, key : Keys, port : Keys]
  BY DEF Idle, Keys
<1> QED
  BY <1>1 DEF Done, Types, PortsOfOwnDatagram, Idle

\* Deleting the timer of an entry is safe in the section that frees it.
LEMMA DelStep ==
  ASSUME NEW c \in Cpus, NEW e \in Entries, IInv, CacheDel(e), Done(c), UNCHANGED cb
  PROVE  IInv'
<1>1. CacheFree(e) /\ pending' = [pending EXCEPT ![e] = FALSE]
  BY DEF CacheDel
<1>2. /\ entry' \in [Entries -> [valid : BOOLEAN, key : Keys, port : Keys]]
      /\ EntryPorts'
      /\ ~entry'[e].valid
      /\ \A x \in Entries \ {e} : entry'[x] = entry[x]
  BY <1>1, FreeKeepsEntries DEF IInv
<1>3. /\ pkt' \in [Cpus -> [pc : {"idle", "add", "cached"}, d : Keys, key : Keys, port : Keys]]
      /\ PortsOfOwnDatagram'
  BY DoneKeepsPackets DEF IInv
<1>4. Types'
  BY <1>1, <1>2, <1>3, Zenon DEF IInv, Types
<1>5. ReleaseOnItsWay'
  BY <1>1, <1>2 DEF IInv, Types, ReleaseOnItsWay
<1> QED
  BY <1>2, <1>3, <1>4, <1>5 DEF IInv

\* Each critical section of the packet path preserves the invariant.
LEMMA PacketStep == ASSUME NEW c \in Cpus, IInv, Packet(c) PROVE IInv'
<1> DEFINE Pkts == [pc : {"idle", "add", "cached"}, d : Keys, key : Keys, port : Keys]
<1> USE DEF IInv
<1>1. ASSUME NEW d \in Datagrams, NEW f \in DOMAIN Size[d], NEW e \in Entries, FindHit(c, d, f, e)
      PROVE  IInv'
  <2> DEFINE p == [pc |-> "cached", d |-> d, key |-> d, port |-> entry[e].port]
  <2>1. entry[e].key = d
    BY <1>1 DEF FindHit, IsHit, Matches
  <2>2. p \in Pkts /\ p.port = d
    BY <2>1 DEF Types, EntryPorts, Keys
  <2>3. pkt' = [pkt EXCEPT ![c] = p] /\ UNCHANGED <<entry, pending, cb>>
    BY <1>1 DEF FindHit
  <2>4. Types'
    BY <2>2, <2>3 DEF Types
  <2> QED
    BY <2>2, <2>3, <2>4 DEF Types, EntryPorts, ReleaseOnItsWay, PortsOfOwnDatagram
<1>2. ASSUME NEW d \in Datagrams, NEW f \in DOMAIN Size[d], FindMiss(c, d, f)
      PROVE  IInv'
  <2> DEFINE p == [pc |-> IF f = 1 THEN "add" ELSE "cached", d |-> d, key |-> 0, port |-> 0]
  <2>1. p \in Pkts /\ p.port = 0
    BY DEF Keys
  <2>2. pkt' = [pkt EXCEPT ![c] = p] /\ UNCHANGED <<entry, pending, cb>>
    BY <1>2 DEF FindMiss
  <2>3. Types'
    BY <2>1, <2>2 DEF Types
  <2> QED
    BY <2>1, <2>2, <2>3 DEF Types, EntryPorts, ReleaseOnItsWay, PortsOfOwnDatagram
<1>3. ASSUME NEW e \in Entries, Add(c, e)
      PROVE  IInv'
  <2> DEFINE n == [valid |-> TRUE, key |-> pkt[c].d, port |-> pkt[c].d]
             p == [pkt[c] EXCEPT !.pc = "cached", !.key = pkt[c].d, !.port = 0]
  <2>1. n \in [valid : BOOLEAN, key : Keys, port : Keys] /\ n.port = n.key
    BY DEF Types
  <2>2. p \in Pkts /\ p.port = 0
    BY ZenonT(30) DEF Types, Keys
  <2>3. entry' = [entry EXCEPT ![e] = n] /\ pkt' = [pkt EXCEPT ![c] = p]
    BY <1>3, Zenon DEF Add, Handle, Types
  <2>4. pending' = [pending EXCEPT ![e] = TRUE] /\ cb' = cb
    BY <1>3 DEF Add, StartTimer
  <2> HIDE DEF n, p
  <2>5. Types'
    BY <2>1, <2>2, <2>3, <2>4 DEF Types
  <2>6. EntryPorts' /\ PortsOfOwnDatagram'
    BY <2>1, <2>2, <2>3 DEF Types, EntryPorts, PortsOfOwnDatagram
  <2>7. ReleaseOnItsWay'
    BY <2>3, <2>4 DEF Types, ReleaseOnItsWay
  <2> QED
    BY <2>5, <2>6, <2>7
<1>4. ASSUME AddFull(c)
      PROVE  IInv'
  <2> DEFINE p == [pkt[c] EXCEPT !.pc = "cached", !.key = 0, !.port = 0]
  <2>1. p \in Pkts /\ p.port = 0
    BY ZenonT(30) DEF Types, Keys
  <2>2. pkt' = [pkt EXCEPT ![c] = p] /\ UNCHANGED <<entry, pending, cb>>
    BY <1>4, Zenon DEF AddFull, Handle, Types
  <2> HIDE DEF p
  <2>3. Types'
    BY <2>1, <2>2 DEF Types
  <2> QED
    BY <2>1, <2>2, <2>3 DEF Types, EntryPorts, ReleaseOnItsWay, PortsOfOwnDatagram
<1>5. ASSUME NEW e \in Entries, CountLast(c, e) \/ ShortcutDel(c, e)
      PROVE  IInv'
  BY <1>5, DelStep DEF CountLast, ShortcutDel
<1>6. ASSUME Leave(c) \/ \E e \in Entries : Count(c, e)
      PROVE  IInv'
  <2>1. Done(c) /\ UNCHANGED <<entry, pending, cb>>
    BY <1>6, Zenon DEF Leave, Count
  <2>2. pkt' \in [Cpus -> Pkts] /\ PortsOfOwnDatagram'
    BY <2>1, DoneKeepsPackets
  <2> QED
    BY <2>1, <2>2 DEF Types, EntryPorts, ReleaseOnItsWay
<1> QED
  BY <1>1, <1>2, <1>3, <1>4, <1>5, <1>6 DEF Packet

\* Each step of the timer and its callback preserves the invariant: the timer
\* stops being pending as the callback starts, and the callback ends only on an
\* entry it found invalid or has just cleared.
LEMMA TimerStep == ASSUME NEW e \in Entries, IInv, Timer(e) PROVE IInv'
<1> USE DEF IInv
<1>1. CASE Expire(e)
  BY <1>1 DEF Expire, Types, EntryPorts, ReleaseOnItsWay, PortsOfOwnDatagram
<1>2. CASE CheckValid(e)
  BY <1>2 DEF CheckValid, Types, EntryPorts, ReleaseOnItsWay, PortsOfOwnDatagram
<1>3. CASE TimeoutFree(e)
  <2>1. /\ entry' \in [Entries -> [valid : BOOLEAN, key : Keys, port : Keys]]
        /\ EntryPorts'
        /\ ~entry'[e].valid
        /\ \A x \in Entries \ {e} : entry'[x] = entry[x]
    BY <1>3, FreeKeepsEntries DEF TimeoutFree
  <2> QED
    BY <1>3, <2>1, Zenon DEF TimeoutFree, Types, ReleaseOnItsWay, PortsOfOwnDatagram
<1> QED
  BY <1>1, <1>2, <1>3 DEF Timer

\* Every step of the system preserves the invariant.
LEMMA NextIInv == IInv /\ [Next]_vars => IInv'
<1> SUFFICES ASSUME IInv, [Next]_vars PROVE IInv'
  OBVIOUS
<1>1. ASSUME NEW c \in Cpus, Packet(c) PROVE IInv'
  BY <1>1, PacketStep
<1>2. ASSUME NEW e \in Entries, Timer(e) PROVE IInv'
  BY <1>2, TimerStep
<1>3. CASE UNCHANGED vars \/ \E d \in Datagrams : Reuse(d)
  <2>1. UNCHANGED <<entry, pending, cb, pkt>>
    BY <1>3 DEF vars, Reuse
  <2> QED
    BY <2>1 DEF IInv, Types, EntryPorts, ReleaseOnItsWay, PortsOfOwnDatagram
<1> QED
  BY <1>1, <1>2, <1>3 DEF Next

\* No entry of the fragment cache is ever lost: whatever the interleaving of
\* packets and of the callback's unlocked test, a valid entry has its timer
\* armed or its callback under way.
THEOREM ReleaseOnItsWayHolds == Spec => []ReleaseOnItsWay
<1>1. IInv => ReleaseOnItsWay
  BY DEF IInv
<1> QED
  BY <1>1, InitIInv, NextIInv, PTL DEF Spec

\* A fragment is looked up in the flow table with the ports of its own
\* datagram, however entries are released and used again under it.
THEOREM PortsOfOwnDatagramHolds == Spec => []PortsOfOwnDatagram
<1>1. IInv => PortsOfOwnDatagram
  BY DEF IInv
<1> QED
  BY <1>1, InitIInv, NextIInv, PTL DEF Spec

-----------------------------------------------------------------------------
(* The lists.                                                              *)

\* The list holds each member of T, a set of entries, exactly once.
Lists(list, T) ==
  /\ list \in Seq(Entries)
  /\ \A i, j \in DOMAIN list : list[i] = list[j] => i = j
  /\ \A x \in Entries : x \in T <=> \E i \in DOMAIN list : list[i] = x

\* The entries that belong on the free list, and on the chain of a bucket.
Unused == {e \in Entries : ~entry[e].valid}
Hashed(b) == {e \in Entries : entry[e].valid /\ b = Hash[entry[e].key]}

LInv == Lists(free, Unused) /\ DOMAIN chain = Buckets /\ \A b \in Buckets : Lists(chain[b], Hashed(b))

\* list_del_init takes an entry off the list it is on and leaves any other
\* list alone.
LEMMA UnlinkedLists == ASSUME NEW list, NEW T, Lists(list, T), NEW e PROVE Lists(Unlinked(list, e), T \ {e})
<1>1. CASE ~\E i \in DOMAIN list : list[i] = e
  <2>1. Unlinked(list, e) = list
    BY <1>1, Zenon DEF Unlinked
  <2> QED
    BY <1>1, <2>1, Zenon DEF Lists
<1>2. CASE \E i \in DOMAIN list : list[i] = e
  <2> DEFINE i == CHOOSE i \in DOMAIN list : list[i] = e
             n == Len(list)
             u == SubSeq(list, 1, i - 1) \o SubSeq(list, i + 1, n)
  <2>1. i \in DOMAIN list /\ list[i] = e /\ Unlinked(list, e) = u
    BY <1>2, Zenon DEF Unlinked
  <2>2. list \in Seq(Entries) /\ n \in Nat /\ DOMAIN list = 1 .. n /\ i \in 1 .. n
    BY <2>1, SMT DEF Lists
  <2> HIDE DEF i, n
  <2>3. /\ u \in Seq(Entries) /\ Len(u) = n - 1
        /\ \A j \in 1 .. n - 1 : u[j] = IF j < i THEN list[j] ELSE list[j + 1]
    <3> DEFINE a == SubSeq(list, 1, i - 1)
               b == SubSeq(list, i + 1, n)
    <3>1. a \in Seq(Entries) /\ Len(a) = i - 1 /\ \A j \in 1 .. i - 1 : a[j] = list[j]
      BY <2>2, SMTT(30) DEF n
    <3>2. b \in Seq(Entries) /\ Len(b) = n - i /\ \A j \in 1 .. n - i : b[j] = list[i + j]
      <4>1. i + 1 \in Int /\ n \in Int /\ \A j \in i + 1 .. n : list[j] \in Entries
        BY <2>2, SMT DEF n
      <4>2. /\ b \in Seq(Entries) /\ Len(b) = (IF i + 1 <= n THEN n - (i + 1) + 1 ELSE 0)
            /\ \A j \in 1 .. n - (i + 1) + 1 : b[j] = list[i + 1 + j - 1]
        BY <4>1, SubSeqProperties, SMTT(30)
      <4> HIDE DEF b
      <4>3. /\ n - (i + 1) + 1 = n - i /\ (IF i + 1 <= n THEN n - (i + 1) + 1 ELSE 0) = n - i
            /\ \A j \in 1 .. n - i : i + 1 + j - 1 = i + j
        BY <2>2, SMT
      <4> QED
        BY <4>2, <4>3, Zenon
    <3> HIDE DEF a, b
    <3>3. /\ a \o b \in Seq(Entries) /\ Len(a \o b) = n - 1
          /\ \A j \in 1 .. n - 1 : (a \o b)[j] = IF j <= i - 1 THEN a[j] ELSE b[j - (i - 1)]
      <4>1. /\ a \o b \in Seq(Entries) /\ Len(a \o b) = Len(a) + Len(b)
            /\ \A j \in 1 .. Len(a) + Len(b) : (a \o b)[j] = IF j <= Len(a) THEN a[j] ELSE b[j - Len(a)]
        BY <3>1, <3>2, ConcatProperties, Zenon
      <4>2. Len(a) + Len(b) = n - 1
        BY <2>2, <3>1, <3>2, SMT
      <4> QED
        BY <3>1, <4>1, <4>2, Zenon
    <3>4. ASSUME NEW j \in 1 .. n - 1 PROVE (a \o b)[j] = IF j < i THEN list[j] ELSE list[j + 1]
      <4>1. CASE j < i
        BY <2>2, <3>1, <3>3, <4>1, SMTT(30)
      <4>2. CASE ~(j < i)
        <5>1. j - (i - 1) \in 1 .. n - i /\ i + (j - (i - 1)) = j + 1 /\ ~(j <= i - 1)
          BY <2>2, <4>2, SMT
        <5> QED
          BY <3>2, <3>3, <4>2, <5>1, Zenon
      <4> QED
        BY <4>1, <4>2, Zenon
    <3> QED
      BY <3>3, <3>4, Zenon DEF a, b
  <2> HIDE DEF u
  <2>4. DOMAIN u = 1 .. n - 1
    BY <2>3, SMT
  <2>5. \A j, k \in DOMAIN u : u[j] = u[k] => j = k
    <3>1. \A j, k \in 1 .. n : list[j] = list[k] => j = k
      BY <2>2, Zenon DEF Lists
    <3> QED
      BY <2>2, <2>3, <2>4, <3>1, SMTT(30)
  <2>6. ASSUME NEW x \in Entries PROVE (\E j \in DOMAIN u : u[j] = x) <=> (\E k \in 1 .. n : list[k] = x) /\ x # e
    <3>1. ASSUME NEW j \in DOMAIN u, u[j] = x PROVE (\E k \in 1 .. n : list[k] = x) /\ x # e
      <4>1. \A k \in 1 .. n : list[k] = e => k = i
        BY <2>1, <2>2, Zenon DEF Lists
      <4>2. CASE j < i
        <5>1. j \in 1 .. n /\ j # i /\ list[j] = x
          BY <2>2, <2>3, <2>4, <3>1, <4>2, SMT
        <5> QED
          BY <4>1, <5>1, Zenon
      <4>3. CASE ~(j < i)
        <5>1. j + 1 \in 1 .. n /\ j + 1 # i /\ list[j + 1] = x
          BY <2>2, <2>3, <2>4, <3>1, <4>3, SMT
        <5> QED
          BY <4>1, <5>1, Zenon
      <4> QED
        BY <4>2, <4>3, Zenon
    <3>2. ASSUME NEW k \in 1 .. n, list[k] = x, x # e PROVE \E j \in DOMAIN u : u[j] = x
      <4>1. CASE k < i
        BY <2>2, <2>3, <2>4, <3>2, <4>1, SMTT(30)
      <4>2. CASE k > i
        <5>1. k - 1 \in DOMAIN u /\ u[k - 1] = x
          BY <2>2, <2>3, <2>4, <3>2, <4>2, SMTT(30)
        <5> QED
          BY <5>1
      <4> QED
        BY <2>1, <2>2, <3>2, <4>1, <4>2, SMT
    <3> QED
      BY <3>1, <3>2, Zenon
  <2>7. \A x \in Entries : x \in T \ {e} <=> \E j \in DOMAIN u : u[j] = x
    BY <2>2, <2>6, Zenon DEF Lists
  <2>8. Lists(u, T \ {e})
    BY <2>3, <2>5, <2>7, Zenon DEF Lists
  <2> QED
    BY <2>1, <2>8, Zenon
<1> QED
  BY <1>1, <1>2, Zenon

\* list_add_tail of an entry that is not on the list.
LEMMA AppendLists ==
  ASSUME NEW list, NEW T, Lists(list, T), NEW e \in Entries, e \notin T
  PROVE  Lists(Append(list, e), T \cup {e})
<1> DEFINE n == Len(list)
           u == Append(list, e)
<1>1. list \in Seq(Entries) /\ n \in Nat /\ DOMAIN list = 1 .. n
  BY SMT DEF Lists
<1>2. /\ u \in Seq(Entries) /\ DOMAIN u = 1 .. n + 1 /\ u[n + 1] = e
      /\ \A j \in 1 .. n : u[j] = list[j]
  BY <1>1, SMT
<1> HIDE DEF n, u
<1>3. \A j \in 1 .. n : list[j] # e
  BY <1>1, Zenon DEF Lists
<1>4. \A j \in 1 .. n + 1 : j \in 1 .. n \/ j = n + 1
  BY <1>1, SMT
<1>5. \A j \in 1 .. n : j \in 1 .. n + 1
  BY <1>1, SMT
<1>6. n + 1 \in 1 .. n + 1
  BY <1>1, SMT
<1>7. \A j, k \in DOMAIN u : u[j] = u[k] => j = k
  BY <1>1, <1>2, <1>3, <1>4, Zenon DEF Lists
<1>8. \A x \in Entries : x \in T \cup {e} <=> \E j \in DOMAIN u : u[j] = x
  BY <1>1, <1>2, <1>4, <1>5, <1>6, Zenon DEF Lists
<1> QED
  BY <1>2, <1>7, <1>8, Zenon DEF Lists, u

\* The invariant depends on the lists and the entries only.
LEMMA ListsSame == ASSUME LInv, UNCHANGED <<free, chain, entry>> PROVE LInv'
<1>1. free' = free /\ chain' = chain /\ Unused' = Unused
  BY Zenon DEF Unused
<1>2. ASSUME NEW b PROVE Hashed(b)' = Hashed(b)
  BY Zenon DEF Hashed
<1>3. ASSUME NEW b \in Buckets PROVE Lists(chain'[b], Hashed(b)')
  BY <1>1, <1>2, Zenon DEF LInv
<1>4. Lists(free', Unused') /\ DOMAIN chain' = Buckets
  BY <1>1, Zenon DEF LInv
<1> QED
  BY <1>3, <1>4, Zenon DEF LInv

\* rtk_fc_ipFrag_cache_free keeps the lists whole, whether the entry is on a
\* chain or, released before by another CPU, already on the free list.
LEMMA FreeLists == ASSUME IInv, LInv, NEW e \in Entries, CacheFree(e) PROVE LInv'
<1>1. /\ entry' = [entry EXCEPT ![e] = Cleared] /\ free' = Append(Unlinked(free, e), e)
      /\ chain' = [b \in Buckets |-> Unlinked(chain[b], e)]
  BY Zenon DEF CacheFree
<1>2. \A x \in Entries : entry'[x] = IF x = e THEN Cleared ELSE entry[x]
  BY <1>1, Zenon DEF IInv, Types
<1>3. ~Cleared.valid
  BY DEF Cleared
<1>4. Unused' = (Unused \ {e}) \cup {e}
  BY <1>2, <1>3, Zenon DEF Unused
<1>5. Lists(free', Unused')
  <2>1. Lists(Unlinked(free, e), Unused \ {e})
    BY UnlinkedLists, Zenon DEF LInv
  <2>2. Lists(Append(Unlinked(free, e), e), (Unused \ {e}) \cup {e})
    BY <2>1, AppendLists, Zenon
  <2> QED
    BY <1>1, <1>4, <2>2, Zenon
<1>6. ASSUME NEW b \in Buckets PROVE Lists(chain'[b], Hashed(b)')
  <2>1. Hashed(b)' = Hashed(b) \ {e}
    BY <1>2, <1>3, Zenon DEF Hashed
  <2>2. chain'[b] = Unlinked(chain[b], e)
    BY <1>1, Zenon
  <2>3. Lists(Unlinked(chain[b], e), Hashed(b) \ {e})
    BY UnlinkedLists, Zenon DEF LInv
  <2> QED
    BY <2>1, <2>2, <2>3, Zenon
<1>7. DOMAIN chain' = Buckets
  BY <1>1, Zenon
<1> QED
  BY <1>5, <1>6, <1>7, Zenon DEF LInv

\* rtk_fc_ipFrag_cache_add moves an entry from the free list to the chain of
\* its key's bucket.
LEMMA AddLists == ASSUME IInv, LInv, NEW c \in Cpus, NEW e \in Entries, Add(c, e) PROVE LInv'
<1> DEFINE d == pkt[c].d
           n == [valid |-> TRUE, key |-> d, port |-> d]
<1>1. /\ free # << >> /\ e = Head(free) /\ entry' = [entry EXCEPT ![e] = n]
      /\ free' = Unlinked(free, e) /\ chain' = [chain EXCEPT ![Hash[d]] = Append(@, e)]
  BY Zenon DEF Add
<1>2. n.valid /\ n.key = d
  OBVIOUS
<1> HIDE DEF n, d
<1>3. \A x \in Entries : entry'[x] = IF x = e THEN n ELSE entry[x]
  BY <1>1, Zenon DEF IInv, Types
<1>4. e \in Unused
  <2>1. free \in Seq(Entries) /\ \A x \in Entries : x \in Unused <=> \E i \in DOMAIN free : free[i] = x
    BY Zenon DEF LInv, Lists
  <2>2. 1 \in DOMAIN free /\ free[1] = e
    BY <1>1, <2>1, SMT
  <2> QED
    BY <2>1, <2>2, Zenon
<1>5. Lists(free', Unused')
  <2>1. Unused' = Unused \ {e}
    BY <1>2, <1>3, Zenon DEF Unused
  <2>2. Lists(Unlinked(free, e), Unused \ {e})
    BY UnlinkedLists, Zenon DEF LInv
  <2> QED
    BY <1>1, <2>1, <2>2, Zenon
<1>6. ASSUME NEW b \in Buckets PROVE Lists(chain'[b], Hashed(b)')
  <2>1. e \notin Hashed(b) /\ Lists(chain[b], Hashed(b))
    BY <1>4, Zenon DEF Unused, Hashed, LInv
  <2>2. CASE b = Hash[d]
    <3>1. chain'[b] = Append(chain[b], e)
      BY <1>1, <2>2, Zenon DEF LInv
    <3>2. Hashed(b)' = Hashed(b) \cup {e}
      BY <1>2, <1>3, <2>1, <2>2, Zenon DEF Hashed
    <3>3. Lists(Append(chain[b], e), Hashed(b) \cup {e})
      BY <2>1, AppendLists, Zenon
    <3> QED
      BY <3>1, <3>2, <3>3, Zenon
  <2>3. CASE b # Hash[d]
    <3>1. chain'[b] = chain[b]
      BY <1>1, <2>3, Zenon DEF LInv
    <3>2. Hashed(b)' = Hashed(b)
      BY <1>2, <1>3, <2>1, <2>3, Zenon DEF Hashed
    <3> QED
      BY <2>1, <3>1, <3>2, Zenon
  <2> QED
    BY <2>2, <2>3, Zenon
<1>7. DOMAIN chain' = Buckets
  BY <1>1, Zenon DEF LInv
<1> QED
  BY <1>5, <1>6, <1>7, Zenon DEF LInv

\* Every step of the system keeps the lists whole.
LEMMA NextLists == IInv /\ LInv /\ [Next]_vars => LInv'
<1> SUFFICES ASSUME IInv, LInv, [Next]_vars PROVE LInv'
  OBVIOUS
<1>1. ASSUME NEW c \in Cpus, Packet(c) PROVE LInv'
  <2>1. ASSUME NEW e \in Entries, Add(c, e) PROVE LInv'
    BY <2>1, AddLists, Zenon
  <2>2. ASSUME NEW e \in Entries, CountLast(c, e) \/ ShortcutDel(c, e) PROVE LInv'
    BY <2>2, FreeLists, Zenon DEF CountLast, ShortcutDel, CacheDel
  <2>3. ASSUME NEW d, NEW f, NEW e, FindMiss(c, d, f) \/ FindHit(c, d, f, e) PROVE LInv'
    BY <2>3, ListsSame, Zenon DEF FindMiss, FindHit
  <2>4. ASSUME NEW e, Count(c, e) \/ AddFull(c) \/ Leave(c) PROVE LInv'
    BY <2>4, ListsSame, Zenon DEF Count, AddFull, Leave
  <2> QED
    BY <1>1, <2>1, <2>2, <2>3, <2>4, ZenonT(30) DEF Packet
<1>2. ASSUME NEW e \in Entries, Timer(e) PROVE LInv'
  <2>1. CASE TimeoutFree(e)
    BY <2>1, FreeLists, Zenon DEF TimeoutFree
  <2>2. CASE Expire(e) \/ CheckValid(e)
    BY <2>2, ListsSame, Zenon DEF Expire, CheckValid
  <2> QED
    BY <1>2, <2>1, <2>2, Zenon DEF Timer
<1>3. CASE UNCHANGED vars \/ \E d \in Datagrams : Reuse(d)
  BY <1>3, ListsSame, Zenon DEF vars, Reuse
<1> QED
  BY <1>1, <1>2, <1>3, Zenon DEF Next

\* rtk_fc_ipFrag_cache_init puts every entry on the free list.
LEMMA InitLists == Init => LInv
<1> SUFFICES ASSUME Init PROVE LInv
  OBVIOUS
<1> DEFINE n == Cardinality(Entries)
           S == [1 .. n -> Entries]
<1>1. n \in Nat
  BY Bounded, FS_CardinalityType, Zenon
<1>2. \E s \in S : IsInjective(s)
  <2>1. IsFiniteSet(1 .. n) /\ Cardinality(1 .. n) = n
    BY <1>1, FS_Interval, SMT
  <2>2. ExistsBijection(1 .. n, Entries)
    BY <2>1, Bounded, FS_SameCardinalityBij, Zenon
  <2> QED
    BY <2>2, Zenon DEF ExistsBijection, Bijection, Injection, IsInjective
<1>3. free \in S /\ IsInjective(free)
  BY <1>2, Zenon DEF Init
<1>4. free \in Injection(1 .. n, Entries)
  BY <1>3, Zenon DEF Injection
<1>5. free \in Surjection(1 .. n, Entries)
  <2>1. IsFiniteSet(1 .. n) /\ Cardinality(1 .. n) = n
    BY <1>1, FS_Interval, SMT
  <2> QED
    BY <1>4, <2>1, Bounded, FS_Injection, Zenon
<1>6. DOMAIN free = 1 .. n /\ free \in Seq(Entries)
  BY <1>1, <1>3, SMT
<1>7. ~Cleared.valid
  BY DEF Cleared
<1>8. Lists(free, Unused)
  <2>1. \A e \in Entries : e \in Unused
    BY <1>7, Zenon DEF Init, Unused
  <2>2. \A i, j \in DOMAIN free : free[i] = free[j] => i = j
    BY <1>3, Zenon DEF IsInjective
  <2>3. \A e \in Entries : \E i \in DOMAIN free : free[i] = e
    BY <1>5, <1>6, Zenon DEF Surjection
  <2> QED
    BY <1>6, <2>1, <2>2, <2>3, Zenon DEF Lists
<1>9. DOMAIN chain = Buckets
  BY Zenon DEF Init
<1>10. ASSUME NEW b \in Buckets PROVE Lists(chain[b], Hashed(b))
  <2>1. \A e \in Entries : e \notin Hashed(b)
    BY <1>7, Zenon DEF Init, Hashed
  <2>2. chain[b] = << >>
    BY Zenon DEF Init
  <2>3. << >> \in Seq(Entries) /\ DOMAIN << >> = {}
    BY SMT
  <2> QED
    BY <2>1, <2>2, <2>3, Zenon DEF Lists
<1> QED
  BY <1>8, <1>9, <1>10, Zenon DEF LInv

\* How often an entry is on a list that holds the members of T once each.
LEMMA TimesOnList ==
  ASSUME NEW list, NEW T, Lists(list, T), NEW e \in Entries
  PROVE  Cardinality({i \in DOMAIN list : list[i] = e}) = IF e \in T THEN 1 ELSE 0
<1>1. CASE e \notin T
  <2>1. {i \in DOMAIN list : list[i] = e} = {}
    BY <1>1, Zenon DEF Lists
  <2> QED
    BY <1>1, <2>1, FS_EmptySet, Zenon
<1>2. CASE e \in T
  <2>1. PICK k \in DOMAIN list : list[k] = e
    BY <1>2, Zenon DEF Lists
  <2>2. {i \in DOMAIN list : list[i] = e} = {k}
    <3>1. \A i \in DOMAIN list : list[i] = e => i = k
      BY <2>1, Zenon DEF Lists
    <3> QED
      BY <2>1, <3>1, SMT
  <2> QED
    BY <1>2, <2>2, FS_Singleton, Zenon
<1> QED
  BY <1>1, <1>2, Zenon

\* Every entry is always on exactly one list, once: on the chain of its key's
\* bucket when it is valid, on the free list when not, for every hash
\* function, although the timer's callback releases an entry on the strength
\* of a `valid' that it read without the lock.
THEOREM ListsAreWholeHolds == Spec => []ListsAreWhole
<1>1. ASSUME LInv, NEW e \in Entries
      PROVE  Cardinality({i \in DOMAIN free : free[i] = e}) = (IF entry[e].valid THEN 0 ELSE 1)
  <2>1. Cardinality({i \in DOMAIN free : free[i] = e}) = IF e \in Unused THEN 1 ELSE 0
    BY <1>1, TimesOnList, Zenon DEF LInv
  <2>2. e \in Unused <=> ~entry[e].valid
    BY Zenon DEF Unused
  <2> QED
    BY <2>1, <2>2, Zenon
<1>2. ASSUME LInv, NEW e \in Entries, NEW b \in Buckets
      PROVE  Cardinality({i \in DOMAIN chain[b] : chain[b][i] = e})
               = (IF entry[e].valid /\ b = Hash[entry[e].key] THEN 1 ELSE 0)
  <2>1. Cardinality({i \in DOMAIN chain[b] : chain[b][i] = e}) = IF e \in Hashed(b) THEN 1 ELSE 0
    BY <1>2, TimesOnList, Zenon DEF LInv
  <2>2. e \in Hashed(b) <=> entry[e].valid /\ b = Hash[entry[e].key]
    BY Zenon DEF Hashed
  <2> QED
    BY <2>1, <2>2, Zenon
<1>3. LInv => ListsAreWhole
  BY <1>1, <1>2, Zenon DEF ListsAreWhole
<1> QED
  BY <1>3, InitIInv, NextIInv, InitLists, NextLists, PTL DEF Spec

-----------------------------------------------------------------------------
(* Types.                                                                  *)

\* Lengths are numbers, fragments to come are those of datagrams, and a packet
\* that will add an entry has a datagram to add it for.
DInv ==
  /\ data \in [Entries -> [rcv : Nat, total : Nat, tmp : Nat]]
  /\ todo \subseteq UNION {Fragments(d) : d \in Datagrams}
  /\ \A c \in Cpus : pkt[c].pc = "add" => pkt[c].d \in Datagrams

\* Steps that change neither lengths nor fragments to come.
LEMMA DataSame ==
  ASSUME DInv, UNCHANGED <<data, todo>>,
         \A c \in Cpus : pkt'[c].pc = "add" => pkt[c].pc = "add" /\ pkt'[c].d = pkt[c].d
  PROVE  DInv'
  BY Zenon DEF DInv, Fragments

\* A packet that goes on, and one that is done, adds no entry.
LEMMA NoMoreAdds ==
  ASSUME IInv, NEW c \in Cpus, NEW p, p.pc # "add", pkt' = [pkt EXCEPT ![c] = p]
  PROVE  \A x \in Cpus : pkt'[x].pc = "add" => pkt[x].pc = "add" /\ pkt'[x].d = pkt[x].d
  BY Zenon DEF IInv, Types

\* Handle and Done are such steps of a packet.
LEMMA HandledOrDone ==
  ASSUME IInv, NEW c \in Cpus, NEW k, NEW q, Done(c) \/ Handle(c, "cached", k, q)
  PROVE  \A x \in Cpus : pkt'[x].pc = "add" => pkt[x].pc = "add" /\ pkt'[x].d = pkt[x].d
<1>1. CASE Done(c)
  <2>1. Idle.pc # "add"
    BY Zenon DEF Idle
  <2> QED
    BY <1>1, <2>1, NoMoreAdds, Zenon DEF Done
<1>2. CASE Handle(c, "cached", k, q)
  <2> DEFINE p == [pkt[c] EXCEPT !.pc = "cached", !.key = k, !.port = q]
  <2>1. pkt' = [pkt EXCEPT ![c] = p] /\ p.pc # "add"
    BY <1>2, Zenon DEF Handle, IInv, Types
  <2> HIDE DEF p
  <2> QED
    BY <2>1, NoMoreAdds, Zenon
<1> QED
  BY <1>1, <1>2, Zenon

\* A length that is written is that of a fragment or of a datagram.
LEMMA Lengths ==
  ASSUME NEW d \in Datagrams
  PROVE  /\ Total(d) \in Nat /\ 1 \in DOMAIN Size[d]
         /\ \A f \in DOMAIN Size[d] : Size[d][f] \in Nat
<1>1. Size[d] \in Seq(Nat \ {0}) /\ Size[d] # << >>
  BY Sized, Zenon
<1> DEFINE s == Size[d]
<1>2. s \in Seq(Nat \ {0}) /\ s # << >>
  BY <1>1, Zenon
<1> HIDE DEF s
<1>3. 1 \in DOMAIN s /\ \A f \in DOMAIN s : s[f] \in Nat
  BY <1>2, SMT
<1> QED
  BY <1>3, Summed, Zenon DEF s

\* Every step keeps the lengths' types.
LEMMA NextData == IInv /\ DInv /\ [Next]_vars => DInv'
<1> SUFFICES ASSUME IInv, DInv, [Next]_vars PROVE DInv'
  OBVIOUS
<1> DEFINE R == [rcv : Nat, total : Nat, tmp : Nat]
<1>1. ASSUME NEW e, NEW r \in R PROVE [data EXCEPT ![e] = r] \in [Entries -> R]
  BY Zenon DEF DInv
<1>2. ASSUME NEW c \in Cpus, NEW d \in Datagrams, NEW f \in DOMAIN Size[d], NEW e \in Entries, FindHit(c, d, f, e)
      PROVE  DInv'
  <2> DEFINE r == [data[e] EXCEPT !.total = IF f = 1 THEN Total(d) ELSE @, !.tmp = Size[d][f]]
             p == [pc |-> "cached", d |-> d, key |-> d, port |-> entry[e].port]
  <2>1. data' = [data EXCEPT ![e] = r] /\ pkt' = [pkt EXCEPT ![c] = p] /\ todo' \subseteq todo
    BY <1>2, Zenon DEF FindHit, DInv
  <2>2. r \in R
    BY Lengths, Zenon DEF DInv
  <2>3. p.pc # "add"
    OBVIOUS
  <2> HIDE DEF p, r
  <2>4. \A x \in Cpus : pkt'[x].pc = "add" => pkt[x].pc = "add" /\ pkt'[x].d = pkt[x].d
    BY <2>1, <2>3, NoMoreAdds, Zenon
  <2>5. data' \in [Entries -> R]
    BY <1>1, <2>1, <2>2, Zenon
  <2> QED
    BY <2>1, <2>4, <2>5, Zenon DEF DInv, Fragments
<1>3. ASSUME NEW c \in Cpus, NEW d \in Datagrams, NEW f \in DOMAIN Size[d], FindMiss(c, d, f) PROVE DInv'
  <2>1. data' = data /\ todo' \subseteq todo
    BY <1>3, Zenon DEF FindMiss
  <2>2. \A x \in Cpus : pkt'[x].pc = "add" => pkt'[x].d \in Datagrams
    BY <1>3, Zenon DEF FindMiss, IInv, Types, DInv
  <2> QED
    BY <2>1, <2>2, Zenon DEF DInv, Fragments
<1>4. ASSUME NEW c \in Cpus, NEW e \in Entries, Add(c, e) PROVE DInv'
  <2> DEFINE d == pkt[c].d
             r == [data[e] EXCEPT !.total = Total(d), !.tmp = Size[d][1]]
  <2>1. d \in Datagrams /\ Handle(c, "cached", d, 0) /\ todo' = todo
    BY <1>4, Zenon DEF Add, DInv
  <2>2. data' = [data EXCEPT ![e] = r]
    BY <1>4, Zenon DEF Add, DInv
  <2> HIDE DEF d
  <2>3. r \in R
    BY <2>1, Lengths, Zenon DEF DInv
  <2> HIDE DEF r
  <2>4. data' \in [Entries -> R]
    BY <1>1, <2>2, <2>3, Zenon
  <2>5. \A x \in Cpus : pkt'[x].pc = "add" => pkt[x].pc = "add" /\ pkt'[x].d = pkt[x].d
    BY <2>1, HandledOrDone, Zenon
  <2> QED
    BY <2>1, <2>4, <2>5, Zenon DEF DInv, Fragments
<1>5. ASSUME NEW c \in Cpus, AddFull(c) \/ Leave(c) PROVE DInv'
  <2>1. \A x \in Cpus : pkt'[x].pc = "add" => pkt[x].pc = "add" /\ pkt'[x].d = pkt[x].d
    BY <1>5, HandledOrDone, Zenon DEF AddFull, Leave
  <2> QED
    BY <1>5, <2>1, DataSame, Zenon DEF AddFull, Leave
<1>6. ASSUME NEW c \in Cpus, NEW e \in Entries, Count(c, e) PROVE DInv'
  <2> DEFINE r == [data[e] EXCEPT !.rcv = @ + data[e].tmp, !.tmp = 0]
  <2>1. data' = [data EXCEPT ![e] = r] /\ Done(c) /\ todo' = todo
    BY <1>6, Zenon DEF Count, DInv
  <2>2. r \in R
    <3>1. data[e] \in R
      BY Zenon DEF DInv
    <3>2. data[e].rcv \in Nat /\ data[e].tmp \in Nat
      BY <3>1, Zenon
    <3>3. data[e].rcv + data[e].tmp \in Nat /\ 0 \in Nat
      BY <3>2, SMT
    <3> QED
      BY <3>1, <3>3, Zenon
  <2> HIDE DEF r
  <2>3. data' \in [Entries -> R]
    BY <1>1, <2>1, <2>2, Zenon
  <2>4. \A x \in Cpus : pkt'[x].pc = "add" => pkt[x].pc = "add" /\ pkt'[x].d = pkt[x].d
    BY <2>1, HandledOrDone, Zenon
  <2> QED
    BY <2>1, <2>3, <2>4, Zenon DEF DInv, Fragments
<1>7. ASSUME NEW e \in Entries, CacheFree(e) PROVE data' \in [Entries -> R]
  <2>1. NoData \in R
    BY SMT DEF NoData
  <2> QED
    BY <1>1, <1>7, <2>1, Zenon DEF CacheFree, Reset
<1>8. ASSUME NEW c \in Cpus, NEW e \in Entries, CountLast(c, e) \/ ShortcutDel(c, e) PROVE DInv'
  <2>1. CacheFree(e) /\ Done(c) /\ todo' = todo
    BY <1>8, Zenon DEF CountLast, ShortcutDel, CacheDel
  <2>2. \A x \in Cpus : pkt'[x].pc = "add" => pkt[x].pc = "add" /\ pkt'[x].d = pkt[x].d
    BY <2>1, HandledOrDone, Zenon
  <2> QED
    BY <1>7, <2>1, <2>2, Zenon DEF DInv, Fragments
<1>9. ASSUME NEW e \in Entries, Timer(e) PROVE DInv'
  <2>1. CASE TimeoutFree(e)
    BY <1>7, <2>1, Zenon DEF TimeoutFree, DInv, Fragments
  <2>2. CASE Expire(e) \/ CheckValid(e)
    BY <2>2, DataSame, Zenon DEF Expire, CheckValid
  <2> QED
    BY <1>9, <2>1, <2>2, Zenon DEF Timer
<1>10. ASSUME NEW d \in Datagrams, Reuse(d) PROVE DInv'
  <2>1. data' = data /\ pkt' = pkt /\ todo' = todo \cup Fragments(d)
    BY <1>10, Zenon DEF Reuse
  <2>2. todo' \subseteq UNION {Fragments(x) : x \in Datagrams}
    BY <2>1, Zenon DEF DInv
  <2> QED
    BY <2>1, <2>2, Zenon DEF DInv, Fragments
<1>11. CASE UNCHANGED vars
  BY <1>11, DataSame, Zenon DEF vars
<1> HIDE DEF R
<1>12. ASSUME NEW c \in Cpus, Packet(c) PROVE DInv'
  BY <1>2, <1>3, <1>4, <1>5, <1>6, <1>8, <1>12, ZenonT(30) DEF Packet
<1> QED
  BY <1>9, <1>10, <1>11, <1>12, Zenon DEF Next

\* A list that holds no entry twice is not longer than ipFragList[].
LEMMA ListFits == ASSUME NEW T, NEW list, Lists(list, T) PROVE Len(list) <= Cardinality(Entries)
<1> DEFINE n == Len(list)
<1>1. list \in [1 .. n -> Entries] /\ n \in Nat /\ DOMAIN list = 1 .. n
  BY SMT DEF Lists
<1>2. list \in Injection(1 .. n, Entries)
  BY <1>1, Zenon DEF Lists, Injection, IsInjective
<1> HIDE DEF n
<1>3. Cardinality(1 .. n) <= Cardinality(Entries)
  BY <1>2, Bounded, FS_Injection, Zenon
<1>4. Cardinality(1 .. n) = n
  BY <1>1, FS_Interval, SMT
<1> QED
  BY <1>3, <1>4, Zenon DEF n

\* Every variable of the fragment cache keeps its type, and the free list never
\* has more nodes than ipFragList[], although entries are released twice.
THEOREM TypeOKHolds == Spec => []TypeOK
<1>1. Init => DInv
  <2> SUFFICES ASSUME Init PROVE DInv
    OBVIOUS
  <2>1. NoData \in [rcv : Nat, total : Nat, tmp : Nat]
    BY SMT DEF NoData
  <2>2. Idle.pc # "add"
    BY Zenon DEF Idle
  <2> QED
    BY <2>1, <2>2, Zenon DEF Init, DInv
<1>2. IInv /\ LInv /\ DInv => TypeOK
  <2> SUFFICES ASSUME IInv, LInv, DInv PROVE TypeOK
    OBVIOUS
  <2>1. free \in Seq(Entries) /\ Len(free) <= Cardinality(Entries)
    BY ListFits, Zenon DEF LInv, Lists
  <2>2. \A b \in Buckets : chain[b] \in Seq(Entries)
    BY Zenon DEF LInv, Lists
  <2> QED
    BY <2>1, <2>2, Zenon DEF IInv, Types, DInv, TypeOK
<1> QED
  BY <1>1, <1>2, InitIInv, NextIInv, InitLists, NextLists, NextData, PTL DEF Spec
=============================================================================
