----------------------------- MODULE NicTxProofs -----------------------------
(***************************************************************************)
(* Proofs about the transmit ring, for any number of senders, any ring     *)
(* size, any number of packets and any sequence of opens and closes.       *)
(***************************************************************************)
EXTENDS NicTx, TLAPS

Critical == {"recycle", "check", "own", "slot", "head"}
\* Places where the sender still owns its packet.
Holding == {"lock", "recycle", "check", "own", "slot"}
Writing == {"own", "slot"}

Types ==
    /\ own \in [Slots -> BOOLEAN] /\ desc \in [Slots -> Pkts \cup {NoSkb}]
    /\ slot \in [Slots -> Pkts \cup {NoSkb}] /\ head \in Slots /\ tail \in Slots
    /\ cdo \in Slots
    /\ pc \in [Senders -> Places] /\ pkt \in [Senders -> Pkts \cup {NoSkb}]
    /\ entry \in [Senders -> Slots] /\ scan \in [Senders -> Slots]
    /\ nextPkt \in Nat /\ frees \in [Pkts -> Nat]

\* tx_lock makes the critical section exclusive.
Locked == \A s \in Senders : pc[s] \in Critical => lock = s

\* Numbers not handed out yet are nowhere.
Fresh ==
    /\ \A i \in Slots : slot[i] < nextPkt
    /\ \A s \in Senders : pkt[s] < nextPkt
    /\ \A p \in Pkts : p >= nextPkt => frees[p] = 0

\* A packet in a sender's hands is live, in no slot and in no other hands.
Hands ==
    /\ \A s \in Senders : pc[s] \in Holding =>
         pkt[s] \in Pkts /\ frees[pkt[s]] = 0 /\ \A i \in Slots : slot[i] # pkt[s]
    /\ \A s, r \in Senders :
         pc[s] \in Holding /\ pc[r] \in Holding /\ pkt[s] = pkt[r] => s = r

\* A packet in a slot is live and in that slot only.
SlotsLive ==
    /\ \A i \in Slots : slot[i] # NoSkb => frees[slot[i]] = 0
    /\ \A i, j \in Slots : slot[i] # NoSkb /\ slot[i] = slot[j] => i = j

\* A descriptor the engine owns is backed by its slot or by the sender that
\* is writing it.
Owned ==
    \A i \in Slots : own[i] =>
      /\ desc[i] \in Pkts
      /\ \/ slot[i] = desc[i]
         \/ \E s \in Senders : pc[s] \in Writing /\ entry[s] = i /\ pkt[s] = desc[i]

\* A packet being written is the one its descriptor names.
Written == \A s \in Senders : pc[s] \in Writing => desc[entry[s]] = pkt[s]

IInv == Types /\ Locked /\ Fresh /\ Hands /\ SlotsLive /\ Owned /\ Written /\ FreedOnce

\* The successor of a ring index (NEXT_TX) is a ring index.
LEMMA NextSlot == \A n \in Slots : NEXT_TX(n) \in Slots
  BY NicTxAssumption, SMT DEF NEXT_TX, Slots

\* The empty ring that re8670_init_rings sets up satisfies the invariant.
LEMMA InitIInv == Init => IInv
<1> SUFFICES ASSUME Init PROVE IInv
  OBVIOUS
<1>1. 0 \in Slots /\ START \in Slots
  BY NicTxAssumption DEF Slots
<1>2. \A p \in Pkts : p \in Nat /\ p # NoSkb
  BY NicTxAssumption DEF Pkts, NoSkb
<1> QED
  BY <1>1, <1>2 DEF Init, IInv, Types, Locked, Fresh, Hands, SlotsLive, Owned, Written,
     FreedOnce, Places, Critical, Holding, Writing, NoSkb

\* Every step of a sender, the engine, the watchdog, open and close keeps it.
LEMMA StepIInv == IInv /\ [Next]_vars => IInv'
<1> SUFFICES ASSUME IInv, [Next]_vars PROVE IInv'
  OBVIOUS
<1>0. \A p \in Pkts : p \in Nat /\ p # NoSkb
  BY NicTxAssumption DEF Pkts, NoSkb
<1>1. \A n \in Slots : NEXT_TX(n) \in Slots
  BY NextSlot
<1>2. 0 \in Slots
  BY NicTxAssumption DEF Slots
<1>a. /\ \A i \in Slots : slot[i] \in Nat
      /\ \A r \in Senders : pkt[r] \in Nat
  BY <1>0, SMTT(30) DEF IInv, Types, NoSkb
<1> USE <1>0, <1>1, <1>2
<1> USE DEF IInv, Types, Locked, Fresh, Hands, SlotsLive, Owned, Written, FreedOnce,
        Places, Critical, Holding, Writing, Goto, Free, ring, hw, dev, local, hist
<1>3. ASSUME NEW s \in Senders, NEW who \in Devs \cup {"fc"}, Xmit(s, who) PROVE IInv'
  <2> USE <1>3 DEF Xmit
  <2>1. Types' /\ Locked' /\ SlotsLive' /\ Written' /\ FreedOnce'
    OBVIOUS
  <2>2. Fresh'
    BY <1>a
  <2>3. \A r \in Senders : r # s => pkt'[r] = pkt[r] /\ pkt[r] < nextPkt /\ pc'[r] = pc[r]
    OBVIOUS
  <2>4. pkt'[s] = nextPkt /\ pc'[s] = "lock" /\ pc[s] = "idle" /\ nextPkt \in Pkts
    OBVIOUS
  <2>5. Hands'
    <3>1. \A i \in Slots : slot[i] # nextPkt
      OBVIOUS
    <3>2. \A r \in Senders : pc'[r] \in Holding =>
            pkt'[r] \in Pkts /\ frees'[pkt'[r]] = 0 /\ \A i \in Slots : slot'[i] # pkt'[r]
      BY <2>3, <2>4, <3>1
    <3>3. \A r, q \in Senders : pc'[r] \in Holding /\ pc'[q] \in Holding /\ pkt'[r] = pkt'[q] => r = q
      BY <2>3, <2>4
    <3> QED
      BY <3>2, <3>3
  <2>6. Owned'
    <3> SUFFICES ASSUME NEW i \in Slots, own[i]
                 PROVE  /\ desc[i] \in Pkts
                        /\ \/ slot[i] = desc[i]
                           \/ \E r \in Senders : pc'[r] \in Writing /\ entry'[r] = i /\ pkt'[r] = desc[i]
      OBVIOUS
    <3> QED
      BY <2>3, <2>4
  <2> QED
    BY <2>1, <2>2, <2>5, <2>6
<1>4. ASSUME NEW s \in Senders, Step(s) PROVE IInv'
  <2>1. CASE DropClosed(s)
    BY <2>1 DEF DropClosed
  <2>2. ASSUME NEW skip \in BOOLEAN, TakeLock(s, skip) PROVE IInv'
    BY <2>2, NicTxAssumption DEF TakeLock
  <2>3. CASE RecycleSlot(s)
    <3> DEFINE i == scan[s]
    <3> USE <2>3 DEF RecycleSlot, Reclaimable
    <3>1. i \in Slots /\ slot[i] \in Pkts /\ ~own[i] /\ frees[slot[i]] = 0
      OBVIOUS
    <3>2. \A r \in Senders : pc[r] \notin Writing
      OBVIOUS
    <3>3. /\ frees' = [frees EXCEPT ![slot[i]] = @ + 1]
          /\ slot' = [slot EXCEPT ![i] = NoSkb]
          /\ scan' = [scan EXCEPT ![s] = NEXT_TX(i)]
          /\ UNCHANGED <<own, desc, head, tail, lock, pc, pkt, entry, nextPkt, cdo>>
      BY SMTT(30)
    <3> HIDE <2>3 DEF i, RecycleSlot, Reclaimable
    <3>4. Types' /\ FreedOnce'
      BY <3>1, <3>3
    <3>5. Locked' /\ Written'
      BY <3>3
    <3>6. Fresh'
      BY <3>1, <3>3 DEF NoSkb
    <3>7. Hands'
      BY <3>1, <3>3
    <3>8. SlotsLive'
      BY <3>1, <3>3
    <3>9. Owned'
      BY <3>1, <3>2, <3>3, SMTT(30)
    <3> QED
      BY <3>4, <3>5, <3>6, <3>7, <3>8, <3>9, SMTT(30)
  <2>4. CASE RecycleEnd(s)
    BY <2>4, SMTT(30) DEF RecycleEnd
  <2>5. CASE DropFull(s)
    BY <2>5, SMTT(30) DEF DropFull
  <2>6. CASE DropLength(s)
    BY <2>6, SMTT(30) DEF DropLength
  <2>7. CASE WriteDesc(s)
    BY <2>7, SMTT(30) DEF WriteDesc
  <2>8. CASE GiveToHw(s)
    BY <2>8, SMTT(30) DEF GiveToHw
  <2>9. CASE SetSkb(s)
    BY <2>9, SMTT(30) DEF SetSkb
  <2>10. CASE Publish(s)
    BY <2>10, SMTT(30) DEF Publish
  <2>11. CASE Kick(s)
    BY <2>11, SMTT(30) DEF Kick
  <2> QED
    BY <1>4, <2>1, <2>2, <2>3, <2>4, <2>5, <2>6, <2>7, <2>8, <2>9, <2>10, <2>11, ZenonT(30) DEF Step
<1>5. CASE HwSend
  BY <1>5, SMTT(30) DEF HwSend
<1>6. CASE HwIdle
  BY <1>6, SMTT(30) DEF HwIdle
<1>7. ASSUME NEW d \in Devs, TxTimeout(d) PROVE IInv'
  BY <1>7 DEF TxTimeout
<1>8. CASE Admin
  <2>1. ASSUME NEW d \in Devs, CloseOther(d) \/ CloseLast(d) \/ OpenDone(d) PROVE IInv'
    <3>1. UNCHANGED <<ring, lock, cdo, pc, local, nextPkt, hist>>
      <4>1. CASE CloseOther(d)
        BY <4>1, Zenon DEF CloseOther
      <4>2. CASE CloseLast(d)
        BY <4>2, Zenon DEF CloseLast
      <4>3. CASE OpenDone(d)
        BY <4>3, Zenon DEF OpenDone
      <4> QED
        BY <2>1, <4>1, <4>2, <4>3, Zenon
    <3> QED
      BY <3>1, SMTT(30)
  <2>2. CASE StopHw
    BY <2>2, SMTT(30) DEF StopHw
  <2>3. CASE InitHw
    BY <2>3, SMTT(30) DEF InitHw
  <2>4. CASE InitTrxCdo
    BY <2>4, SMTT(30) DEF InitTrxCdo
  <2> QED
    BY <1>8, <2>1, <2>2, <2>3, <2>4, ZenonT(30) DEF Admin
<1>9. CASE UNCHANGED vars
  BY <1>9 DEF vars
<1> QED
  BY <1>3, <1>4, <1>5, <1>6, <1>7, <1>8, <1>9, Zenon DEF Next

\* The driver's ring satisfies the invariant in every behaviour.
LEMMA AlwaysIInv == Spec => []IInv
  BY InitIInv, StepIInv, PTL DEF Spec

\* The DMA engine never owns a descriptor of a freed buffer, however senders,
\* recycling, closes and re-opens interleave.
THEOREM NoUseAfterFreeHolds == Spec => []NoUseAfterFree
<1>1. IInv => NoUseAfterFree
  BY NicTxAssumption DEF IInv, Types, Hands, SlotsLive, Owned, NoUseAfterFree, Holding, Writing,
     Pkts, NoSkb
<1> QED
  BY AlwaysIInv, <1>1, PTL

\* Every buffer handed to the driver is freed at most once.
THEOREM FreedOnceHolds == Spec => []FreedOnce
<1>1. IInv => FreedOnce
  BY DEF IInv
<1> QED
  BY AlwaysIInv, <1>1, PTL

-----------------------------------------------------------------------------
(* Type correctness.                                                       *)

\* The variables that the invariant above does not speak of.
Rest ==
    /\ lock \in Senders \cup {NoOne} /\ eth_close \in BOOLEAN
    /\ stopped \in [Devs -> BOOLEAN] /\ up \in SUBSET Devs
    /\ adm \in {"up", "closing", "down", "opening", "opened"}
    /\ hwOn \in BOOLEAN /\ kicked \in BOOLEAN
    /\ from \in [Senders -> Devs \cup {"fc"}]
    /\ nextPkt \in 1 .. MaxPkts + 1 /\ closes \in 0 .. MaxCloses
    /\ queued \in Seq(Pkts) /\ sent \in Seq(Pkts)

\* Every step keeps the types of those variables: what a sender queues is a
\* packet, and what the engine sends is one because its descriptor names one.
LEMMA StepRest == IInv /\ Rest /\ [Next]_vars => Rest'
<1> SUFFICES ASSUME IInv, Rest, [Next]_vars PROVE Rest'
  OBVIOUS
<1> USE DEF Rest, Goto, ring, hw, dev, local, hist
<1>1. ASSUME NEW s \in Senders, NEW who \in Devs \cup {"fc"}, Xmit(s, who) PROVE Rest'
  <2>1. nextPkt' \in 1 .. MaxPkts + 1
    BY <1>1, NicTxAssumption, SMTT(30) DEF Xmit, Pkts
  <2>2. from' \in [Senders -> Devs \cup {"fc"}]
    BY <1>1, SMTT(30) DEF Xmit
  <2> QED
    BY <1>1, <2>1, <2>2, ZenonT(30) DEF Xmit
<1>2. ASSUME NEW s \in Senders, Step(s) PROVE Rest'
  <2>1. CASE DropClosed(s)
    BY <2>1, ZenonT(30) DEF DropClosed
  <2>2. ASSUME NEW skip \in BOOLEAN, TakeLock(s, skip) PROVE Rest'
    BY <2>2, ZenonT(30) DEF TakeLock
  <2>3. CASE RecycleSlot(s)
    BY <2>3, ZenonT(30) DEF RecycleSlot
  <2>4. CASE RecycleEnd(s)
    <3>1. stopped' \in [Devs -> BOOLEAN]
      BY <2>4, SMTT(30) DEF RecycleEnd, Devs
    <3> QED
      BY <2>4, <3>1, ZenonT(30) DEF RecycleEnd
  <2>5. CASE DropFull(s)
    <3>1. stopped' \in [Devs -> BOOLEAN]
      <4>1. stopped' = [stopped EXCEPT ![StopDev(s)] = TRUE] /\ stopped \in [Devs -> BOOLEAN]
        BY <2>5, Zenon DEF DropFull
      <4>2. ASSUME NEW f \in [Devs -> BOOLEAN], NEW d PROVE [f EXCEPT ![d] = TRUE] \in [Devs -> BOOLEAN]
        BY Zenon
      <4> QED
        BY <4>1, <4>2, Zenon
    <3> QED
      BY <2>5, <3>1, ZenonT(30) DEF DropFull
  <2>6. CASE DropLength(s)
    BY <2>6, ZenonT(30) DEF DropLength
  <2>7. CASE WriteDesc(s)
    BY <2>7, ZenonT(30) DEF WriteDesc
  <2>8. CASE GiveToHw(s)
    <3>1. queued' \in Seq(Pkts)
      BY <2>8, SMTT(30) DEF GiveToHw, IInv, Hands, Holding
    <3> QED
      BY <2>8, <3>1, ZenonT(30) DEF GiveToHw
  <2>9. CASE SetSkb(s)
    BY <2>9, ZenonT(30) DEF SetSkb
  <2>10. CASE Publish(s)
    <3>1. stopped' \in [Devs -> BOOLEAN]
      BY <2>10, SMTT(30) DEF Publish, Devs
    <3> QED
      BY <2>10, <3>1, ZenonT(30) DEF Publish
  <2>11. CASE Kick(s)
    BY <2>11, ZenonT(30) DEF Kick
  <2> QED
    BY <1>2, <2>1, <2>2, <2>3, <2>4, <2>5, <2>6, <2>7, <2>8, <2>9, <2>10, <2>11, ZenonT(30) DEF Step
<1>3. CASE HwSend
  <2>1. sent' \in Seq(Pkts)
    BY <1>3, SMTT(30) DEF HwSend, IInv, Types, Owned
  <2> QED
    BY <1>3, <2>1, ZenonT(30) DEF HwSend
<1>4. CASE HwIdle
  BY <1>4, ZenonT(30) DEF HwIdle
<1>5. ASSUME NEW d \in Devs, TxTimeout(d) PROVE Rest'
  <2>1. stopped' \in [Devs -> BOOLEAN]
    BY <1>5, SMTT(30) DEF TxTimeout
  <2> QED
    BY <1>5, <2>1, ZenonT(30) DEF TxTimeout
<1>6. CASE Admin
  <2>1. ASSUME NEW d \in Devs, CloseOther(d) PROVE Rest'
    BY <2>1, ZenonT(30) DEF CloseOther
  <2>2. ASSUME NEW d \in Devs, CloseLast(d) PROVE Rest'
    <3>1. stopped' \in [Devs -> BOOLEAN]
      BY <2>2, SMTT(30) DEF CloseLast
    <3>2. closes' \in 0 .. MaxCloses
      BY <2>2, NicTxAssumption, SMTT(30) DEF CloseLast
    <3> QED
      BY <2>2, <3>1, <3>2, ZenonT(30) DEF CloseLast
  <2>3. ASSUME NEW d \in Devs, OpenDone(d) PROVE Rest'
    <3>1. stopped' \in [Devs -> BOOLEAN]
      BY <2>3, SMTT(30) DEF OpenDone
    <3> QED
      BY <2>3, <3>1, ZenonT(30) DEF OpenDone
  <2>4. CASE StopHw
    BY <2>4, ZenonT(30) DEF StopHw
  <2>5. CASE InitHw
    BY <2>5, ZenonT(30) DEF InitHw
  <2>6. CASE InitTrxCdo
    BY <2>6, ZenonT(30) DEF InitTrxCdo
  <2> QED
    BY <1>6, <2>1, <2>2, <2>3, <2>4, <2>5, <2>6, ZenonT(30) DEF Admin
<1>7. CASE UNCHANGED vars
  BY <1>7, ZenonT(30) DEF vars
<1> QED
  BY <1>1, <1>2, <1>3, <1>4, <1>5, <1>6, <1>7, ZenonT(30) DEF Next

\* Both invariants hold in every behaviour.
LEMMA AlwaysTyped == Spec => [](IInv /\ Rest)
<1>1. Init => Rest
  <2>1. 1 \in 1 .. MaxPkts + 1 /\ 0 \in 0 .. MaxCloses
    BY NicTxAssumption
  <2>2. <<>> \in Seq(Pkts)
    OBVIOUS
  <2>3. Init => stopped \in [Devs -> BOOLEAN]
    BY SMT DEF Init
  <2>6. Init => from \in [Senders -> Devs \cup {"fc"}] /\ up \in SUBSET Devs
    BY SMT DEF Init
  <2>4. Init => adm \in {"up", "closing", "down", "opening", "opened"} /\ lock \in Senders \cup {NoOne}
    BY Zenon DEF Init
  <2>5. Init => eth_close \in BOOLEAN /\ hwOn \in BOOLEAN /\ kicked \in BOOLEAN
    BY Zenon DEF Init
  <2> QED
    BY <2>1, <2>2, <2>3, <2>4, <2>5, <2>6, ZenonT(30) DEF Init, Rest
<1> QED
  BY <1>1, InitIInv, StepIInv, StepRest, PTL DEF Spec

\* Every variable of the driver and of the engine keeps its type in every
\* behaviour: indices stay inside the ring, and only packets are queued and sent.
THEOREM TypeOKHolds == Spec => []TypeOK
<1>1. IInv /\ Rest => TypeOK
  BY Zenon DEF IInv, Types, Rest, TypeOK
<1> QED
  BY AlwaysTyped, <1>1, PTL

-----------------------------------------------------------------------------
(* The ring as a queue, until the last device is closed.                   *)

\* How many slots lie from a up to b.
Gap(a, b) == IF a <= b THEN b - a ELSE b - a + RING

\* Where the holder of tx_lock is, and whether it has given the engine a
\* descriptor that head does not cover yet.
Place == IF lock = NoOne THEN "idle" ELSE pc[lock]
Filling == Place \in {"slot", "head"}
\* The oldest slot that still has its buffer, and the next descriptor to fill.
Base == IF Place = "recycle" THEN scan[lock] ELSE tail
Edge == IF Filling THEN NEXT_TX(head) ELSE head
\* Queued packets that head covers, and those of them that have been freed.
Placed == IF Filling THEN Len(queued) - 1 ELSE Len(queued)
Retired == Placed - Gap(Base, head)

\* The holder of tx_lock is in the critical section.
Held == lock # NoOne => pc[lock] \in Critical

\* A slot stays free between head and tail, and a writer leaves another.
Room ==
    /\ Gap(tail, head) <= RING - 2
    /\ Place \in {"own", "slot", "head"} => entry[lock] = head /\ Gap(tail, head) <= RING - 3

\* Around the ring come tail, the recycler, the engine and the edge; the
\* engine is as far behind the edge as it has packets to send.
Order ==
    /\ Gap(tail, Base) + Gap(Base, head) = Gap(tail, head)
    /\ Gap(Base, cdo) + Gap(cdo, Edge) = Gap(Base, Edge)
    /\ Len(queued) - Len(sent) = Gap(cdo, Edge)
    /\ Retired >= 0

\* The writer's packet is the last one queued.
Newest ==
    /\ Filling => Len(queued) >= 1 /\ queued[Len(queued)] = pkt[lock]
    /\ Place = "head" => slot[head] = pkt[lock]

\* The engine owns the descriptors up to the edge, and they name the packets
\* it has not sent, in the order they were queued.
Owns == \A i \in Slots : own[i] <=> Gap(cdo, i) < Len(queued) - Len(sent)
Names == \A i \in Slots : own[i] => desc[i] = queued[Len(sent) + 1 + Gap(cdo, i)]

\* The slots up to head keep the last packets queued, the others are freed.
Kept == \A i \in Slots : Gap(Base, i) < Gap(Base, head) => slot[i] = queued[Retired + 1 + Gap(Base, i)]
Gone == \A k \in 1 .. Retired : frees[queued[k]] = 1

Queue == adm = "up" /\ Room /\ Order /\ Newest /\ Owns /\ Names /\ Kept /\ Gone /\ SentInOrder
QInv == Held /\ (closes = 0 => Queue)

\* NEXT_TX is the next slot around the ring.
LEMMA NextIs == \A n \in Slots : NEXT_TX(n) = IF n = RING - 1 THEN 0 ELSE n + 1
  BY NicTxAssumption, SMTT(30) DEF NEXT_TX, Slots

\* TX_HQBUFFS_AVAIL counts the free slots, less the one that stays empty.
LEMMA AvailIs == \A t, h \in Slots : TX_HQBUFFS_AVAIL(t, h) = RING - 1 - Gap(t, h)
<1> SUFFICES ASSUME NEW t \in Slots, NEW h \in Slots PROVE TX_HQBUFFS_AVAIL(t, h) = RING - 1 - Gap(t, h)
  OBVIOUS
<1>1. ASSUME NEW r \in Nat \ {0}, NEW x \in 0 .. r - 1 PROVE x % r = x /\ (x + r) % r = x
  BY SMTT(30)
<1>2. CASE t <= h
  BY <1>1, <1>2, NicTxAssumption, SMTT(30) DEF Slots, Gap, TX_HQBUFFS_AVAIL
<1>3. CASE h < t
  <2> DEFINE x == t - h - 1
  <2>1. x \in 0 .. RING - 1 /\ RING \in Nat \ {0} /\ t - h + RING - 1 = x + RING
    BY <1>3, NicTxAssumption, SMTT(30) DEF Slots
  <2>2. (x + RING) % RING = x
    BY <1>1, <2>1
  <2> QED
    BY <1>3, <2>1, <2>2, NicTxAssumption, SMTT(30) DEF Slots, Gap, TX_HQBUFFS_AVAIL
<1> QED
  BY <1>2, <1>3, NicTxAssumption, SMTT(30) DEF Slots

\* The distance that is counted modulo the ring size is the gap.
LEMMA GapIs == \A a, b \in Slots : (b - a) % RING = Gap(a, b)
<1> SUFFICES ASSUME NEW a \in Slots, NEW b \in Slots PROVE (b - a) % RING = Gap(a, b)
  OBVIOUS
<1>1. ASSUME NEW r \in Nat \ {0}, NEW x \in 0 .. r - 1 PROVE x % r = x /\ (x - r) % r = x
  BY SMTT(30)
<1> DEFINE x == Gap(a, b)
<1>2. x \in 0 .. RING - 1 /\ RING \in Nat \ {0} /\ (b - a = x \/ b - a = x - RING)
  BY NicTxAssumption, SMTT(30) DEF Slots, Gap
<1>3. x % RING = x /\ (x - RING) % RING = x
  BY <1>1, <1>2
<1> QED
  BY <1>2, <1>3, Zenon

\* Every index is a slot, and what has been queued and sent are packets.
Ranges ==
    /\ RING \in Nat /\ RING > 1
    /\ head \in 0 .. RING - 1 /\ tail \in 0 .. RING - 1 /\ cdo \in 0 .. RING - 1
    /\ Base \in 0 .. RING - 1 /\ Edge \in 0 .. RING - 1
    /\ Len(queued) \in Nat /\ Len(sent) \in Nat /\ Placed \in Int
    /\ (Placed = Len(queued) \/ Placed = Len(queued) - 1)
    /\ \A k \in 1 .. Len(queued) : queued[k] \in Pkts

\* The types put every index in the ring.
LEMMA InRange == ASSUME IInv, Rest PROVE Ranges
<1>1. RING \in Nat /\ RING > 1 /\ Slots = 0 .. RING - 1
  BY NicTxAssumption, SMT DEF Slots
<1>2. head \in Slots /\ tail \in Slots /\ cdo \in Slots /\ scan \in [Senders -> Slots]
  BY Zenon DEF IInv, Types
<1>3. Base \in Slots
  <2>1. Place = "recycle" => lock \in Senders
    BY Zenon DEF Place, Rest
  <2> QED
    BY <1>2, <2>1, Zenon DEF Base
<1>4. Edge \in Slots
  BY <1>2, NextSlot, Zenon DEF Edge
<1>5. Len(queued) \in Nat /\ Len(sent) \in Nat /\ \A k \in 1 .. Len(queued) : queued[k] \in Pkts
  <2>1. queued \in Seq(Pkts) /\ sent \in Seq(Pkts)
    BY Zenon DEF Rest
  <2> QED
    BY <2>1
<1>6. Placed \in Int /\ (Placed = Len(queued) \/ Placed = Len(queued) - 1)
  BY <1>5 DEF Placed
<1> QED
  BY <1>1, <1>2, <1>3, <1>4, <1>5, <1>6, Zenon DEF Ranges

\* A packet that has been freed stays so.
Lasting == \A p \in Pkts : frees[p] = 1 => frees'[p] = 1

\* It does when another one is freed, for none is freed twice.
LEMMA FreeLasts == ASSUME IInv, IInv', NEW q, Free(q) PROVE Lasting
<1>1. frees \in [Pkts -> Nat] /\ (\A p \in Pkts : frees'[p] <= 1)
  BY Zenon DEF IInv, Types, FreedOnce
<1> QED
  BY <1>1, SMTT(30) DEF Free, Lasting

\* The packets counted as freed have been queued.
LEMMA RetiredQueued == ASSUME IInv, Rest PROVE Retired \in Int /\ \A k \in 1 .. Retired : queued[k] \in Pkts
  BY InRange, SMTT(30) DEF Ranges, Retired, Gap

\* The variables the queue is made of, which a step may leave alone.
Still == UNCHANGED <<own, desc, slot, head, tail, cdo, queued, sent, Base, Edge, Placed>>

\* A step that leaves them alone keeps the queue.
LEMMA Steady ==
  ASSUME IInv, Rest, Queue, Still, Lasting
  PROVE  Order' /\ Owns' /\ Names' /\ Kept' /\ Gone' /\ SentInOrder'
<1>1. /\ own' = own /\ desc' = desc /\ slot' = slot /\ head' = head /\ tail' = tail
      /\ cdo' = cdo /\ queued' = queued /\ sent' = sent /\ Base' = Base /\ Edge' = Edge
      /\ Placed' = Placed
  BY Zenon DEF Still
<1>0. Retired' = Retired
  BY <1>1, Zenon DEF Retired, Gap
<1>2. Order' /\ Owns' /\ Names' /\ SentInOrder'
  BY <1>0, <1>1, Zenon DEF Queue, Order, Owns, Names, SentInOrder, Gap
<1>3. Kept'
  BY <1>0, <1>1, Zenon DEF Queue, Kept, Gap
<1>4. Gone'
  BY <1>0, <1>1, RetiredQueued, Zenon DEF Queue, Gone, Lasting
<1> QED
  BY <1>2, <1>3, <1>4, Zenon

\* A sender in the critical section is the holder of tx_lock.
LEMMA AtPlace == ASSUME IInv, NEW s \in Senders, pc[s] \in Critical PROVE lock = s /\ Place = pc[s]
<1>1. lock = s
  BY Zenon DEF IInv, Locked
<1> QED
  BY <1>1, NicTxAssumption, Zenon DEF Place

\* A sender that takes or leaves tx_lock, or moves on with it, decides where
\* its holder is.
LEMMA Arrives ==
  ASSUME IInv, NEW s \in Senders, NEW x, Goto(s, x)
  PROVE  (lock' = s => Place' = x) /\ (lock' = NoOne => Place' = "idle") /\ pc'[s] = x
<1>1. pc \in [Senders -> Places]
  BY Zenon DEF IInv, Types
<1>2. pc'[s] = x
  BY <1>1, Zenon DEF Goto
<1> QED
  BY <1>2, NicTxAssumption, Zenon DEF Place

\* What concerns the holder of tx_lock, seen from a step outside of it.
Aside ==
    /\ UNCHANGED <<lock, Place>>
    /\ lock # NoOne => /\ scan'[lock] = scan[lock] /\ entry'[lock] = entry[lock]
                       /\ pkt'[lock] = pkt[lock]

\* A sender outside the critical section leaves the holder alone.
LEMMA Outside ==
  ASSUME IInv, Rest, Held, NEW s \in Senders, pc[s] \notin Critical, NEW x, Goto(s, x),
         lock' = lock, UNCHANGED <<entry, scan>>, \A r \in Senders : r # s => pkt'[r] = pkt[r]
  PROVE  Aside
<1>1. lock # s
  BY NicTxAssumption, Zenon DEF Held
<1>2. lock # NoOne => lock \in Senders
  BY Zenon DEF Rest
<1>3. lock # NoOne => pc'[lock] = pc[lock]
  <2>1. pc \in [Senders -> Places]
    BY Zenon DEF IInv, Types
  <2> QED
    BY <1>1, <1>2, <2>1, Zenon DEF Goto
<1> QED
  BY <1>1, <1>2, <1>3, Zenon DEF Aside, Place

\* The two states of a step and what is known of them before the last close.
Pair == IInv /\ IInv' /\ Rest /\ Rest' /\ Held /\ Queue

\* In every state the indices are in the ring.
LEMMA RangesHold == IInv /\ Rest => Ranges /\ Retired \in Int
  BY InRange, RetiredQueued, Zenon

\* So they are in both states of a step.
LEMMA PairRanges == ASSUME Pair PROVE Ranges /\ Ranges' /\ Retired \in Int /\ Retired' \in Int
<1>1. (IInv /\ Rest => Ranges /\ Retired \in Int)'
  BY RangesHold, PTL
<1> QED
  BY <1>1, RangesHold, Zenon DEF Pair

\* A step outside the critical section keeps the queue, if it leaves the ring
\* and the engine's place in it alone.
LEMMA AsideStep ==
  ASSUME Pair, Aside, Lasting, adm' = "up", UNCHANGED <<ring, cdo, queued, sent>>
  PROVE  Queue'
<1>1. /\ own' = own /\ desc' = desc /\ slot' = slot /\ head' = head /\ tail' = tail
      /\ cdo' = cdo /\ queued' = queued /\ sent' = sent /\ Place' = Place /\ lock' = lock
  BY Zenon DEF ring, Aside
<1>2. Place # "idle" => /\ scan'[lock] = scan[lock] /\ entry'[lock] = entry[lock]
                        /\ pkt'[lock] = pkt[lock]
  BY Zenon DEF Aside, Place
<1>3. Filling' = Filling
  BY <1>1, Zenon DEF Filling
<1>4. Base' = Base /\ Edge' = Edge /\ Placed' = Placed
  BY <1>1, <1>2, <1>3, Zenon DEF Base, Edge, Placed, NEXT_TX
<1>5. Still
  BY <1>1, <1>4, Zenon DEF Still
<1>6. Order' /\ Owns' /\ Names' /\ Kept' /\ Gone' /\ SentInOrder'
  BY <1>5, Steady, Zenon DEF Pair
<1>7. Room'
  BY <1>1, <1>2, Zenon DEF Pair, Queue, Room, Gap
<1>8. Newest'
  BY <1>1, <1>2, <1>3, Zenon DEF Pair, Queue, Newest, Filling
<1> QED
  BY <1>6, <1>7, <1>8, Zenon DEF Queue

\* checkTXDesc starts at tail.
LEMMA TakeLockQueue == ASSUME Pair, NEW s \in Senders, NEW skip, TakeLock(s, skip) PROVE Queue'
<1>1. lock = NoOne /\ lock' = s /\ Goto(s, IF skip THEN "check" ELSE "recycle")
  BY Zenon DEF TakeLock
<1>2. Place = "idle" /\ Place' \in {"check", "recycle"}
  BY <1>1, Arrives, Zenon DEF Pair, Place
<1>3. scan'[s] = tail
  BY Zenon DEF TakeLock, Pair, IInv, Types
<1>4. UNCHANGED <<own, desc, slot, head, tail, cdo, queued, sent, adm, frees>>
  BY Zenon DEF TakeLock, ring, hw, dev, hist
<1>5. ~Filling /\ ~Filling'
  BY <1>2, Zenon DEF Filling
<1>6. Base' = tail /\ Base = tail
  BY <1>1, <1>2, <1>3, <1>4, Zenon DEF Base
<1>7. Still
  BY <1>4, <1>5, <1>6, Zenon DEF Still, Edge, Placed
<1>8. Order' /\ Owns' /\ Names' /\ Kept' /\ Gone' /\ SentInOrder'
  <2>1. Lasting
    BY <1>4, Zenon DEF Lasting
  <2> QED
    BY <1>7, <2>1, Steady, Zenon DEF Pair
<1>9. Room'
  BY <1>2, <1>4, Zenon DEF Pair, Queue, Room, Gap
<1>10. Newest'
  BY <1>2, <1>5, Zenon DEF Newest
<1> QED
  BY <1>4, <1>8, <1>9, <1>10, Zenon DEF Pair, Queue

\* A packet dropped under tx_lock leaves the queue as it is.
LEMMA DropQueue == ASSUME Pair, NEW s \in Senders, DropFull(s) \/ DropLength(s) PROVE Queue'
<1>1. /\ pc[s] = "check" /\ lock' = NoOne /\ Goto(s, "idle") /\ Free(pkt[s])
      /\ UNCHANGED <<own, desc, slot, head, tail, cdo, queued, sent, adm>>
  BY Zenon DEF DropFull, DropLength, ring, hw, dev
<1>2. Place = "check" /\ Place' = "idle"
  <2>1. pc[s] \in Critical
    BY <1>1, Zenon DEF Critical
  <2>2. Place' = "idle"
    BY <1>1, Arrives, Zenon DEF Pair
  <2> QED
    BY <1>1, <2>1, <2>2, AtPlace, Zenon DEF Pair
<1>3. ~Filling /\ ~Filling' /\ Base = tail /\ Base' = tail
  BY <1>1, <1>2, Zenon DEF Filling, Base
<1>4. Still
  BY <1>1, <1>3, Zenon DEF Still, Edge, Placed
<1>5. Order' /\ Owns' /\ Names' /\ Kept' /\ Gone' /\ SentInOrder'
  <2>1. Lasting
    BY <1>1, FreeLasts, Zenon DEF Pair
  <2> QED
    BY <1>4, <2>1, Steady, Zenon DEF Pair
<1>6. Room'
  BY <1>1, <1>2, Zenon DEF Pair, Queue, Room, Gap
<1>7. Newest'
  BY <1>2, <1>3, Zenon DEF Newest
<1> QED
  BY <1>1, <1>5, <1>6, <1>7, Zenon DEF Pair, Queue

\* The loop of re8670_tx frees the oldest packet of the queue: its slot is
\* behind the engine.
LEMMA RecycleSlotQueue == ASSUME Pair, NEW s \in Senders, RecycleSlot(s) PROVE Queue'
<1> DEFINE i == scan[s]
<1>1. /\ pc[s] = "recycle" /\ ~own[i] /\ i # head /\ slot[i] # NoSkb /\ Free(slot[i])
      /\ slot' = [slot EXCEPT ![i] = NoSkb] /\ scan' = [scan EXCEPT ![s] = NEXT_TX(i)]
      /\ UNCHANGED <<own, desc, head, tail, cdo, queued, sent, adm, lock, pc>>
  BY Zenon DEF RecycleSlot, Reclaimable, hw, dev
<1>2. lock = s /\ Place = "recycle" /\ Place' = "recycle"
  BY <1>1, AtPlace, Zenon DEF Pair, Critical, Place
<1>3. ~Filling /\ ~Filling'
  BY <1>2, Zenon DEF Filling
<1>4. Base = i /\ Base' = NEXT_TX(i) /\ i \in Slots
  BY <1>1, <1>2, Zenon DEF Base, Pair, IInv, Types
<1>5. Edge = head /\ Edge' = head /\ Placed = Len(queued) /\ Placed' = Len(queued)
  BY <1>1, <1>3, Zenon DEF Edge, Placed
<1>6. Ranges /\ Ranges' /\ Retired \in Int
  BY PairRanges, Zenon
<1>7. Order /\ Room /\ Owns /\ Names /\ Kept /\ Gone /\ SentInOrder
  BY Zenon DEF Pair, Queue
<1>8. Base' = IF i = RING - 1 THEN 0 ELSE i + 1
  BY <1>4, NextIs, Zenon
<1> HIDE DEF i
<1>9. Gap(i, head) >= 1 /\ Gap(i, cdo) >= 1
  BY <1>1, <1>4, <1>5, <1>6, <1>7, SMTT(30) DEF Ranges, Owns, Order, Gap
<1>10. Order' /\ Retired' = Retired + 1
  BY <1>1, <1>4, <1>5, <1>6, <1>7, <1>8, <1>9, SMTT(30) DEF Ranges, Order, Gap, Retired
<1>11. Kept'
  <2>1. SUFFICES ASSUME NEW j \in Slots, Gap(Base', j) < Gap(Base', head)
                 PROVE  slot'[j] = queued[Retired' + 1 + Gap(Base', j)]
    BY <1>1, Zenon DEF Kept, Gap
  <2>2. i # j /\ Gap(i, j) = Gap(Base', j) + 1 /\ Gap(i, j) < Gap(i, head)
    BY <1>4, <1>6, <1>8, <1>9, <2>1, SMTT(30) DEF Ranges, Gap, Slots
  <2>3. slot[j] = queued[Retired + 1 + Gap(i, j)]
    BY <1>4, <1>7, <2>2, Zenon DEF Kept
  <2>4. Retired + 1 + Gap(i, j) = Retired' + 1 + Gap(Base', j)
    <3>1. Gap(Base', j) \in Int
      BY <1>6, SMTT(30) DEF Ranges, Gap, Slots
    <3>2. Retired \in Int /\ Retired' = Retired + 1
      BY <1>6, <1>10, Zenon
    <3> QED
      BY <2>2, <3>1, <3>2, SMT
  <2>5. slot'[j] = slot[j]
    BY <1>1, <2>2, Zenon DEF Pair, IInv, Types
  <2> QED
    BY <2>3, <2>4, <2>5, Zenon
<1>12. Gone'
  <2>1. slot[i] = queued[Retired + 1]
    BY <1>4, <1>6, <1>7, <1>9, SMTT(30) DEF Ranges, Kept, Gap, Slots
  <2>2. slot[i] \in Pkts /\ frees[slot[i]] = 0 /\ frees \in [Pkts -> Nat]
    <3>1. slot \in [Slots -> Pkts \cup {NoSkb}] /\ SlotsLive /\ frees \in [Pkts -> Nat]
      BY Zenon DEF Pair, IInv, Types
    <3>2. slot[i] \in Pkts \cup {NoSkb}
      BY <1>4, <3>1, Zenon
    <3> QED
      BY <1>1, <1>4, <3>1, <3>2, Zenon DEF SlotsLive
  <2>3. frees'[queued[Retired + 1]] = 1
    BY <1>1, <2>1, <2>2, SMTT(30) DEF Free
  <2>4. Lasting
    BY <1>1, FreeLasts, Zenon DEF Pair
  <2>5. Retired \in Int /\ \A k \in 1 .. Retired : queued[k] \in Pkts
    BY RetiredQueued, Zenon DEF Pair
  <2>6. \A k \in 1 .. Retired + 1 : k \in 1 .. Retired \/ k = Retired + 1
    BY <2>5, SMT
  <2> QED
    BY <1>1, <1>7, <1>10, <2>3, <2>4, <2>5, <2>6, Zenon DEF Gone, Lasting
<1>13. Owns' /\ Names' /\ SentInOrder'
  BY <1>1, <1>7, Zenon DEF Owns, Names, SentInOrder, Gap
<1>14. Room' /\ Newest'
  BY <1>1, <1>2, <1>3, <1>7, Zenon DEF Room, Newest, Gap
<1> QED
  BY <1>1, <1>10, <1>11, <1>12, <1>13, <1>14, Zenon DEF Pair, Queue

\* re8670_tx leaves tail where its loop stopped.
LEMMA RecycleEndQueue == ASSUME Pair, NEW s \in Senders, RecycleEnd(s) PROVE Queue'
<1>1. /\ pc[s] = "recycle" /\ tail' = scan[s] /\ Goto(s, "check")
      /\ UNCHANGED <<own, desc, slot, head, cdo, queued, sent, adm, lock, frees>>
  BY Zenon DEF RecycleEnd, hw, dev, hist
<1>2. lock = s /\ Place = "recycle" /\ Place' = "check"
  <2>1. pc[s] \in Critical
    BY <1>1, Zenon DEF Critical
  <2>2. lock = s /\ Place = "recycle"
    BY <1>1, <2>1, AtPlace, Zenon DEF Pair
  <2> QED
    BY <1>1, <2>2, Arrives, Zenon DEF Pair
<1>3. ~Filling /\ ~Filling' /\ Base = scan[s] /\ Base' = scan[s]
  BY <1>1, <1>2, Zenon DEF Filling, Base
<1>4. Edge' = Edge /\ Placed' = Placed
  BY <1>1, <1>3, Zenon DEF Edge, Placed
<1>5. Retired' = Retired
  BY <1>1, <1>3, <1>4, Zenon DEF Retired, Gap
<1>6. Ranges /\ Order /\ Room
  BY PairRanges, Zenon DEF Pair, Queue
<1>7. Order' /\ Room'
  <2>1. Gap(Base, Base) = 0 /\ Gap(tail, Base) \in Nat /\ Gap(Base, head) \in Nat
    <3>1. RING \in Nat /\ tail \in 0 .. RING - 1 /\ Base \in 0 .. RING - 1 /\ head \in 0 .. RING - 1
      BY <1>6, Zenon DEF Ranges
    <3> QED
      BY <3>1, SMT DEF Gap
  <2>2. Gap(tail', Base') = 0 /\ Gap(Base', head') = Gap(Base, head) /\ Gap(tail', head') = Gap(Base, head)
    BY <1>1, <1>3, <2>1, Zenon
  <2>3. Gap(tail, Base) + Gap(Base, head) = Gap(tail, head) /\ Gap(tail, head) <= RING - 2 /\ RING \in Nat
    BY <1>6, Zenon DEF Order, Room, Ranges
  <2>4. Gap(Base, head) <= RING - 2 /\ 0 + Gap(Base, head) = Gap(Base, head)
    BY <2>1, <2>3, SMT
  <2>5. Gap(cdo', Edge') = Gap(cdo, Edge) /\ Gap(Base', cdo') = Gap(Base, cdo) /\ Gap(Base', Edge') = Gap(Base, Edge)
    BY <1>1, <1>3, <1>4, Zenon
  <2>6. Order'
    BY <1>1, <1>5, <1>6, <2>2, <2>4, <2>5, Zenon DEF Order
  <2>7. Room'
    BY <1>2, <2>2, <2>4, Zenon DEF Room
  <2> QED
    BY <2>6, <2>7, Zenon
<1>8. Owns' /\ Names' /\ Kept' /\ Gone' /\ SentInOrder'
  <2>1. Owns' /\ Names'
    BY <1>1, Zenon DEF Pair, Queue, Owns, Names, Gap
  <2>2. Kept'
    BY <1>1, <1>3, <1>5, Zenon DEF Pair, Queue, Kept, Gap
  <2>3. Gone' /\ SentInOrder'
    BY <1>1, <1>5, Zenon DEF Pair, Queue, Gone, SentInOrder
  <2> QED
    BY <2>1, <2>2, <2>3, Zenon
<1>9. Newest'
  BY <1>2, <1>3, Zenon DEF Newest
<1> QED
  BY <1>1, <1>7, <1>8, <1>9, Zenon DEF Pair, Queue

\* apply_to_txdesc writes the address into a descriptor the engine does not
\* own.
LEMMA WriteDescQueue == ASSUME Pair, NEW s \in Senders, WriteDesc(s) PROVE Queue'
<1>1. /\ pc[s] = "check" /\ ~Full /\ Goto(s, "own")
      /\ entry' = [entry EXCEPT ![s] = head] /\ desc' = [desc EXCEPT ![head] = pkt[s]]
      /\ UNCHANGED <<own, slot, head, tail, cdo, queued, sent, adm, lock, frees>>
  BY Zenon DEF WriteDesc, hw, dev, hist
<1>2. lock = s /\ Place = "check" /\ Place' = "own"
  <2>1. pc[s] \in Critical
    BY <1>1, Zenon DEF Critical
  <2>2. lock = s /\ Place = "check"
    BY <1>1, <2>1, AtPlace, Zenon DEF Pair
  <2> QED
    BY <1>1, <2>2, Arrives, Zenon DEF Pair
<1>3. ~Filling /\ ~Filling' /\ Base = tail /\ Base' = tail
  BY <1>1, <1>2, Zenon DEF Filling, Base
<1>4. Edge = head /\ Edge' = Edge /\ Placed' = Placed
  BY <1>1, <1>3, Zenon DEF Edge, Placed
<1>5. Retired' = Retired
  BY <1>1, <1>3, <1>4, Zenon DEF Retired, Gap
<1>6. Ranges /\ Order /\ Room /\ Owns /\ Names
  BY PairRanges, Zenon DEF Pair, Queue
<1>7. Order' /\ Owns' /\ Kept' /\ Gone' /\ SentInOrder'
  BY <1>1, <1>3, <1>4, <1>5, Zenon DEF Pair, Queue, Order, Owns, Kept, Gone, SentInOrder, Gap
<1>8. Room'
  <2>1. Gap(tail, head) <= RING - 3
    BY <1>1, <1>6, AvailIs, SMTT(30) DEF Full, Ranges, Slots, Gap
  <2>2. entry'[s] = head
    BY <1>1, Zenon DEF Pair, IInv, Types
  <2> QED
    BY <1>1, <1>2, <1>6, <2>1, <2>2, Zenon DEF Room, Gap
<1>9. Names'
  <2>1. ~own[head] /\ head \in Slots
    BY <1>4, <1>6, SMTT(30) DEF Owns, Order, Ranges, Slots
  <2>2. \A i \in Slots : own[i] => desc'[i] = desc[i]
    BY <1>1, <2>1, Zenon DEF Pair, IInv, Types
  <2> QED
    BY <1>1, <1>6, <2>2, Zenon DEF Names, Gap
<1>10. Newest'
  BY <1>2, <1>3, Zenon DEF Newest
<1> QED
  BY <1>1, <1>7, <1>8, <1>9, <1>10, Zenon DEF Pair, Queue

\* The word with DescOwn puts the packet at the end of the queue.
LEMMA GiveToHwQueue == ASSUME Pair, NEW s \in Senders, GiveToHw(s) PROVE Queue'
<1>1. /\ pc[s] = "own" /\ Goto(s, "slot")
      /\ own' = [own EXCEPT ![entry[s]] = TRUE] /\ queued' = Append(queued, pkt[s])
      /\ UNCHANGED <<desc, slot, head, tail, cdo, sent, adm, lock, frees, pkt, entry>>
  BY Zenon DEF GiveToHw, hw, dev, local
<1>2. lock = s /\ Place = "own" /\ Place' = "slot"
  <2>1. pc[s] \in Critical
    BY <1>1, Zenon DEF Critical
  <2>2. lock = s /\ Place = "own"
    BY <1>1, <2>1, AtPlace, Zenon DEF Pair
  <2> QED
    BY <1>1, <2>2, Arrives, Zenon DEF Pair
<1>3. ~Filling /\ Filling' /\ Base = tail /\ Base' = tail
  BY <1>1, <1>2, Zenon DEF Filling, Base
<1>4. /\ Len(queued') = Len(queued) + 1 /\ queued'[Len(queued) + 1] = pkt[s]
      /\ \A k \in 1 .. Len(queued) : queued'[k] = queued[k]
  <2>1. queued \in Seq(Pkts)
    BY Zenon DEF Pair, Rest
  <2> QED
    BY <1>1, <2>1, SMTT(30)
<1>5. /\ Edge = head /\ Edge' = (IF head = RING - 1 THEN 0 ELSE head + 1)
      /\ Placed = Len(queued) /\ Placed' = Len(queued)
  <2>1. Edge = head /\ Edge' = NEXT_TX(head)
    BY <1>1, <1>3, Zenon DEF Edge, NEXT_TX
  <2>2. Placed = Len(queued) /\ Placed' = Len(queued') - 1 /\ head \in Slots
    BY <1>3, Zenon DEF Placed, Pair, IInv, Types
  <2>3. Len(queued) \in Nat
    BY PairRanges, Zenon DEF Ranges
  <2> QED
    BY <1>4, <2>1, <2>2, <2>3, NextIs, SMT
<1>6. Ranges /\ Ranges' /\ Order /\ Room /\ Owns /\ Names
  BY PairRanges, Zenon DEF Pair, Queue
<1>7. entry[s] = head /\ Gap(tail, head) <= RING - 3
  BY <1>2, <1>6, Zenon DEF Room
<1>8. Retired' = Retired
  BY <1>1, <1>3, <1>5, Zenon DEF Retired, Gap
<1>9. Order' /\ Room'
  <2>1. /\ RING \in Nat /\ tail \in 0 .. RING - 1 /\ head \in 0 .. RING - 1 /\ cdo \in 0 .. RING - 1
        /\ Len(queued) \in Nat /\ Len(sent) \in Nat
    BY <1>6, Zenon DEF Ranges
  <2>2. Gap(tail, cdo) + Gap(cdo, head) = Gap(tail, head) /\ Len(queued) - Len(sent) = Gap(cdo, head)
    BY <1>3, <1>5, <1>6, Zenon DEF Order
  <2>3. Gap(cdo, Edge') = Gap(cdo, head) + 1 /\ Gap(tail, Edge') = Gap(tail, head) + 1
    BY <1>5, <1>7, <2>1, <2>2, SMTT(30) DEF Gap
  <2>4. Gap(tail, cdo) \in Int /\ Gap(cdo, head) \in Int
    BY <2>1, SMT DEF Gap
  <2>5. Gap(tail, cdo) + (Gap(cdo, head) + 1) = Gap(tail, head) + 1 /\ Len(queued) + 1 - Len(sent) = Gap(cdo, head) + 1
    BY <2>1, <2>2, <2>4, SMT
  <2>6. /\ Gap(tail', Base') + Gap(Base', head') = Gap(tail', head')
        /\ Gap(Base', cdo') + Gap(cdo', Edge') = Gap(Base', Edge')
    <3>1. Gap(tail, Base) + Gap(Base, head) = Gap(tail, head)
      BY <1>6, Zenon DEF Order
    <3>2. head' = head /\ tail' = tail /\ cdo' = cdo /\ Base' = tail /\ Base = tail
      BY <1>1, <1>3, Zenon
    <3>3. Gap(tail', Base') + Gap(Base', head') = Gap(tail', head')
      BY <3>1, <3>2, Zenon
    <3>4. Gap(tail, cdo) + Gap(cdo, Edge') = Gap(tail, Edge')
      BY <2>3, <2>5, Zenon
    <3> QED
      BY <3>2, <3>3, <3>4, Zenon
  <2>7. Len(queued') - Len(sent') = Gap(cdo', Edge') /\ Retired' >= 0
    <3>1. Len(queued') = Len(queued) + 1 /\ sent' = sent /\ cdo' = cdo
      BY <1>1, <1>4, Zenon
    <3>2. Len(queued) + 1 - Len(sent) = Gap(cdo, Edge')
      BY <2>3, <2>5, Zenon
    <3>3. Retired' >= 0
      BY <1>6, <1>8, Zenon DEF Order
    <3> QED
      BY <3>1, <3>2, <3>3, SMT
  <2>8. Room'
    BY <1>1, <1>2, <1>6, <1>7, Zenon DEF Room
  <2> QED
    BY <2>6, <2>7, <2>8, Zenon DEF Order
<1>10. Owns'
  <2>1. SUFFICES ASSUME NEW i \in Slots PROVE own'[i] <=> Gap(cdo, i) < Len(queued) + 1 - Len(sent)
    <3>1. cdo' = cdo /\ sent' = sent /\ Len(queued') = Len(queued) + 1
      BY <1>1, <1>4, Zenon
    <3> QED
      BY <3>1, SMTT(30) DEF Owns, Gap
  <2>2. CASE i = head
    <3>1. own'[i]
      BY <1>1, <1>7, <2>2, Zenon DEF Pair, IInv, Types
    <3> QED
      BY <1>5, <1>6, <2>2, <3>1, SMTT(30) DEF Order, Ranges, Gap
  <2>3. CASE i # head
    <3>1. own'[i] = own[i]
      BY <1>1, <1>7, <2>3, Zenon DEF Pair, IInv, Types
    <3>2. own[i] <=> Gap(cdo, i) < Len(queued) - Len(sent)
      BY <1>6, Zenon DEF Owns
    <3>3. Gap(cdo, i) # Len(queued) - Len(sent) /\ Gap(cdo, i) \in Int
      BY <1>5, <1>6, <2>3, SMTT(30) DEF Order, Ranges, Gap, Slots
    <3>4. Gap(cdo, i) < Len(queued) + 1 - Len(sent) <=> Gap(cdo, i) < Len(queued) - Len(sent)
      <4>1. \A x, m, n \in Int : x # n - m => (x < n + 1 - m <=> x < n - m)
        BY SMT
      <4>2. Len(queued) \in Int /\ Len(sent) \in Int
        BY <1>6, SMT DEF Ranges
      <4> QED
        BY <3>3, <4>1, <4>2, Zenon
    <3> QED
      BY <3>1, <3>2, <3>4, Zenon
  <2> QED
    BY <2>2, <2>3
<1>11. Names'
  <2>1. SUFFICES ASSUME NEW i \in Slots, own'[i] PROVE desc[i] = queued'[Len(sent) + 1 + Gap(cdo, i)]
    BY <1>1, Zenon DEF Names, Gap
  <2>2. CASE i = head
    <3>1. desc[i] = pkt[s]
      BY <1>1, <1>7, <2>2, Zenon DEF Pair, IInv, Written, Writing
    <3>2. Len(sent) + 1 + Gap(cdo, i) = Len(queued) + 1
      BY <1>5, <1>6, <2>2, SMTT(30) DEF Order, Ranges, Gap
    <3> QED
      BY <1>4, <3>1, <3>2, Zenon
  <2>3. CASE i # head
    <3>1. own'[i] = own[i]
      BY <1>1, <1>7, <2>3, Zenon DEF Pair, IInv, Types
    <3>2. desc[i] = queued[Len(sent) + 1 + Gap(cdo, i)] /\ Gap(cdo, i) < Len(queued) - Len(sent)
      BY <1>6, <2>1, <3>1, Zenon DEF Owns, Names
    <3>3. Len(sent) + 1 + Gap(cdo, i) \in 1 .. Len(queued)
      BY <1>6, <3>2, SMTT(30) DEF Ranges, Gap, Slots
    <3> QED
      BY <1>4, <3>2, <3>3, Zenon
  <2> QED
    BY <2>2, <2>3
<1>12. Kept'
  <2>1. SUFFICES ASSUME NEW i \in Slots, Gap(Base, i) < Gap(Base, head)
                 PROVE  slot[i] = queued'[Retired + 1 + Gap(Base, i)]
    BY <1>1, <1>3, <1>8, Zenon DEF Kept, Gap
  <2>2. slot[i] = queued[Retired + 1 + Gap(Base, i)]
    BY <2>1, Zenon DEF Pair, Queue, Kept
  <2>3. Retired + 1 + Gap(Base, i) \in 1 .. Len(queued)
    BY <1>5, <1>6, <2>1, SMTT(30) DEF Ranges, Order, Retired, Gap, Slots
  <2> QED
    BY <1>4, <2>2, <2>3, Zenon
<1>13. Gone'
  <2>1. \A k \in 1 .. Retired : k \in 1 .. Len(queued)
    BY <1>5, <1>6, SMTT(30) DEF Ranges, Order, Retired, Gap
  <2> QED
    BY <1>1, <1>4, <1>8, <2>1, Zenon DEF Pair, Queue, Gone
<1>14. SentInOrder'
  <2>1. Len(sent) <= Len(queued) /\ \A k \in 1 .. Len(sent) : sent[k] = queued[k]
    BY Zenon DEF Pair, Queue, SentInOrder
  <2>2. Len(sent) <= Len(queued) + 1 /\ \A k \in 1 .. Len(sent) : k \in 1 .. Len(queued)
    <3>1. Len(queued) \in Nat /\ Len(sent) \in Nat /\ Len(sent) <= Len(queued)
      BY <1>6, <2>1, Zenon DEF Ranges
    <3> QED
      BY <3>1, SMT
  <2> QED
    BY <1>1, <1>4, <2>1, <2>2, Zenon DEF SentInOrder
<1>15. Newest'
  <2>1. Len(queued') >= 1 /\ queued'[Len(queued')] = pkt'[s]
    <3>1. Len(queued) \in Nat
      BY <1>6, Zenon DEF Ranges
    <3>2. Len(queued) + 1 >= 1
      BY <3>1, SMT
    <3> QED
      BY <1>1, <1>4, <3>2, Zenon
  <2> QED
    BY <1>1, <1>2, <2>1, Zenon DEF Newest
<1> QED
  BY <1>1, <1>9, <1>10, <1>11, <1>12, <1>13, <1>14, <1>15, Zenon DEF Pair, Queue

\* The writer records its packet in a slot that holds none of the others.
LEMMA SetSkbQueue == ASSUME Pair, NEW s \in Senders, SetSkb(s) PROVE Queue'
<1>1. /\ pc[s] = "slot" /\ Goto(s, "head") /\ slot' = [slot EXCEPT ![entry[s]] = pkt[s]]
      /\ UNCHANGED <<own, desc, head, tail, cdo, queued, sent, adm, lock, frees, pkt, entry>>
  BY Zenon DEF SetSkb, hw, dev, local, hist
<1>2. lock = s /\ Place = "slot" /\ Place' = "head"
  <2>1. pc[s] \in Critical
    BY <1>1, Zenon DEF Critical
  <2>2. lock = s /\ Place = "slot"
    BY <1>1, <2>1, AtPlace, Zenon DEF Pair
  <2> QED
    BY <1>1, <2>2, Arrives, Zenon DEF Pair
<1>3. Filling /\ Filling' /\ Base = tail /\ Base' = tail
  BY <1>1, <1>2, Zenon DEF Filling, Base
<1>4. Edge' = Edge /\ Placed' = Placed
  BY <1>1, <1>3, Zenon DEF Edge, Placed, NEXT_TX
<1>5. Retired' = Retired
  BY <1>1, <1>3, <1>4, Zenon DEF Retired, Gap
<1>6. Ranges /\ Room /\ Newest /\ Kept
  BY PairRanges, Zenon DEF Pair, Queue
<1>7. Order' /\ Owns' /\ Names' /\ Gone' /\ SentInOrder'
  BY <1>1, <1>3, <1>4, <1>5, Zenon DEF Pair, Queue, Order, Owns, Names, Gone, SentInOrder, Gap
<1>8. entry[s] = head /\ head \in Slots
  BY <1>2, <1>6, Zenon DEF Room, Pair, IInv, Types
<1>9. Room'
  BY <1>1, <1>2, <1>6, Zenon DEF Room, Gap
<1>10. Newest'
  <2>1. slot'[head] = pkt[s]
    BY <1>1, <1>8, Zenon DEF Pair, IInv, Types
  <2> QED
    BY <1>1, <1>2, <1>3, <1>6, <2>1, Zenon DEF Newest
<1>11. Kept'
  <2>1. \A i \in Slots : i # head => slot'[i] = slot[i]
    BY <1>1, <1>8, Zenon DEF Pair, IInv, Types
  <2>2. \A i \in Slots : Gap(Base, i) < Gap(Base, head) => i # head
    BY <1>6, SMTT(30) DEF Ranges, Gap, Slots
  <2> QED
    BY <1>1, <1>3, <1>5, <1>6, <2>1, <2>2, Zenon DEF Kept, Gap
<1> QED
  BY <1>1, <1>7, <1>9, <1>10, <1>11, Zenon DEF Pair, Queue

\* The head moves over the slot that was filled.
LEMMA PublishQueue == ASSUME Pair, NEW s \in Senders, Publish(s) PROVE Queue'
<1>1. /\ pc[s] = "head" /\ Goto(s, "kick") /\ lock' = NoOne /\ head' = NEXT_TX(entry[s])
      /\ UNCHANGED <<own, desc, slot, tail, cdo, queued, sent, adm, frees>>
  BY Zenon DEF Publish, hw, dev, hist
<1>2. lock = s /\ Place = "head" /\ Place' = "idle"
  <2>1. pc[s] \in Critical
    BY <1>1, Zenon DEF Critical
  <2>2. lock = s /\ Place = "head"
    BY <1>1, <2>1, AtPlace, Zenon DEF Pair
  <2> QED
    BY <1>1, <2>2, Arrives, Zenon DEF Pair
<1>3. Filling /\ ~Filling' /\ Base = tail /\ Base' = tail
  BY <1>1, <1>2, Zenon DEF Filling, Base
<1>4. Ranges /\ Ranges' /\ Room /\ Order /\ Newest /\ Kept /\ Retired \in Int
  BY PairRanges, Zenon DEF Pair, Queue
<1>5. entry[s] = head /\ head \in Slots /\ Gap(tail, head) <= RING - 3
  BY <1>2, <1>4, Zenon DEF Room, Pair, IInv, Types
<1>6. Edge = head' /\ Edge' = head' /\ Placed = Len(queued) - 1 /\ Placed' = Len(queued)
  BY <1>1, <1>3, <1>5, Zenon DEF Edge, Placed
<1>7. head' = IF head = RING - 1 THEN 0 ELSE head + 1
  BY <1>1, <1>5, NextIs, Zenon
<1>8. Gap(Base', head') = Gap(Base, head) + 1
  BY <1>3, <1>4, <1>5, <1>7, SMTT(30) DEF Ranges, Gap
<1>9. Retired' = Retired
  <2>1. Retired = Placed - Gap(Base, head) /\ Retired' = Placed' - Gap(Base', head')
    BY Zenon DEF Retired, Gap
  <2>2. Len(queued) \in Int /\ Gap(Base, head) \in Int
    BY <1>4, SMTT(30) DEF Ranges, Gap
  <2> QED
    BY <1>6, <1>8, <2>1, <2>2, SMT
<1>10. Order' /\ Room'
  <2>1. RING \in Nat /\ tail \in 0 .. RING - 1 /\ head \in 0 .. RING - 1
    BY <1>4, Zenon DEF Ranges
  <2>2. Gap(tail, tail) = 0 /\ Gap(tail, head) \in Nat
    BY <2>1, SMT DEF Gap
  <2>3. Gap(tail, head) + 1 <= RING - 2 /\ 0 + (Gap(tail, head) + 1) = Gap(tail, head) + 1
    BY <1>5, <2>1, <2>2, SMT
  <2>4. Gap(tail', Base') = 0 /\ Gap(Base', head') = Gap(tail, head) + 1 /\ Gap(tail', head') = Gap(tail, head) + 1
    BY <1>1, <1>3, <1>8, <2>2, Zenon
  <2>5. Gap(cdo', Edge') = Gap(cdo, Edge) /\ Gap(Base', cdo') = Gap(Base, cdo) /\ Gap(Base', Edge') = Gap(Base, Edge)
    BY <1>1, <1>3, <1>6, Zenon
  <2>6. Order'
    BY <1>1, <1>4, <1>9, <2>3, <2>4, <2>5, Zenon DEF Order
  <2>7. Room'
    BY <1>2, <2>3, <2>4, Zenon DEF Room
  <2> QED
    BY <2>6, <2>7, Zenon
<1>11. Owns' /\ Names' /\ Gone' /\ SentInOrder'
  BY <1>1, <1>9, Zenon DEF Pair, Queue, Owns, Names, Gone, SentInOrder, Gap
<1>12. Newest'
  BY <1>2, <1>3, Zenon DEF Newest
<1>13. Kept'
  <2>1. SUFFICES ASSUME NEW i \in Slots, Gap(Base, i) < Gap(Base, head) + 1
                 PROVE  slot[i] = queued[Retired + 1 + Gap(Base, i)]
    BY <1>1, <1>3, <1>8, <1>9, Zenon DEF Kept, Gap
  <2>2. CASE i = head
    <3>1. slot[i] = queued[Len(queued)]
      BY <1>2, <1>3, <1>4, <2>2, Zenon DEF Newest
    <3>2. Retired + 1 + Gap(Base, i) = Len(queued)
      BY <1>4, <1>6, <2>2, SMTT(30) DEF Retired, Ranges, Gap
    <3> QED
      BY <3>1, <3>2, Zenon
  <2>3. CASE i # head
    <3>1. Gap(Base, i) < Gap(Base, head)
      BY <1>4, <2>1, <2>3, SMTT(30) DEF Ranges, Gap, Slots
    <3> QED
      BY <1>4, <3>1, Zenon DEF Kept
  <2> QED
    BY <2>2, <2>3
<1> QED
  BY <1>1, <1>10, <1>11, <1>12, <1>13, Zenon DEF Pair, Queue

\* The engine sends the oldest packet it was given and moves on.
LEMMA HwSendQueue == ASSUME Pair, HwSend PROVE Queue'
<1>1. /\ own[cdo] /\ sent' = Append(sent, desc[cdo]) /\ own' = [own EXCEPT ![cdo] = FALSE]
      /\ cdo' = NEXT_TX(cdo)
      /\ UNCHANGED <<desc, slot, head, tail, queued, adm, lock, frees, pc, pkt, entry, scan>>
  BY Zenon DEF HwSend, dev, local
<1>2. Place' = Place /\ Filling' = Filling
  BY <1>1, Zenon DEF Filling, Place
<1>3. Base' = Base /\ Edge' = Edge /\ Placed' = Placed
  BY <1>1, <1>2, Zenon DEF Base, Edge, Placed, NEXT_TX
<1>4. Retired' = Retired
  BY <1>1, <1>3, Zenon DEF Retired, Gap
<1>5. Ranges /\ Ranges' /\ Order /\ Owns /\ Names
  BY PairRanges, Zenon DEF Pair, Queue
<1>6. cdo' = (IF cdo = RING - 1 THEN 0 ELSE cdo + 1) /\ cdo \in Slots
  BY <1>1, NextIs, Zenon DEF Pair, IInv, Types
<1>7. 0 < Len(queued) - Len(sent) /\ desc[cdo] = queued[Len(sent) + 1]
  <2>1. Gap(cdo, cdo) = 0 /\ Len(sent) + 1 + 0 = Len(sent) + 1
    <3>1. RING \in Nat /\ cdo \in 0 .. RING - 1 /\ Len(sent) \in Nat
      BY <1>5, Zenon DEF Ranges
    <3> QED
      BY <3>1, SMT DEF Gap
  <2> QED
    BY <1>1, <1>5, <1>6, <2>1, Zenon DEF Owns, Names
<1>8. /\ Len(sent') = Len(sent) + 1 /\ sent'[Len(sent) + 1] = queued[Len(sent) + 1]
      /\ \A k \in 1 .. Len(sent) : sent'[k] = sent[k]
  <2>1. sent \in Seq(Pkts)
    BY Zenon DEF Pair, Rest
  <2> QED
    BY <1>1, <1>7, <2>1, SMTT(30)
<1>9. Order'
  <2> DEFINE Next1(c, d) == d = (IF c = RING - 1 THEN 0 ELSE c + 1)
             Far(b, c, e) == 0 < Gap(c, e) /\ Gap(b, c) + Gap(c, e) = Gap(b, e)
             Step1(b, c, d, e) == Gap(b, d) + Gap(d, e) = Gap(b, e) /\ Gap(d, e) = Gap(c, e) - 1
  <2>1. ASSUME NEW b \in Slots, NEW c \in Slots, NEW e \in Slots, NEW d, Next1(c, d), Far(b, c, e)
        PROVE  Step1(b, c, d, e)
    BY <2>1, NicTxAssumption, SMTT(30) DEF Gap, Slots
  <2>2. Base \in Slots /\ Edge \in Slots /\ Len(queued) \in Int /\ Len(sent) \in Int
    BY <1>5, SMT DEF Ranges, Slots
  <2>3. Next1(cdo, cdo') /\ Far(Base, cdo, Edge)
    BY <1>5, <1>6, <1>7, Zenon DEF Order
  <2> HIDE DEF Next1, Far, Step1
  <2>4. Step1(Base, cdo, cdo', Edge)
    BY <1>6, <2>1, <2>2, <2>3, Zenon
  <2>5. \A g, n, m \in Int : n - m = g => n - (m + 1) = g - 1
    BY SMT
  <2>6. Len(queued) - (Len(sent) + 1) = Gap(cdo, Edge) - 1
    <3>1. Gap(cdo, Edge) \in Int
      BY <1>5, SMTT(30) DEF Ranges, Gap
    <3> QED
      BY <1>5, <2>2, <2>5, <3>1, Zenon DEF Order
  <2> QED
    BY <1>1, <1>3, <1>4, <1>5, <1>8, <2>4, <2>6, Zenon DEF Order, Gap, Step1
<1>10. Room' /\ Newest'
  BY <1>1, <1>2, Zenon DEF Pair, Queue, Room, Newest, Gap
<1>11. Kept' /\ Gone'
  BY <1>1, <1>3, <1>4, Zenon DEF Pair, Queue, Kept, Gone, Gap
<1>12. SentInOrder'
  <2>1. Len(sent) <= Len(queued) /\ \A k \in 1 .. Len(sent) : sent[k] = queued[k]
    BY Zenon DEF Pair, Queue, SentInOrder
  <2>2. Len(sent) + 1 <= Len(queued) /\ \A k \in 1 .. Len(sent) + 1 : k \in 1 .. Len(sent) \/ k = Len(sent) + 1
    <3>1. \A m, n \in Nat : 0 < n - m => m + 1 <= n /\ \A k \in 1 .. m + 1 : k \in 1 .. m \/ k = m + 1
      BY SMT
    <3> QED
      BY <1>5, <1>7, <3>1, Zenon DEF Ranges
  <2> QED
    BY <1>1, <1>8, <2>1, <2>2, Zenon DEF SentInOrder
<1>13. \A i \in Slots : i # cdo => Gap(cdo', i) = Gap(cdo, i) - 1 /\ own'[i] = own[i]
  <2>0. ASSUME NEW c \in Slots, NEW d, d = (IF c = RING - 1 THEN 0 ELSE c + 1)
        PROVE  \A i \in Slots : i # c => Gap(d, i) = Gap(c, i) - 1
    BY <2>0, NicTxAssumption, SMTT(30) DEF Gap, Slots
  <2>1. \A i \in Slots : i # cdo => Gap(cdo', i) = Gap(cdo, i) - 1
    BY <1>6, <2>0, Zenon
  <2> QED
    BY <1>1, <2>1, Zenon DEF Pair, IInv, Types
<1>14. \A i \in Slots : Gap(cdo, i) \in Int /\ Gap(cdo', i) \in Int
  BY <1>5, <1>6, SMTT(30) DEF Ranges, Gap, Slots
<1>15. ~own'[cdo]
  BY <1>1, <1>6, Zenon DEF Pair, IInv, Types
<1>16. Len(queued) \in Int /\ Len(sent) \in Int
  BY <1>5, SMT DEF Ranges
<1>17. Owns'
  <2>1. SUFFICES ASSUME NEW i \in Slots PROVE own'[i] <=> Gap(cdo', i) < Len(queued) - (Len(sent) + 1)
    BY <1>1, <1>8, Zenon DEF Owns, Gap
  <2>2. CASE i = cdo
    <3>1. ~(Gap(cdo', cdo) < Len(queued) - (Len(sent) + 1))
      BY <1>5, <1>6, SMTT(30) DEF Ranges, Order, Gap
    <3> QED
      BY <1>15, <2>2, <3>1, Zenon
  <2>3. CASE i # cdo
    <3>1. own[i] <=> Gap(cdo, i) < Len(queued) - Len(sent)
      BY <1>5, Zenon DEF Owns
    <3>2. \A x, n, m \in Int : x < n - m <=> x - 1 < n - (m + 1)
      BY SMT
    <3>3. Gap(cdo', i) = Gap(cdo, i) - 1 /\ own'[i] = own[i]
      BY <1>13, <2>3, Zenon
    <3>4. Gap(cdo, i) < Len(queued) - Len(sent) <=> Gap(cdo, i) - 1 < Len(queued) - (Len(sent) + 1)
      BY <1>14, <1>16, <3>2, Zenon
    <3> QED
      BY <3>1, <3>3, <3>4, Zenon
  <2> QED
    BY <2>2, <2>3
<1>18. Names'
  <2>1. SUFFICES ASSUME NEW i \in Slots, own'[i] PROVE desc[i] = queued[Len(sent) + 1 + 1 + Gap(cdo', i)]
    BY <1>1, <1>8, Zenon DEF Names, Gap
  <2>2. i # cdo
    BY <1>15, <2>1
  <2>3. desc[i] = queued[Len(sent) + 1 + Gap(cdo, i)]
    BY <1>5, <1>13, <2>1, <2>2, Zenon DEF Names
  <2>4. \A x, m \in Int : m + 1 + x = m + 1 + 1 + (x - 1)
    BY SMT
  <2> QED
    BY <1>13, <1>14, <1>16, <2>2, <2>3, <2>4, Zenon
<1> QED
  BY <1>1, <1>9, <1>10, <1>11, <1>12, <1>17, <1>18, Zenon DEF Pair, Queue

\* tx_lock is held in the critical section only, also while the interface is
\* closed and re-opened under a sender.
LEMMA StepHeld == ASSUME IInv, Rest, Held, [Next]_vars PROVE Held'
<1>1. ASSUME Aside PROVE Held'
  <2>1. lock # NoOne => Place = pc[lock] /\ Place' = pc'[lock]
    BY <1>1, Zenon DEF Aside, Place
  <2> QED
    BY <1>1, <2>1, Zenon DEF Aside, Held
<1>2. ASSUME UNCHANGED <<lock, pc, local>> PROVE Held'
  BY <1>2, Zenon DEF Held
<1>3. ASSUME NEW s \in Senders, NEW who, Xmit(s, who) PROVE Held'
  <2>1. pc[s] \notin Critical
    BY <1>3, Zenon DEF Xmit, Critical
  <2>2. \A r \in Senders : r # s => pkt'[r] = pkt[r]
    BY <1>3, Zenon DEF Xmit, IInv, Types
  <2>3. Goto(s, "lock") /\ lock' = lock /\ UNCHANGED <<entry, scan>>
    BY <1>3, Zenon DEF Xmit
  <2>4. Aside
    BY <2>1, <2>2, <2>3, Outside, Zenon
  <2> QED
    BY <1>1, <2>4, Zenon
<1>4. ASSUME NEW s \in Senders, DropClosed(s) \/ Kick(s) PROVE Held'
  <2>1. pc[s] \notin Critical
    BY <1>4, Zenon DEF DropClosed, Kick, Critical
  <2>2. Goto(s, "idle") /\ lock' = lock /\ UNCHANGED <<entry, scan, pkt>>
    BY <1>4, Zenon DEF DropClosed, Kick, local
  <2>3. Aside
    BY <2>1, <2>2, Outside, Zenon
  <2> QED
    BY <1>1, <2>3, Zenon
<1>5. ASSUME NEW s \in Senders, NEW x \in Critical, Goto(s, x), lock' = s PROVE Held'
  <2>1. pc'[s] = x
    BY <1>5, Arrives, Zenon
  <2> QED
    BY <1>5, <2>1, Zenon DEF Held
<1>6. ASSUME NEW s \in Senders, pc[s] \in Critical PROVE lock = s
  BY <1>6, AtPlace, Zenon
<1>7. ASSUME NEW s \in Senders, NEW skip, TakeLock(s, skip) PROVE Held'
  <2>1. (IF skip THEN "check" ELSE "recycle") \in Critical
    BY Zenon DEF Critical
  <2> QED
    BY <1>5, <1>7, <2>1, Zenon DEF TakeLock
<1>8. ASSUME NEW s \in Senders, RecycleSlot(s) PROVE Held'
  BY <1>8, Zenon DEF RecycleSlot, Held
<1>9. ASSUME NEW s \in Senders, RecycleEnd(s) \/ WriteDesc(s) \/ GiveToHw(s) \/ SetSkb(s) PROVE Held'
  <2>1. pc[s] \in Critical /\ lock' = lock
    BY <1>9, Zenon DEF RecycleEnd, WriteDesc, GiveToHw, SetSkb, Critical
  <2>2. Goto(s, "check") \/ Goto(s, "own") \/ Goto(s, "slot") \/ Goto(s, "head")
    BY <1>9, Zenon DEF RecycleEnd, WriteDesc, GiveToHw, SetSkb
  <2>3. "check" \in Critical /\ "own" \in Critical /\ "slot" \in Critical /\ "head" \in Critical
    BY Zenon DEF Critical
  <2> QED
    BY <1>5, <1>6, <2>1, <2>2, <2>3, Zenon
<1>10. ASSUME NEW s \in Senders, DropFull(s) \/ DropLength(s) \/ Publish(s) PROVE Held'
  BY <1>10, Zenon DEF DropFull, DropLength, Publish, Held
<1>11. CASE HwSend \/ HwIdle
  BY <1>2, <1>11, Zenon DEF HwSend, HwIdle
<1>12. ASSUME NEW d, TxTimeout(d) \/ CloseOther(d) \/ CloseLast(d) \/ OpenDone(d) PROVE Held'
  BY <1>2, <1>12, Zenon DEF TxTimeout, CloseOther, CloseLast, OpenDone
<1>13. CASE StopHw \/ InitHw \/ InitTrxCdo
  BY <1>2, <1>13, Zenon DEF StopHw, InitHw, InitTrxCdo
<1>14. CASE UNCHANGED vars
  BY <1>2, <1>14, Zenon DEF vars
<1> QED
  BY <1>3, <1>4, <1>7, <1>8, <1>9, <1>10, <1>11, <1>12, <1>13, <1>14, ZenonT(30) DEF Next, Step, Admin

\* Every step but the last close keeps the queue.
LEMMA StepQueue == ASSUME IInv, IInv', Rest, Rest', Held, closes = 0 => Queue, [Next]_vars, closes' = 0
                   PROVE  Queue'
<1>0. ASSUME closes' = closes PROVE Pair
  BY <1>0, Zenon DEF Pair
<1>1. ASSUME UNCHANGED <<lock, pc, local>> PROVE Aside
  BY <1>1, Zenon DEF Aside, Place, local
<1>2. ASSUME frees' = frees PROVE Lasting
  BY <1>2, Zenon DEF Lasting
<1>3. ASSUME Pair PROVE adm = "up"
  BY <1>3, Zenon DEF Pair, Queue
<1>4. ASSUME NEW s \in Senders, NEW who, Xmit(s, who) PROVE Queue'
  <2>1. pc[s] \notin Critical
    BY <1>4, Zenon DEF Xmit, Critical
  <2>2. \A r \in Senders : r # s => pkt'[r] = pkt[r]
    BY <1>4, Zenon DEF Xmit, IInv, Types
  <2>3. Goto(s, "lock") /\ lock' = lock /\ UNCHANGED <<entry, scan>>
    BY <1>4, Zenon DEF Xmit
  <2>4. Aside
    BY <2>1, <2>2, <2>3, Outside, Zenon
  <2>5. UNCHANGED <<ring, cdo, queued, sent, closes, adm, frees>>
    BY <1>4, Zenon DEF Xmit, hw, dev, hist
  <2> QED
    BY <1>0, <1>2, <1>3, <2>4, <2>5, AsideStep, Zenon
<1>5. ASSUME NEW s \in Senders, DropClosed(s) \/ Kick(s) PROVE Queue'
  <2>1. pc[s] \notin Critical
    BY <1>5, Zenon DEF DropClosed, Kick, Critical
  <2>2. Goto(s, "idle") /\ lock' = lock /\ UNCHANGED <<entry, scan, pkt>>
    BY <1>5, Zenon DEF DropClosed, Kick, local
  <2>3. Aside
    BY <2>1, <2>2, Outside, Zenon
  <2>4. UNCHANGED <<ring, cdo, queued, sent, closes, adm>> /\ (Free(pkt[s]) \/ frees' = frees)
    BY <1>5, Zenon DEF DropClosed, Kick, hw, dev, hist
  <2>5. Lasting
    BY <1>2, <2>4, FreeLasts, Zenon
  <2> QED
    BY <1>0, <1>3, <2>3, <2>4, <2>5, AsideStep, Zenon
<1>6. ASSUME NEW s \in Senders, NEW skip, TakeLock(s, skip) PROVE Queue'
  BY <1>0, <1>6, TakeLockQueue, Zenon DEF TakeLock, dev
<1>7. ASSUME NEW s \in Senders, RecycleSlot(s) PROVE Queue'
  BY <1>0, <1>7, RecycleSlotQueue, Zenon DEF RecycleSlot, dev
<1>8. ASSUME NEW s \in Senders, RecycleEnd(s) PROVE Queue'
  BY <1>0, <1>8, RecycleEndQueue, Zenon DEF RecycleEnd, dev
<1>9. ASSUME NEW s \in Senders, DropFull(s) \/ DropLength(s) PROVE Queue'
  BY <1>0, <1>9, DropQueue, Zenon DEF DropFull, DropLength, dev
<1>10. ASSUME NEW s \in Senders, WriteDesc(s) PROVE Queue'
  BY <1>0, <1>10, WriteDescQueue, Zenon DEF WriteDesc, dev
<1>11. ASSUME NEW s \in Senders, GiveToHw(s) PROVE Queue'
  BY <1>0, <1>11, GiveToHwQueue, Zenon DEF GiveToHw, dev
<1>12. ASSUME NEW s \in Senders, SetSkb(s) PROVE Queue'
  BY <1>0, <1>12, SetSkbQueue, Zenon DEF SetSkb, dev
<1>13. ASSUME NEW s \in Senders, Publish(s) PROVE Queue'
  BY <1>0, <1>13, PublishQueue, Zenon DEF Publish, dev
<1>14. CASE HwSend
  BY <1>0, <1>14, HwSendQueue, Zenon DEF HwSend, dev
<1>15. ASSUME UNCHANGED <<lock, pc, local, ring, cdo, queued, sent, frees, closes>>, adm' = "up"
       PROVE  Queue'
  BY <1>0, <1>1, <1>2, <1>15, AsideStep, Zenon
<1>16. CASE HwIdle
  BY <1>0, <1>3, <1>15, <1>16, Zenon DEF HwIdle, dev, hist
<1>17. ASSUME NEW d, TxTimeout(d) PROVE Queue'
  BY <1>0, <1>3, <1>15, <1>17, Zenon DEF TxTimeout, hw, dev, hist
<1>18. ASSUME NEW d, CloseOther(d) \/ OpenDone(d) PROVE Queue'
  BY <1>0, <1>3, <1>15, <1>18, Zenon DEF CloseOther, OpenDone, hw, hist
<1>19. ASSUME NEW d PROVE ~CloseLast(d)
  <2>1. closes \in Nat
    BY NicTxAssumption, SMT DEF Rest
  <2>2. closes + 1 # 0
    BY <2>1, SMT
  <2> QED
    BY <2>2, Zenon DEF CloseLast
<1>20. ~StopHw /\ ~InitHw /\ ~InitTrxCdo
  BY <1>0, <1>3, Zenon DEF StopHw, InitHw, InitTrxCdo
<1>21. CASE UNCHANGED vars
  BY <1>0, <1>3, <1>15, <1>21, Zenon DEF vars, hw, dev, hist
<1> QED
  BY <1>4, <1>5, <1>6, <1>7, <1>8, <1>9, <1>10, <1>11, <1>12, <1>13, <1>14, <1>16, <1>17, <1>18,
     <1>19, <1>20, <1>21, ZenonT(30) DEF Next, Step, Admin

\* The idle ring is an empty queue.
LEMMA InitQueue == Init => QInv
<1> SUFFICES ASSUME Init PROVE QInv
  OBVIOUS
<1>1. /\ lock = NoOne /\ adm = "up" /\ head = START /\ tail = START /\ cdo = START
      /\ own = [i \in Slots |-> FALSE] /\ queued = <<>> /\ sent = <<>>
  BY Zenon DEF Init
<1>2. Place = "idle" /\ ~Filling /\ Base = START /\ Edge = START
  BY <1>1, Zenon DEF Place, Filling, Base, Edge
<1>3. /\ Len(queued) = 0 /\ Len(sent) = 0 /\ Placed = 0 /\ START \in Slots
      /\ Gap(START, START) = 0 /\ Retired = 0 /\ RING \in Nat \ {0, 1}
  BY <1>1, <1>2, NicTxAssumption, SMT DEF Placed, Retired, Gap, Slots
<1>4. Room /\ Order
  BY <1>1, <1>2, <1>3, SMT DEF Room, Order
<1>5. \A i \in Slots : ~(Gap(START, i) < 0)
  BY <1>3, SMT DEF Gap, Slots
<1>6. Owns
  BY <1>1, <1>3, <1>5, SMT DEF Owns
<1>7. Names
  BY <1>1, Zenon DEF Names
<1>8. Kept
  BY <1>1, <1>2, <1>3, <1>5, Zenon DEF Kept
<1>9. Gone /\ SentInOrder
  BY <1>3, SMT DEF Gone, SentInOrder
<1>10. Newest /\ Held
  BY <1>1, <1>2, Zenon DEF Newest, Held
<1> QED
  BY <1>1, <1>4, <1>6, <1>7, <1>8, <1>9, <1>10, Zenon DEF QInv, Queue

\* The queue invariant holds in every behaviour.
LEMMA AlwaysQueue == Spec => [](IInv /\ Rest /\ QInv)
<1>1. IInv /\ Rest /\ IInv' /\ Rest' /\ QInv /\ [Next]_vars => QInv'
  BY StepHeld, StepQueue, Zenon DEF QInv
<1> QED
  BY <1>1, AlwaysTyped, InitQueue, PTL DEF Spec

\* Until the last device is closed the ring is a FIFO between the sending CPUs
\* and the wire, for every ring size and every interleaving of the senders and
\* the engine: packets are sent in the order they were queued, none skipped
\* or repeated.
THEOREM SentInOrderHolds == Spec => [](closes = 0 => SentInOrder)
<1>1. QInv => (closes = 0 => SentInOrder)
  BY Zenon DEF QInv, Queue
<1> QED
  BY <1>1, AlwaysQueue, PTL

\* Until the last device is closed every packet that was queued is found again
\* when tx_lock is free: in its slot between tail and head, or freed.
THEOREM NothingLeaksHolds == Spec => [](closes = 0 => NothingLeaks)
<1>1. ASSUME IInv, Rest, QInv, closes = 0, lock = NoOne, NEW k \in 1 .. Len(queued), frees[queued[k]] # 1
      PROVE  \E i \in Slots : slot[i] = queued[k] /\ (i - tail) % RING < (head - tail) % RING
  <2>1. Kept /\ Gone /\ Order /\ Ranges /\ Retired \in Int
    BY <1>1, InRange, RetiredQueued, Zenon DEF QInv, Queue
  <2>2. Base = tail /\ Placed = Len(queued)
    BY <1>1, Zenon DEF Base, Placed, Filling, Place
  <2>3. k > Retired
    BY <1>1, <2>1, SMT DEF Gone
  <2> DEFINE g == k - 1 - Retired
             i == IF tail + g < RING THEN tail + g ELSE tail + g - RING
  <2>4. g \in Nat /\ g < Gap(tail, head)
    BY <2>1, <2>2, <2>3, SMTT(30) DEF Ranges, Retired, Gap
  <2> HIDE DEF g
  <2>5. i \in Slots /\ Gap(tail, i) = g
    BY <2>1, <2>4, SMTT(30) DEF Ranges, Gap, Slots
  <2>6. Retired + 1 + g = k
    BY <2>1, SMT DEF g
  <2>7. slot[i] = queued[k]
    BY <2>1, <2>2, <2>4, <2>5, <2>6, Zenon DEF Kept
  <2>8. head \in Slots /\ tail \in Slots
    BY <1>1, Zenon DEF IInv, Types
  <2>9. (i - tail) % RING < (head - tail) % RING
    BY <2>4, <2>5, <2>8, GapIs, Zenon
  <2> QED
    BY <2>5, <2>7, <2>9, Zenon
<1>2. IInv /\ Rest /\ QInv => (closes = 0 => NothingLeaks)
  BY <1>1, Zenon DEF NothingLeaks
<1> QED
  BY <1>2, AlwaysQueue, PTL
=============================================================================
