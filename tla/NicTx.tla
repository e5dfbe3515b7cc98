-------------------------------- MODULE NicTx --------------------------------
(***************************************************************************)
(* Transmission in the GMAC driver (nicDriver/re8686_rtl9607c.c): one      *)
(* transmit ring shared by the CPUs that send and the DMA engine, with the *)
(* recycling of sent buffers, the stopping and waking of the net devices'  *)
(* queues, and the opening and closing of the devices.                     *)
(*                                                                         *)
(* The build has no transmit interrupt and no recycle timer: sent buffers  *)
(* are freed by the next sender (checkTXDesc), under the ring's tx_lock.   *)
(* A descriptor is its packet and its DescOwn bit.  Packets are numbered   *)
(* as they are handed to the driver and have no fragments.                 *)
(***************************************************************************)
EXTENDS Integers, Sequences, FiniteSets

CONSTANTS
    Senders,    \* contexts that transmit, each at most one packet at a time
    RING,       \* re8670_tx_ring_size, a power of two
    WAKE,       \* MAX_SKB_FRAGS + 1
    START,      \* packets sent and recycled before the model begins, modulo RING
    MaxPkts,    \* bound: packets handed to the driver
    MaxCloses,  \* bound: how often the last device is closed
    NoOne

Devs == {"root", "sub"}      \* ROOTDEV and one port device
Slots == 0 .. RING - 1
Pkts == 1 .. MaxPkts
NoSkb == 0

ASSUME NicTxAssumption ==
    /\ RING \in Nat \ {0, 1} /\ START \in Slots /\ WAKE \in Nat /\ MaxPkts \in Nat /\ MaxCloses \in Nat
    /\ NoOne \notin Senders

VARIABLES
    own, desc,      \* tx_Mhqring: DescOwn and the packet addressed
    slot,           \* tx_skb[].skb
    head, tail,     \* tx_Mhqhead, tx_Mhqtail
    lock,           \* tx_lock
    eth_close,
    stopped,        \* per device: its queue is stopped
    up, adm,        \* devices that are open (dev_num of them); open/close in progress
    hwOn, kicked, cdo,  \* the engine: enabled, told to poll, current descriptor
    pc, pkt, from, entry, scan, \* per sender: place, packet, device, slot, tx_tail
    nextPkt, closes,
    frees,          \* how often each packet has been freed
    queued, sent    \* packets given to the engine, packets it has put on the wire

ring == <<own, desc, slot, head, tail>>
hw == <<hwOn, kicked, cdo>>
dev == <<eth_close, up, adm, closes>>
local == <<pkt, from, entry, scan>>
hist == <<frees, queued, sent>>
vars == <<ring, lock, stopped, hw, dev, pc, local, nextPkt, hist>>

\* Mutant: the index is not masked.
MutNEXT_TX(n) == n + 1

NEXT_TX(n) == (n + 1) % RING
TX_HQBUFFS_AVAIL(t, h) == (t - h + RING - 1) % RING

\* The ring is idle: START is 0 after re8670_init_trx_cdo, any slot later.
Init ==
    /\ own = [i \in Slots |-> FALSE] /\ desc = [i \in Slots |-> NoSkb]
    /\ slot = [i \in Slots |-> NoSkb] /\ head = START /\ tail = START
    /\ lock = NoOne /\ eth_close = FALSE
    /\ stopped = [d \in Devs |-> FALSE]
    /\ up = Devs /\ adm = "up" /\ closes = 0
    /\ hwOn = TRUE /\ kicked = FALSE /\ cdo = START
    /\ pc = [s \in Senders |-> "idle"]
    /\ pkt = [s \in Senders |-> NoSkb] /\ from = [s \in Senders |-> "fc"]
    /\ entry = [s \in Senders |-> 0] /\ scan = [s \in Senders |-> 0]
    /\ nextPkt = 1
    /\ frees = [p \in Pkts |-> 0] /\ queued = <<>> /\ sent = <<>>

Free(p) == frees' = [frees EXCEPT ![p] = @ + 1]
Goto(s, place) == pc' = [pc EXCEPT ![s] = place]

\* The device whose queue a sender stops: its own for the network stack
\* (start_xmit_txInfo), ROOTDEV for the flow accelerator (send_with_txInfo).
StopDev(s) == IF from[s] = "fc" THEN "root" ELSE from[s]

-----------------------------------------------------------------------------
(* A sender.                                                               *)

\* The stack calls down on a device that is up and not stopped; the flow
\* accelerator calls in whenever it has a packet.
Xmit(s, who) ==
    /\ pc[s] = "idle" /\ nextPkt \in Pkts
    /\ who # "fc" => who \in up /\ ~stopped[who]
    /\ pkt' = [pkt EXCEPT ![s] = nextPkt]
    /\ from' = [from EXCEPT ![s] = who]
    /\ nextPkt' = nextPkt + 1
    /\ Goto(s, "lock")
    /\ UNCHANGED <<ring, lock, stopped, hw, dev, entry, scan, hist>>

\* tx_lock, and the drop of a packet for a closed interface
DropClosed(s) ==
    /\ pc[s] = "lock" /\ lock = NoOne /\ eth_close
    /\ Free(pkt[s]) /\ Goto(s, "idle")
    /\ UNCHANGED <<ring, lock, stopped, hw, dev, local, nextPkt, queued, sent>>

\* Mutant: tx_lock is not taken.
MutTakeLock(s, skip) ==
    /\ pc[s] = "lock" /\ ~eth_close
    /\ lock' = s
    /\ scan' = [scan EXCEPT ![s] = tail]
    /\ Goto(s, IF skip THEN "check" ELSE "recycle")
    /\ UNCHANGED <<ring, stopped, hw, dev, pkt, from, entry, nextPkt, hist>>

\* checkTXDesc enters re8670_tx, or finds lock_tx_tail taken by the sender of
\* another GMAC and skips it.
TakeLock(s, skip) ==
    /\ pc[s] = "lock" /\ lock = NoOne /\ ~eth_close
    /\ lock' = s
    /\ scan' = [scan EXCEPT ![s] = tail]
    /\ Goto(s, IF skip THEN "check" ELSE "recycle")
    /\ UNCHANGED <<ring, stopped, hw, dev, pkt, from, entry, nextPkt, hist>>

\* The loop condition of re8670_tx and its breaks.
Reclaimable(i) == ~own[i] /\ i # head /\ slot[i] # NoSkb

\* Mutant: the slot keeps the pointer to the freed buffer.
MutRecycleSlot(s) ==
    LET i == scan[s]
    IN  /\ pc[s] = "recycle" /\ Reclaimable(i)
        /\ Free(slot[i])
        /\ scan' = [scan EXCEPT ![s] = NEXT_TX(i)]
        /\ UNCHANGED <<ring, lock, stopped, hw, dev, pc, pkt, from, entry, nextPkt,
                       queued, sent>>

RecycleSlot(s) ==
    LET i == scan[s]
    IN  /\ pc[s] = "recycle" /\ Reclaimable(i)
        /\ Free(slot[i])
        /\ slot' = [slot EXCEPT ![i] = NoSkb]
        /\ scan' = [scan EXCEPT ![s] = NEXT_TX(i)]
        /\ UNCHANGED <<own, desc, head, tail, lock, stopped, hw, dev, pc, pkt, from,
                       entry, nextPkt, queued, sent>>

RecycleEnd(s) ==
    /\ pc[s] = "recycle" /\ ~Reclaimable(scan[s])
    /\ tail' = scan[s]
    /\ stopped' = [stopped EXCEPT !["root"] =
                     @ /\ ~(TX_HQBUFFS_AVAIL(scan[s], head) > WAKE)]
    /\ Goto(s, "check")
    /\ UNCHANGED <<own, desc, slot, head, lock, hw, dev, local, nextPkt, hist>>

\* TX_HQBUFFS_AVAIL <= nr_frags + 1
Full == TX_HQBUFFS_AVAIL(tail, head) <= 1

\* No descriptor: kick, drop, stop the queue.
DropFull(s) ==
    /\ pc[s] = "check" /\ Full
    /\ Free(pkt[s])
    /\ stopped' = [stopped EXCEPT ![StopDev(s)] = TRUE]
    /\ kicked' = hwOn
    /\ lock' = NoOne /\ Goto(s, "idle")
    /\ UNCHANGED <<ring, hwOn, cdo, dev, local, nextPkt, queued, sent>>

\* Shorter than a header, or longer than the hardware takes.
DropLength(s) ==
    /\ pc[s] = "check" /\ ~Full
    /\ Free(pkt[s])
    /\ lock' = NoOne /\ Goto(s, "idle")
    /\ UNCHANGED <<ring, stopped, hw, dev, local, nextPkt, queued, sent>>

\* Mutant: apply_to_txdesc writes opts1 first.
MutWriteDesc(s) ==
    /\ pc[s] = "check" /\ ~Full
    /\ entry' = [entry EXCEPT ![s] = head]
    /\ own' = [own EXCEPT ![head] = TRUE]
    /\ Goto(s, "own")
    /\ UNCHANGED <<desc, slot, head, tail, lock, stopped, hw, dev, pkt, from, scan, nextPkt, hist>>

\* apply_to_txdesc: the address first, the word with DescOwn last.
WriteDesc(s) ==
    /\ pc[s] = "check" /\ ~Full
    /\ entry' = [entry EXCEPT ![s] = head]
    /\ desc' = [desc EXCEPT ![head] = pkt[s]]
    /\ Goto(s, "own")
    /\ UNCHANGED <<own, slot, head, tail, lock, stopped, hw, dev, pkt, from, scan, nextPkt, hist>>

GiveToHw(s) ==
    /\ pc[s] = "own"
    /\ own' = [own EXCEPT ![entry[s]] = TRUE]
    /\ queued' = Append(queued, pkt[s])
    /\ Goto(s, "slot")
    /\ UNCHANGED <<desc, slot, head, tail, lock, stopped, hw, dev, local, nextPkt, frees, sent>>

SetSkb(s) ==
    /\ pc[s] = "slot"
    /\ slot' = [slot EXCEPT ![entry[s]] = pkt[s]]
    /\ Goto(s, "head")
    /\ UNCHANGED <<own, desc, head, tail, lock, stopped, hw, dev, local, nextPkt, hist>>

\* The head moves, the accelerator's path stops the queue early, tx_lock is
\* released.
Publish(s) ==
    /\ pc[s] = "head"
    /\ head' = NEXT_TX(entry[s])
    /\ stopped' = [stopped EXCEPT !["root"] =
                     @ \/ (from[s] = "fc" /\ TX_HQBUFFS_AVAIL(tail, NEXT_TX(entry[s])) <= 1)]
    /\ lock' = NoOne
    /\ Goto(s, "kick")
    /\ UNCHANGED <<own, desc, slot, tail, hw, dev, local, nextPkt, hist>>

\* Mutant: the engine is not told.
MutKick(s) ==
    /\ pc[s] = "kick" /\ Goto(s, "idle")
    /\ UNCHANGED <<ring, lock, stopped, hw, dev, local, nextPkt, hist>>

\* kick_tx, after tx_lock is released
Kick(s) ==
    /\ pc[s] = "kick"
    /\ kicked' = hwOn
    /\ Goto(s, "idle")
    /\ UNCHANGED <<ring, lock, stopped, hwOn, cdo, dev, local, nextPkt, hist>>

-----------------------------------------------------------------------------
(* The engine, the kernel's transmit watchdog, and open and close.         *)

HwSend ==
    /\ hwOn /\ kicked /\ own[cdo]
    /\ sent' = Append(sent, desc[cdo])
    /\ own' = [own EXCEPT ![cdo] = FALSE]
    /\ cdo' = NEXT_TX(cdo)
    /\ UNCHANGED <<desc, slot, head, tail, lock, stopped, hwOn, kicked, dev, pc, local,
                   nextPkt, frees, queued>>

\* The poll bit clears at a descriptor the engine does not own.
HwIdle ==
    /\ hwOn /\ kicked /\ ~own[cdo]
    /\ kicked' = FALSE
    /\ UNCHANGED <<ring, lock, stopped, hwOn, cdo, dev, pc, local, nextPkt, hist>>

\* Mutant: the watchdog handler wakes ROOTDEV only.
MutTxTimeout(d) ==
    /\ d \in up /\ stopped[d]
    /\ stopped' = [stopped EXCEPT !["root"] = FALSE]
    /\ UNCHANGED <<ring, lock, hw, dev, pc, local, nextPkt, hist>>

\* re8670_tx_timeout
TxTimeout(d) ==
    /\ d \in up /\ stopped[d]
    /\ stopped' = [stopped EXCEPT ![d] = FALSE]
    /\ UNCHANGED <<ring, lock, hw, dev, pc, local, nextPkt, hist>>

\* re8670_close of a device that is not the last: dev_num-- and no more.
CloseOther(d) ==
    /\ adm = "up" /\ d \in up /\ up # {d} /\ closes < MaxCloses
    /\ up' = up \ {d}
    /\ UNCHANGED <<ring, lock, stopped, hw, eth_close, adm, closes, pc, local, nextPkt, hist>>

CloseLast(d) ==
    /\ adm = "up" /\ up = {d} /\ closes < MaxCloses
    /\ up' = {} /\ closes' = closes + 1
    /\ stopped' = [stopped EXCEPT ![d] = TRUE]
    /\ eth_close' = TRUE
    /\ adm' = "closing"
    /\ UNCHANGED <<ring, lock, hw, pc, local, nextPkt, hist>>

\* re8670_stop_hw resets the indices without tx_lock.
StopHw ==
    /\ adm = "closing"
    /\ hwOn' = FALSE /\ kicked' = FALSE
    /\ head' = 0 /\ tail' = 0
    /\ adm' = "down"
    /\ UNCHANGED <<own, desc, slot, lock, stopped, cdo, eth_close, up, closes, pc, local,
                   nextPkt, hist>>

\* re8670_open of the first device: re8670_init_hw starts the engine at
\* descriptor 0; DescOwn bits and skb slots are left as they were.
InitHw ==
    /\ adm = "down"
    /\ hwOn' = TRUE /\ cdo' = 0
    /\ adm' = "opening"
    /\ UNCHANGED <<ring, lock, stopped, kicked, eth_close, up, closes, pc, local, nextPkt, hist>>

InitTrxCdo ==
    /\ adm = "opening"
    /\ head' = 0 /\ tail' = 0
    /\ adm' = "opened"
    /\ UNCHANGED <<own, desc, slot, lock, stopped, hw, eth_close, up, closes, pc, local,
                   nextPkt, hist>>

\* The end of re8670_open, for the first device and for any other.
OpenDone(d) ==
    /\ d \notin up /\ (adm = "opened" \/ (adm = "up" /\ up # {}))
    /\ eth_close' = FALSE
    /\ stopped' = [stopped EXCEPT ![d] = FALSE]
    /\ up' = up \cup {d}
    /\ adm' = "up"
    /\ UNCHANGED <<ring, lock, hw, closes, pc, local, nextPkt, hist>>

-----------------------------------------------------------------------------
\* What a sender does once it has a packet.
Step(s) ==
    \/ DropClosed(s) \/ \E skip \in BOOLEAN : TakeLock(s, skip)
    \/ RecycleSlot(s) \/ RecycleEnd(s)
    \/ DropFull(s) \/ DropLength(s)
    \/ WriteDesc(s) \/ GiveToHw(s) \/ SetSkb(s) \/ Publish(s) \/ Kick(s)

Admin ==
    \/ \E d \in Devs : CloseOther(d) \/ CloseLast(d) \/ OpenDone(d)
    \/ StopHw \/ InitHw \/ InitTrxCdo

Next ==
    \/ \E s \in Senders : Step(s) \/ \E who \in Devs \cup {"fc"} : Xmit(s, who)
    \/ HwSend \/ HwIdle
    \/ \E d \in Devs : TxTimeout(d)
    \/ Admin

Spec == Init /\ [][Next]_vars

\* A sender runs with bottom halves off and tx_lock is held for a bounded
\* time; the engine serves its ring while it is kicked; the kernel's watchdog
\* calls re8670_tx_timeout for a device that is up and stays stopped.
FairSpec ==
    /\ Spec
    /\ \A s \in Senders : SF_vars(Step(s))
    /\ WF_vars(HwSend \/ HwIdle)
    /\ \A d \in Devs : WF_vars(TxTimeout(d))

-----------------------------------------------------------------------------
(* Properties.                                                             *)

Places == {"idle", "lock", "recycle", "check", "own", "slot", "head", "kick"}

\* Every variable of the driver and of the engine keeps its type.
TypeOK ==
    /\ own \in [Slots -> BOOLEAN] /\ desc \in [Slots -> Pkts \cup {NoSkb}]
    /\ slot \in [Slots -> Pkts \cup {NoSkb}] /\ head \in Slots /\ tail \in Slots
    /\ lock \in Senders \cup {NoOne} /\ eth_close \in BOOLEAN
    /\ stopped \in [Devs -> BOOLEAN] /\ up \in SUBSET Devs
    /\ adm \in {"up", "closing", "down", "opening", "opened"}
    /\ hwOn \in BOOLEAN /\ kicked \in BOOLEAN /\ cdo \in Slots
    /\ pc \in [Senders -> Places] /\ pkt \in [Senders -> Pkts \cup {NoSkb}]
    /\ from \in [Senders -> Devs \cup {"fc"}]
    /\ entry \in [Senders -> Slots] /\ scan \in [Senders -> Slots]
    /\ nextPkt \in 1 .. MaxPkts + 1 /\ closes \in 0 .. MaxCloses
    /\ frees \in [Pkts -> Nat] /\ queued \in Seq(Pkts) /\ sent \in Seq(Pkts)

\* The engine never reads a freed buffer, also across a close that leaves
\* descriptors behind and a re-open that starts at descriptor 0 again: a
\* descriptor with DescOwn set names a packet that has not been freed.
NoUseAfterFree == \A i \in Slots : own[i] => desc[i] \in Pkts /\ frees[desc[i]] = 0

\* No packet is freed twice, by a drop and by recycling or by two senders.
FreedOnce == \A p \in Pkts : frees[p] <= 1

\* The ring is a FIFO between the sending CPUs and the wire: what was sent is
\* what was queued, in order, with nothing skipped or repeated, wherever the
\* indices wrap.
SentInOrder ==
    /\ Len(sent) <= Len(queued)
    /\ \A i \in 1 .. Len(sent) : sent[i] = queued[i]

\* While nobody is inside the driver every packet that was queued is in the
\* ring between tail and head or has been freed: none is lost or leaked.
NothingLeaks ==
    lock = NoOne =>
      \A k \in 1 .. Len(queued) :
        \/ frees[queued[k]] = 1
        \/ \E i \in Slots : slot[i] = queued[k] /\ (i - tail) % RING < (head - tail) % RING

\* A queue that the driver stopped, of ROOTDEV or of a port device, is woken
\* again although the build has no transmit interrupt.
QueueWakes == \A d \in Devs : stopped[d] ~> ~stopped[d]

\* A packet given to the engine goes out.
QueuedIsSent == \A n \in 1 .. MaxPkts : Len(queued) >= n ~> Len(sent) >= n
=============================================================================
