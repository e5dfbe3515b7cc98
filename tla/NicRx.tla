-------------------------------- MODULE NicRx --------------------------------
(***************************************************************************)
(* Reception in the GMAC driver (nicDriver/re8686_rtl9607c.c): the receive *)
(* rings that the DMA engine fills, the interrupt handler, the NAPI poll   *)
(* with its priorities between rings, the assembly of jumbo frames, the    *)
(* software pause, and the opening and closing of the devices.             *)
(*                                                                         *)
(* A descriptor is the fragment the engine left in it, or NoFrame while    *)
(* DescOwn is set.  ISR1 has one bit for each ring with a frame, ISR one   *)
(* for each ring without a descriptor.  A fragment is its frame's number,  *)
(* its place in the frame and its kind (FS and LS bits, error bits).       *)
(***************************************************************************)
EXTENDS Integers, Sequences, FiniteSets

CONSTANTS
    Gmacs,          \* GMAC numbers
    NR,             \* MAX_RXRING_NUM
    RING,           \* re8670_rx_ring_size: a size for each ring
    BUDGET,         \* napi_budget
    JUMBO_FRAGS,    \* fragments that no longer fit in JUMBO_SKB_BUF_SIZE
    JumboRings,     \* rings that the switch sends jumbo frames to
    PauseEnabled,   \* rx_pause_by_software_enable
    MayExpire,      \* whether a poll may last more than two seconds
    MaxFrames,      \* bound: frames that arrive
    MaxCloses       \* bound: how often the last device is closed

Rings == 0 .. NR - 1
Slots(r) == 0 .. RING[r] - 1
Frames == 1 .. MaxFrames
NoFrame == [of |-> 0, part |-> 0, kind |-> "none"]

ASSUME NicRxAssumption ==
    /\ Gmacs \subseteq Nat /\ NR \in Nat \ {0, 1} /\ RING \in [Rings -> Nat \ {0}]
    /\ BUDGET \in Nat \ {0} /\ JUMBO_FRAGS \in Nat \ {0, 1} /\ JumboRings \subseteq Rings
    /\ PauseEnabled \in BOOLEAN /\ MayExpire \in BOOLEAN
    /\ MaxFrames \in Nat /\ MaxCloses \in Nat

VARIABLES
    rx,             \* rx_Mring: the descriptors
    zero,           \* descriptors handed to the engine with a buffer size of 0
    buf,            \* rx_skb[].skb: the buffer of each descriptor
    cdo, inframe, hwOn,     \* the engine: next descriptor, frame it is in, on
    isr1, rdu, sw, mask,    \* ISR1, the RDU bits and SW_INT of ISR, IMR
    tail,           \* rx_Mtail
    seen,           \* the rings that isr_status and isr1_status name
    rx_ring_backup, \* one static variable for all GMACs
    napi,
    pc, work, idx, ring_num, rxtail, left, cnt, sized,  \* locals of re8670_rx
    jumbo,          \* fragments in jumboFrame; jumboLength is 0 when there is none
    paused, timer,  \* rx_pause_by_software_bitmap and its timer
    adm, eth_close, closes,
    nextFrame,
    up              \* what re8670_rx_software was given: ring, fragments, buffer

engine == <<cdo, inframe, hwOn>>
irq == <<isr1, rdu, sw, mask>>
local == <<work, idx, ring_num, rxtail, left, cnt, sized>>
pause == <<paused, timer>>
dev == <<adm, eth_close, closes>>
vars == <<rx, zero, buf, engine, irq, tail, seen, rx_ring_backup, napi, pc, local, jumbo,
          pause, dev, nextFrame, up>>

\* Mutant: the index is not taken modulo the ring's size.
MutNEXT_RX(n, r) == n + 1

NEXT_RX(n, r) == (n + 1) % RING[r]
pri_map(i) == IF i = 0 THEN NR - 1 ELSE i - 1
higherq(r) == {q \in Rings : q > r}

Init ==
    /\ rx = [g \in Gmacs |-> [r \in Rings |-> [i \in Slots(r) |-> NoFrame]]]
    /\ zero = [g \in Gmacs |-> {}]
    /\ buf = [g \in Gmacs |-> [r \in Rings |-> [i \in Slots(r) |-> <<"ring", r, i>>]]]
    /\ cdo = [g \in Gmacs |-> [r \in Rings |-> 0]]
    /\ inframe = [g \in Gmacs |-> [r \in Rings |-> NoFrame]]
    /\ hwOn = [g \in Gmacs |-> TRUE]
    /\ isr1 = [g \in Gmacs |-> {}] /\ rdu = [g \in Gmacs |-> {}]
    /\ sw = [g \in Gmacs |-> FALSE] /\ mask = [g \in Gmacs |-> FALSE]
    /\ tail = [g \in Gmacs |-> [r \in Rings |-> 0]]
    /\ seen = [g \in Gmacs |-> {}] /\ rx_ring_backup = {}
    /\ napi = [g \in Gmacs |-> "idle"] /\ pc = [g \in Gmacs |-> "out"]
    /\ work = [g \in Gmacs |-> {}] /\ idx = [g \in Gmacs |-> 0]
    /\ ring_num = [g \in Gmacs |-> 0] /\ rxtail = [g \in Gmacs |-> 0]
    /\ left = [g \in Gmacs |-> 0] /\ cnt = [g \in Gmacs |-> 0]
    /\ sized = [g \in Gmacs |-> FALSE]
    /\ jumbo = [g \in Gmacs |-> <<>>]
    /\ paused = {} /\ timer = FALSE
    /\ adm = [g \in Gmacs |-> "up"] /\ eth_close = [g \in Gmacs |-> FALSE]
    /\ closes = 0 /\ nextFrame = 1
    /\ up = [g \in Gmacs |-> <<>>]

Goto(g, place) == pc' = [pc EXCEPT ![g] = place]

-----------------------------------------------------------------------------
(* The engine.                                                             *)

\* The frame that the engine goes on with, or a new one.
Arriving(g, r) ==
    LET f == inframe[g][r]
    IN  IF f = NoFrame THEN [of |-> nextFrame, part |-> 1] ELSE [of |-> f.of, part |-> f.part + 1]

\* A fragment fills the next descriptor.  An error is flagged on a single
\* descriptor and may or may not end the frame.
HwReceive(g, r, kind, ends) ==
    LET a == Arriving(g, r)
        f == [of |-> a.of, part |-> a.part, kind |-> kind]
    IN  /\ hwOn[g] /\ rx[g][r][cdo[g][r]] = NoFrame
        /\ a.of \in Frames /\ a.part <= JUMBO_FRAGS + 1
        /\ kind \in (IF a.part = 1 THEN {"whole", "first"} ELSE {"mid", "last"}) \cup {"bad"}
        /\ kind \in {"whole", "last"} => ends
        /\ kind \in {"first", "mid"} => ~ends
        /\ (a.part > 1 \/ ~ends) => r \in JumboRings
        /\ rx' = [rx EXCEPT ![g][r][cdo[g][r]] = f]
        /\ cdo' = [cdo EXCEPT ![g][r] = NEXT_RX(@, r)]
        /\ isr1' = [isr1 EXCEPT ![g] = @ \cup {r}]
        /\ inframe' = [inframe EXCEPT ![g][r] = IF ends THEN NoFrame ELSE f]
        /\ nextFrame' = IF a.part = 1 THEN nextFrame + 1 ELSE nextFrame
        /\ UNCHANGED <<zero, buf, hwOn, rdu, sw, mask, tail, seen, rx_ring_backup, napi,
                       pc, local, jumbo, pause, dev, up>>

\* No descriptor: the rest of the frame is lost and RDU is raised.
HwNoDescriptor(g, r) ==
    LET a == Arriving(g, r)
    IN  /\ hwOn[g] /\ rx[g][r][cdo[g][r]] # NoFrame /\ a.of \in Frames
        /\ rdu' = [rdu EXCEPT ![g] = @ \cup {r}]
        /\ inframe' = [inframe EXCEPT ![g][r] = NoFrame]
        /\ nextFrame' = IF a.part = 1 THEN nextFrame + 1 ELSE nextFrame
        /\ UNCHANGED <<rx, zero, buf, cdo, hwOn, isr1, sw, mask, tail, seen, rx_ring_backup,
                       napi, pc, local, jumbo, pause, dev, up>>

-----------------------------------------------------------------------------
(* The interrupt handler and the start of the poll.                        *)

\* read_isr_status with getRxRingBitMap
Pending(g) == isr1[g] \cup rdu[g] \cup (IF sw[g] THEN Rings ELSE {})

\* re8670_interrupt.  clear_isr leaves the rings' bits of ISR1 alone.
Interrupt(g) ==
    /\ ~mask[g] /\ napi[g] = "idle" /\ adm[g] # "down" /\ Pending(g) # {}
    /\ seen' = [seen EXCEPT ![g] = Pending(g)]
    /\ mask' = [mask EXCEPT ![g] = TRUE]
    /\ napi' = [napi EXCEPT ![g] = "scheduled"]
    /\ rdu' = [rdu EXCEPT ![g] = {}] /\ sw' = [sw EXCEPT ![g] = FALSE]
    /\ UNCHANGED <<rx, zero, buf, engine, isr1, tail, rx_ring_backup, pc, local, jumbo,
                   pause, dev, nextFrame, up>>

\* re8670_rx on a closed interface: the poll is complete and unmasks.
PollClosed(g) ==
    /\ napi[g] = "scheduled" /\ eth_close[g]
    /\ napi' = [napi EXCEPT ![g] = "idle"] /\ mask' = [mask EXCEPT ![g] = FALSE]
    /\ UNCHANGED <<rx, zero, buf, engine, isr1, rdu, sw, tail, seen, rx_ring_backup, pc,
                   local, jumbo, pause, dev, nextFrame, up>>

PollBegin(g) ==
    /\ napi[g] = "scheduled" /\ ~eth_close[g]
    /\ napi' = [napi EXCEPT ![g] = "polling"]
    /\ work' = [work EXCEPT ![g] = seen[g] \cup rx_ring_backup]
    /\ seen' = [seen EXCEPT ![g] = {}]
    /\ idx' = [idx EXCEPT ![g] = 0] /\ cnt' = [cnt EXCEPT ![g] = 0]
    /\ sized' = [sized EXCEPT ![g] = FALSE]
    /\ Goto(g, "backup")
    /\ UNCHANGED <<rx, zero, buf, engine, irq, tail, rx_ring_backup, ring_num, rxtail, left,
                   jumbo, pause, dev, nextFrame, up>>

ClearBackup(g) ==
    /\ pc[g] = "backup"
    /\ rx_ring_backup' = {}
    /\ Goto(g, "ring")
    /\ UNCHANGED <<rx, zero, buf, engine, irq, tail, seen, napi, local, jumbo, pause, dev,
                   nextFrame, up>>

-----------------------------------------------------------------------------
(* The poll: the loop over the rings and the loop over a ring.             *)

\* Where the loop over the rings goes on: indices of pri_map still to do.
ToDo(g) == {i \in idx[g] .. NR - 1 : pri_map(i) \in work[g]}

\* The next ring; its ISR1 bit is cleared if it looks empty, which it also
\* does when it is full.
StartRing(g) ==
    /\ pc[g] = "ring"
    /\ \E i \in ToDo(g) :
         LET r == pri_map(i)
         IN  /\ \A j \in ToDo(g) : i <= j
             /\ idx' = [idx EXCEPT ![g] = i]
             /\ work' = [work EXCEPT ![g] = @ \ {r}]
             /\ ring_num' = [ring_num EXCEPT ![g] = r]
             /\ rxtail' = [rxtail EXCEPT ![g] = tail[g][r]]
             /\ left' = [left EXCEPT ![g] = RING[r]]
             /\ Goto(g, IF tail[g][r] = cdo[g][r] THEN "clear" ELSE "loop")
    /\ UNCHANGED <<rx, zero, buf, engine, irq, tail, seen, rx_ring_backup, napi, cnt, sized,
                   jumbo, pause, dev, nextFrame, up>>

ClearIsr1(g) ==
    /\ pc[g] = "clear"
    /\ isr1' = [isr1 EXCEPT ![g] = @ \ {ring_num[g]}]
    /\ Goto(g, "loop")
    /\ UNCHANGED <<rx, zero, buf, engine, rdu, sw, mask, tail, seen, rx_ring_backup, napi,
                   local, jumbo, pause, dev, nextFrame, up>>

\* Mutant: a break leaves the saved tail as it was.
MutEndRing(g) ==
    /\ idx' = [idx EXCEPT ![g] = @ + 1]
    /\ Goto(g, "ring")
    /\ UNCHANGED tail

\* A break out of the loop over a ring: the tail is saved.
EndRing(g) ==
    /\ tail' = [tail EXCEPT ![g][ring_num[g]] = rxtail[g]]
    /\ idx' = [idx EXCEPT ![g] = @ + 1]
    /\ Goto(g, "ring")

SetPause(g) == paused' = paused \cup {g} /\ timer' = TRUE

\* rx_work is used up, or the poll has taken more than two seconds.
LoopEnds(g) ==
    /\ pc[g] = "loop" /\ (left[g] = 0 \/ (MayExpire /\ cnt[g] > 0))
    /\ EndRing(g)
    /\ UNCHANGED <<rx, zero, buf, engine, irq, seen, rx_ring_backup, napi, work, ring_num,
                   rxtail, left, cnt, sized, jumbo, pause, dev, nextFrame, up>>

\* The stack's input queue is full.
LoopPauses(g) ==
    /\ pc[g] = "loop" /\ left[g] > 0 /\ PauseEnabled
    /\ SetPause(g) /\ EndRing(g)
    /\ UNCHANGED <<rx, zero, buf, engine, irq, seen, rx_ring_backup, napi, work, ring_num,
                   rxtail, left, cnt, sized, jumbo, dev, nextFrame, up>>

ClearPause(g) == paused' = (IF PauseEnabled THEN paused \ {g} ELSE paused)

\* A ring of higher priority has a frame: quit this one.
LoopQuits(g) ==
    /\ pc[g] = "loop" /\ left[g] > 0
    /\ isr1[g] \cap higherq(ring_num[g]) # {}
    /\ ClearPause(g)
    /\ rx_ring_backup' = {ring_num[g]} \cup work[g]
    /\ work' = [work EXCEPT ![g] = @ \cup {ring_num[g]}]
    /\ EndRing(g)
    /\ UNCHANGED <<rx, zero, buf, engine, irq, seen, napi, ring_num, rxtail, left, cnt,
                   sized, jumbo, timer, dev, nextFrame, up>>

LoopGoesOn(g) ==
    /\ pc[g] = "loop" /\ left[g] > 0
    /\ isr1[g] \cap higherq(ring_num[g]) = {}
    /\ ClearPause(g)
    /\ left' = [left EXCEPT ![g] = @ - 1]
    /\ Goto(g, "desc")
    /\ UNCHANGED <<rx, zero, buf, engine, irq, tail, seen, rx_ring_backup, napi, work, idx,
                   ring_num, rxtail, cnt, sized, jumbo, timer, dev, nextFrame, up>>

Desc(g) == rx[g][ring_num[g]][rxtail[g]]

\* DescOwn is set.
DescOwned(g) ==
    /\ pc[g] = "desc" /\ Desc(g) = NoFrame
    /\ EndRing(g)
    /\ UNCHANGED <<rx, zero, buf, engine, irq, seen, rx_ring_backup, napi, work, ring_num,
                   rxtail, left, cnt, sized, jumbo, pause, dev, nextFrame, up>>

-----------------------------------------------------------------------------
(* One descriptor of the poll.                                             *)

Handled(g) ==
    /\ Goto(g, "give")
    /\ UNCHANGED <<rx, zero, engine, irq, tail, seen, rx_ring_backup, napi, work, idx,
                   ring_num, rxtail, left, cnt, pause, dev, nextFrame>>

\* Mutant: an error leaves the jumbo frame as it is.
MutAfterError(g) == jumbo[g]

AfterError(g) == <<>>

\* DMA or CRC error: the jumbo frame is flushed.  skb_buf_size is not set.
HandleBad(g) ==
    /\ pc[g] = "desc" /\ Desc(g).kind = "bad"
    /\ jumbo' = [jumbo EXCEPT ![g] = AfterError(g)]
    /\ UNCHANGED <<buf, sized, up>>
    /\ Handled(g)

\* Mutant: the descriptor keeps the buffer that goes to the stack.
MutNewBuffer(g, old, f) == old

\* re8670_getAlloc: a fresh buffer for the descriptor of frame f
NewBuffer(g, old, f) == <<"new", f.of, f.part>>

\* FS and LS: the buffer goes to the stack and a new one to the descriptor.
HandleWhole(g) ==
    LET r == ring_num[g]
        i == rxtail[g]
    IN  /\ pc[g] = "desc" /\ Desc(g).kind = "whole"
        /\ up' = [up EXCEPT ![g] = Append(@, [ring |-> r, frags |-> <<Desc(g)>>, buf |-> buf[g][r][i]])]
        /\ buf' = [buf EXCEPT ![g][r][i] = NewBuffer(g, @, Desc(g))]
        /\ sized' = [sized EXCEPT ![g] = TRUE]
        /\ UNCHANGED jumbo
        /\ Handled(g)

\* No memory for the new buffer: the frame waits for the timer, or is dropped.
HandleNoMemory(g) ==
    /\ pc[g] = "desc" /\ Desc(g).kind = "whole"
    /\ sized' = [sized EXCEPT ![g] = TRUE]
    /\ IF PauseEnabled
       THEN /\ SetPause(g) /\ EndRing(g)
            /\ UNCHANGED <<rx, zero, engine, irq, seen, rx_ring_backup, napi, work, ring_num,
                           rxtail, left, cnt, dev, nextFrame>>
       ELSE Handled(g)
    /\ UNCHANGED <<buf, jumbo, up>>

\* FS without LS: a new jumbo frame, if there is memory for one.
HandleFirst(g, mem) ==
    /\ pc[g] = "desc" /\ Desc(g).kind = "first"
    /\ jumbo' = [jumbo EXCEPT ![g] = IF mem THEN <<Desc(g)>> ELSE <<>>]
    /\ sized' = [sized EXCEPT ![g] = TRUE]
    /\ UNCHANGED <<buf, up>>
    /\ Handled(g)

\* No FS: the fragment is added to the jumbo frame, unless that was never
\* begun or becomes too long; LS sends the frame to the stack.
HandleMore(g) ==
    LET whole == Append(jumbo[g], Desc(g))
        fits == jumbo[g] # <<>> /\ Len(whole) < JUMBO_FRAGS
        done == fits /\ Desc(g).kind = "last"
    IN  /\ pc[g] = "desc" /\ Desc(g).kind \in {"mid", "last"}
        /\ jumbo' = [jumbo EXCEPT ![g] = IF fits /\ ~done THEN whole ELSE <<>>]
        /\ up' = [up EXCEPT ![g] =
                    IF done THEN Append(@, [ring |-> ring_num[g], frags |-> whole,
                                            buf |-> <<"jumbo", whole[1].of, 1>>])
                            ELSE @]
        /\ sized' = [sized EXCEPT ![g] = TRUE]
        /\ UNCHANGED buf
        /\ Handled(g)

\* rx_Mtail at the return when the budget is reached
SavedTail(g) == [tail EXCEPT ![g][ring_num[g]] = NEXT_RX(rxtail[g], ring_num[g])]

\* rx_next: the descriptor goes back to the engine, with skb_buf_size as its
\* length; the call returns when the budget is reached.
GiveBack(g) ==
    LET r == ring_num[g]
        i == rxtail[g]
    IN  /\ pc[g] = "give"
        /\ rx' = [rx EXCEPT ![g][r][i] = NoFrame]
        /\ zero' = [zero EXCEPT ![g] = IF sized[g] THEN @ \ {<<r, i>>} ELSE @ \cup {<<r, i>>}]
        /\ rxtail' = [rxtail EXCEPT ![g] = NEXT_RX(i, r)]
        /\ cnt' = [cnt EXCEPT ![g] = @ + 1]
        /\ IF cnt[g] + 1 >= BUDGET
           THEN tail' = SavedTail(g) /\ Goto(g, "repoll")
           ELSE Goto(g, "loop") /\ UNCHANGED tail
        /\ UNCHANGED <<buf, engine, irq, seen, rx_ring_backup, napi, work, idx, ring_num, left,
                       sized, jumbo, pause, dev, nextFrame, up>>

-----------------------------------------------------------------------------
(* The end of re8670_poll, the pause timer, close and open.                *)

\* The budget is used up: the status is read again and NAPI polls again.
Repoll(g) ==
    /\ pc[g] = "repoll"
    /\ seen' = [seen EXCEPT ![g] = Pending(g)]
    /\ napi' = [napi EXCEPT ![g] = "scheduled"]
    /\ Goto(g, "out")
    /\ UNCHANGED <<rx, zero, buf, engine, irq, tail, rx_ring_backup, local, jumbo, pause, dev,
                   nextFrame, up>>

\* Mutant: all of ISR1 is acknowledged when the poll is complete.
MutIsr1AtEnd(g) == [isr1 EXCEPT ![g] = {}]

Isr1AtEnd(g) == isr1

\* napi_complete_done, unmask_rx_int
PollDone(g) ==
    /\ pc[g] = "ring" /\ ToDo(g) = {}
    /\ napi' = [napi EXCEPT ![g] = "idle"] /\ mask' = [mask EXCEPT ![g] = FALSE]
    /\ isr1' = Isr1AtEnd(g)
    /\ Goto(g, "out")
    /\ UNCHANGED <<rx, zero, buf, engine, rdu, sw, tail, seen, rx_ring_backup, local, jumbo,
                   pause, dev, nextFrame, up>>

\* setSoftwareInterrupt, once the stack's queue has room: GMAC 0 and 1 only.
PauseTimer ==
    /\ timer /\ timer' = FALSE
    /\ sw' = [g \in Gmacs |-> sw[g] \/ (g \in paused /\ g \in {0, 1} /\ hwOn[g])]
    /\ UNCHANGED <<rx, zero, buf, engine, isr1, rdu, mask, tail, seen, rx_ring_backup, napi,
                   pc, local, jumbo, paused, dev, nextFrame, up>>

Close(g) ==
    /\ adm[g] = "up" /\ closes < MaxCloses
    /\ eth_close' = [eth_close EXCEPT ![g] = TRUE]
    /\ adm' = [adm EXCEPT ![g] = "closing"] /\ closes' = closes + 1
    /\ UNCHANGED <<rx, zero, buf, engine, irq, tail, seen, rx_ring_backup, napi, pc, local,
                   jumbo, pause, nextFrame, up>>

\* re8670_stop_hw, beside a poll that may still run
StopHw(g) ==
    /\ adm[g] = "closing"
    /\ hwOn' = [hwOn EXCEPT ![g] = FALSE]
    /\ mask' = [mask EXCEPT ![g] = TRUE]
    /\ isr1' = [isr1 EXCEPT ![g] = {}] /\ rdu' = [rdu EXCEPT ![g] = {}]
    /\ sw' = [sw EXCEPT ![g] = FALSE]
    /\ tail' = [tail EXCEPT ![g] = [r \in Rings |-> 0]]
    /\ adm' = [adm EXCEPT ![g] = "stopped"]
    /\ UNCHANGED <<rx, zero, buf, cdo, inframe, seen, rx_ring_backup, napi, pc, local, jumbo,
                   pause, eth_close, closes, nextFrame, up>>

\* free_irq, and napi_disable, which waits for the poll
NapiDisable(g) ==
    /\ adm[g] = "stopped" /\ napi[g] = "idle"
    /\ adm' = [adm EXCEPT ![g] = "down"]
    /\ UNCHANGED <<rx, zero, buf, engine, irq, tail, seen, rx_ring_backup, napi, pc, local,
                   jumbo, pause, eth_close, closes, nextFrame, up>>

\* re8670_open: re8670_init_hw starts the engine and its interrupts before
\* the indices are reset and the descriptors are refilled.
InitHw(g) ==
    /\ adm[g] = "down"
    /\ hwOn' = [hwOn EXCEPT ![g] = TRUE]
    /\ cdo' = [cdo EXCEPT ![g] = [r \in Rings |-> 0]]
    /\ inframe' = [inframe EXCEPT ![g] = [r \in Rings |-> NoFrame]]
    /\ mask' = [mask EXCEPT ![g] = FALSE]
    /\ adm' = [adm EXCEPT ![g] = "started"]
    /\ UNCHANGED <<rx, zero, buf, isr1, rdu, sw, tail, seen, rx_ring_backup, napi, pc, local,
                   jumbo, pause, eth_close, closes, nextFrame, up>>

\* re8670_init_trx_cdo and re8670_refill_rx_desc
Refill(g) ==
    /\ adm[g] = "started"
    /\ tail' = [tail EXCEPT ![g] = [r \in Rings |-> 0]]
    /\ rx' = [rx EXCEPT ![g] = [r \in Rings |-> [i \in Slots(r) |-> NoFrame]]]
    /\ zero' = [zero EXCEPT ![g] = {}]
    /\ adm' = [adm EXCEPT ![g] = "filled"]
    /\ UNCHANGED <<buf, engine, irq, seen, rx_ring_backup, napi, pc, local, jumbo, pause,
                   eth_close, closes, nextFrame, up>>

OpenDone(g) ==
    /\ adm[g] = "filled"
    /\ eth_close' = [eth_close EXCEPT ![g] = FALSE]
    /\ adm' = [adm EXCEPT ![g] = "up"]
    /\ UNCHANGED <<rx, zero, buf, engine, irq, tail, seen, rx_ring_backup, napi, pc, local,
                   jumbo, pause, closes, nextFrame, up>>

-----------------------------------------------------------------------------
Hardware(g) ==
    \/ \E r \in Rings : HwNoDescriptor(g, r)
    \/ \E r \in Rings, kind \in {"whole", "bad", "first", "mid", "last"}, ends \in BOOLEAN :
         HwReceive(g, r, kind, ends)

Poll(g) ==
    \/ PollClosed(g) \/ PollBegin(g) \/ ClearBackup(g) \/ StartRing(g) \/ ClearIsr1(g)
    \/ LoopEnds(g) \/ LoopPauses(g) \/ LoopQuits(g) \/ LoopGoesOn(g) \/ DescOwned(g)
    \/ HandleBad(g) \/ HandleWhole(g) \/ HandleNoMemory(g) \/ HandleMore(g)
    \/ \E mem \in BOOLEAN : HandleFirst(g, mem)
    \/ GiveBack(g) \/ Repoll(g) \/ PollDone(g)

Admin(g) ==
    Close(g) \/ StopHw(g) \/ NapiDisable(g) \/ InitHw(g) \/ Refill(g) \/ OpenDone(g)

Next ==
    \/ \E g \in Gmacs : Hardware(g) \/ Interrupt(g) \/ Poll(g) \/ Admin(g)
    \/ PauseTimer

Spec == Init /\ [][Next]_vars

\* A raised interrupt that is not masked is taken, a scheduled poll runs to
\* its end, the timer expires.
FairSpec ==
    /\ Spec
    /\ \A g \in Gmacs : WF_vars(Interrupt(g)) /\ WF_vars(Poll(g))
    /\ WF_vars(PauseTimer)

-----------------------------------------------------------------------------
(* Properties.                                                             *)

Kinds == {"none", "whole", "bad", "first", "mid", "last"}
Fragment == [of : 0 .. MaxFrames, part : Nat, kind : Kinds]

\* Every variable of the driver and of the engine keeps its type.
TypeOK ==
    \A g \in Gmacs :
      /\ \A r \in Rings :
           /\ rx[g][r] \in [Slots(r) -> Fragment] /\ DOMAIN buf[g][r] = Slots(r)
           /\ cdo[g][r] \in Slots(r) /\ tail[g][r] \in Slots(r)
           /\ inframe[g][r] \in Fragment
      /\ isr1[g] \subseteq Rings /\ rdu[g] \subseteq Rings /\ sw[g] \in BOOLEAN
      /\ mask[g] \in BOOLEAN /\ hwOn[g] \in BOOLEAN
      /\ seen[g] \subseteq Rings /\ work[g] \subseteq Rings /\ rx_ring_backup \subseteq Rings
      /\ napi[g] \in {"idle", "scheduled", "polling"}
      /\ pc[g] \in {"out", "backup", "ring", "clear", "loop", "desc", "give", "repoll"}
      /\ idx[g] \in 0 .. NR /\ ring_num[g] \in Rings /\ rxtail[g] \in Slots(ring_num[g])
      /\ left[g] \in 0 .. RING[ring_num[g]] /\ cnt[g] \in 0 .. BUDGET
      /\ Len(jumbo[g]) < JUMBO_FRAGS

\* The engine never writes into a buffer that the stack has: no descriptor
\* holds a buffer that went up, and none went up twice, also across a close
\* that resets the indices beside a running poll and a re-open.
BuffersNotShared ==
    \A g \in Gmacs :
      /\ \A k \in 1 .. Len(up[g]), r \in Rings : \A i \in Slots(r) :
           buf[g][r][i] # up[g][k].buf
      /\ \A j, k \in 1 .. Len(up[g]) : up[g][j].buf = up[g][k].buf => j = k

\* Each ring is a FIFO from the wire to the stack, however the polls of its
\* rings interrupt one another, pause, expire, end at the budget and start again.
\* It is one until the device is closed: re8670_stop_hw resets rx_Mtail beside a
\* poll that may still run.
ReceivedInOrder ==
    closes = 0 =>
      \A g \in Gmacs : \A j, k \in 1 .. Len(up[g]) :
        (j < k /\ up[g][j].ring = up[g][k].ring) => up[g][j].frags[1].of < up[g][k].frags[1].of

\* A jumbo frame that goes up consists of the fragments of one frame, from
\* the first to the last with none missing, whatever errors, shortages of
\* memory and frames of other rings come between them.
JumboIsOneFrame ==
    \A g \in Gmacs : \A k \in 1 .. Len(up[g]) :
      LET s == up[g][k].frags
      IN  /\ \A i \in 1 .. Len(s) : s[i].of = s[1].of /\ s[i].part = i
          /\ s[Len(s)].kind \in {"whole", "last"}

\* A frame in the ring of the highest priority is always taken: the ring is
\* first in pri_map, never quits for another and is no longer than the budget,
\* so clearing its ISR1 bit before it is read loses no wake-up.  It takes polls
\* that end within two seconds (MayExpire is FALSE): one that expires leaves the
\* ring with its bit cleared, as LoopQuits does (QuitRingRestarts).
TopRingServed ==
    \A g \in Gmacs : \A i \in Slots(NR - 1) :
      rx[g][NR - 1][i] # NoFrame ~> rx[g][NR - 1][i] = NoFrame

\* A descriptor goes back to the engine with the length of its buffer, as it
\* does when the ring is filled.
FullSizedBuffers == \A g \in Gmacs : zero[g] = {}

\* A ring that was quit because a ring of higher priority had a frame is
\* started again: the frame it was quit at is taken.
QuitRingRestarts ==
    \A g \in Gmacs, r \in Rings :
      (r \in rx_ring_backup /\ rx[g][r][tail[g][r]] # NoFrame)
        ~> (rx[g][r][tail[g][r]] = NoFrame)
=============================================================================
