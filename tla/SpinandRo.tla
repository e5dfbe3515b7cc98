------------------------------ MODULE SpinandRo ------------------------------
(***************************************************************************)
(* The read-only SPI-NAND driver (drivers/mtd/rtl9607c-spinand-ro.c): the  *)
(* probe, the MTD read and bad-block callbacks that run under one mutex,   *)
(* and the BCH engine, which writes the DMA buffer on its own time.        *)
(*                                                                         *)
(* Units: one datum is one 512-byte ECC sector, one oob datum is one oob   *)
(* byte.  A sector on the flash is a pair: how many of its bits differ     *)
(* from the blank pattern, and how many bit errors BCH would find.         *)
(***************************************************************************)
EXTENDS Integers, Sequences, FiniteSets

CONSTANTS
    Readers,          \* threads that call the MTD callbacks
    Prober,           \* the thread that runs phoebus_nand_probe
    NoOne,            \* the mutex is free
    PAGES,            \* CHIP_BYTES / PAGE_BYTES
    PAGES_PER_BLOCK,  \* BLOCK_BYTES / PAGE_BYTES
    SECTORS,          \* ECC sectors per page (4 in the code)
    OOB_BYTES,        \* oob bytes per page (64)
    AUTO_SKIP,        \* first free oob byte (2)
    AUTO_AVAIL,       \* free oob bytes (20)
    FlashImages,      \* what the chip may hold
    Requests          \* read requests the MTD layer may pass down

Threads == Readers \cup {Prober}
Blocks == PAGES \div PAGES_PER_BLOCK

\* stock MAX_ALLOWED_ERR_IN_BLANK_PAGE, and the strength of BCH6
MaxBlank == 4
Strength == 6

Modes == {"RAW", "PLACE", "AUTO"}

\* cell[s]: sector s.  raw / mark: the marker byte reads 0xff as stored, and
\* after BCH correction.
Page == [cell : [1 .. SECTORS -> [blank : Nat, err : Nat]],
         raw : BOOLEAN, mark : BOOLEAN]

ASSUME SpinandAssumption ==
    /\ SECTORS \in Nat \ {0} /\ PAGES \in Nat \ {0}
    /\ PAGES_PER_BLOCK \in Nat \ {0}
    /\ OOB_BYTES \in Nat \ {0} /\ AUTO_AVAIL \in Nat \ {0} /\ AUTO_SKIP \in Nat
    /\ Prober \notin Readers /\ NoOne \notin Threads

\* The chip holds pages, and the MTD layer passes offsets and lengths.
ASSUME InputAssumption ==
    /\ FlashImages \subseteq [0 .. PAGES - 1 -> Page]
    /\ Requests \subseteq [mode : Modes, from : Nat, len : Nat, ooboffs : Nat, ooblen : Nat]

VARIABLES
    flash,     \* [0 .. PAGES-1 -> Page], never written
    phase,     \* of the probe: "probe", "register", "live", "failed"
    scanned,   \* blocks the registration has asked about
    dma,       \* n->buf: "none", "alloc", "freed"
    buf,       \* what the buffer holds: page, form of each sector, marker
    poisoned,  \* n->poisoned
    timeouts,  \* n->timeouts
    engine,    \* sector the BCH engine works on, 0 when idle
    lock,      \* n->lock
    pc,        \* where each thread is
    cur        \* the call each thread is in, or last made

vars == <<flash, phase, scanned, dma, buf, poisoned, timeouts, engine, lock,
          pc, cur>>
ctl == <<flash, phase, scanned, dma>>

avail(mode) == IF mode = "AUTO" THEN AUTO_AVAIL ELSE OOB_BYTES

Lower(a, b) == IF a <= b THEN a ELSE b
Higher(a, b) == IF a >= b THEN a ELSE b

\* Flips of a sector close enough to blank, -1 for one that is not.
erased_sector(c) == IF c.blank <= MaxBlank THEN c.blank ELSE -1

NewCall(op, mode, page, off, len, oobOff, ooblen) ==
    [op |-> op, mode |-> mode, page |-> page, off |-> off, left |-> len,
     oobOff |-> oobOff, oobLeft |-> ooblen, sec |-> 1, bits |-> 0,
     pageErr |-> FALSE, eccErr |-> FALSE, dat |-> <<>>, oob |-> <<>>,
     req |-> [from |-> page * SECTORS + off, len |-> len, ooblen |-> ooblen,
              ooboffs |-> oobOff],
     ret |-> "none"]

Init ==
    /\ flash \in FlashImages
    /\ phase = "probe" /\ scanned = 0 /\ dma = "none"
    /\ buf = [page |-> 0, form |-> [s \in 1 .. SECTORS |-> "junk"], mark |-> TRUE]
    /\ poisoned = FALSE /\ timeouts = 0 /\ engine = 0 /\ lock = NoOne
    /\ pc = [t \in Threads |-> "idle"]
    /\ cur = [t \in Threads |-> NewCall("isbad", "PLACE", 0, 0, 0, 0, 0)]

-----------------------------------------------------------------------------
(* The probe.                                                              *)

\* A controller timeout before the buffer exists, or a refusal: wrong chip,
\* on-die ECC, no memory.
ProbeFails(timedOut) ==
    /\ phase = "probe"
    /\ phase' = "failed"
    /\ poisoned' = (poisoned \/ timedOut)
    /\ timeouts' = timeouts + (IF timedOut THEN 1 ELSE 0)
    /\ UNCHANGED <<flash, scanned, dma, buf, engine, lock, pc, cur>>

ProbeAllocates ==
    /\ phase = "probe"
    /\ phase' = "register" /\ dma' = "alloc"
    /\ UNCHANGED <<flash, scanned, buf, poisoned, timeouts, engine, lock, pc, cur>>

\* Mutant: one block too many.
MutMoreBlocks == scanned <= Blocks

MoreBlocks == scanned < Blocks

\* mtd_device_register asks about every erase block.
ProbeScans ==
    /\ phase = "register" /\ pc[Prober] = "idle" /\ MoreBlocks
    /\ scanned' = scanned + 1
    /\ pc' = [pc EXCEPT ![Prober] = "lock"]
    /\ cur' = [cur EXCEPT ![Prober] =
                 NewCall("isbad", "PLACE", scanned * PAGES_PER_BLOCK, 0, 0, 0, 0)]
    /\ UNCHANGED <<flash, phase, dma, buf, poisoned, timeouts, engine, lock>>

ProbeRegistered ==
    /\ phase = "register" /\ pc[Prober] = "idle" /\ scanned = Blocks
    /\ phase' = "live"
    /\ UNCHANGED <<flash, scanned, dma, buf, poisoned, timeouts, engine, lock, pc, cur>>

\* Mutant: the buffer is always released.
MutBufferAfterFailure == "freed"

BufferAfterFailure == IF poisoned THEN dma ELSE "freed"

\* Registration fails: the buffer is kept when a timed-out engine may still
\* write it.
ProbeRegisterFails ==
    /\ phase = "register" /\ pc[Prober] = "idle"
    /\ phase' = "failed"
    /\ dma' = BufferAfterFailure
    /\ UNCHANGED <<flash, scanned, buf, poisoned, timeouts, engine, lock, pc, cur>>

-----------------------------------------------------------------------------
(* The MTD callbacks.                                                      *)

\* nand_read_oob up to mutex_lock; the check of the oob offset returns early.
BeginRead(t, r) ==
    LET call == NewCall("read", r.mode, r.from \div SECTORS, r.from % SECTORS,
                        r.len, r.ooboffs, r.ooblen)
        refused == r.ooblen > 0 /\ r.ooboffs >= avail(r.mode)
    IN  /\ phase = "live" /\ t \in Readers /\ pc[t] = "idle"
        /\ cur' = [cur EXCEPT ![t] =
                     IF refused THEN [call EXCEPT !.ret = "EINVAL"] ELSE call]
        /\ pc' = [pc EXCEPT ![t] = IF refused THEN "idle" ELSE "lock"]
        /\ UNCHANGED <<ctl, buf, poisoned, timeouts, engine, lock>>

BeginIsBad(t, b) ==
    /\ phase = "live" /\ t \in Readers /\ pc[t] = "idle"
    /\ cur' = [cur EXCEPT ![t] = NewCall("isbad", "PLACE", b * PAGES_PER_BLOCK, 0, 0, 0, 0)]
    /\ pc' = [pc EXCEPT ![t] = "lock"]
    /\ UNCHANGED <<ctl, buf, poisoned, timeouts, engine, lock>>

Lock(t) ==
    /\ pc[t] = "lock" /\ lock = NoOne
    /\ lock' = t
    /\ pc' = [pc EXCEPT ![t] = IF cur[t].op = "read" THEN "loop" ELSE "marker"]
    /\ UNCHANGED <<ctl, buf, poisoned, timeouts, engine, cur>>

\* Mutant: a return path forgets mutex_unlock.
MutReturn(t, call, ret) ==
    /\ lock' = IF ret = "EIO" THEN lock ELSE NoOne
    /\ pc' = [pc EXCEPT ![t] = "idle"]
    /\ cur' = [cur EXCEPT ![t] = [call EXCEPT !.ret = ret]]

\* mutex_unlock and return; call is the thread's call with its result.
Return(t, call, ret) ==
    /\ lock' = NoOne
    /\ pc' = [pc EXCEPT ![t] = "idle"]
    /\ cur' = [cur EXCEPT ![t] = [call EXCEPT !.ret = ret]]

\* A poll of the controller or of the engine ran out: poisoned for good.
TimesOut(t) ==
    /\ poisoned' = TRUE
    /\ timeouts' = timeouts + 1
    /\ Return(t, cur[t], "ETIMEDOUT")

\* Mutant: sn_load_page does not look at the poison flag.
MutUsable == TRUE

\* sn_load_page goes on to the controller.
Usable == ~poisoned

\* sn_page succeeded: the whole page is in the buffer as the flash holds it.
PageInBuffer(p) ==
    buf' = [page |-> p,
            form |-> [s \in 1 .. SECTORS |->
                        IF flash[p].cell[s].err = 0 THEN "true" ELSE "raw"],
            mark |-> flash[p].raw]

\* The head of the page loop: done, off the chip, refused, or a page is read.
ReadDone(t) ==
    /\ pc[t] = "loop" /\ cur[t].left = 0 /\ cur[t].oobLeft = 0
    /\ Return(t, cur[t], IF cur[t].eccErr THEN "EBADMSG" ELSE "ok")
    /\ UNCHANGED <<ctl, buf, poisoned, timeouts, engine>>

More(t) == cur[t].left > 0 \/ cur[t].oobLeft > 0

ReadOffChip(t) ==
    /\ pc[t] = "loop" /\ More(t) /\ cur[t].page >= PAGES
    /\ Return(t, cur[t], "EINVAL")
    /\ UNCHANGED <<ctl, buf, poisoned, timeouts, engine>>

\* sn_load_page on a poisoned controller
Refused(t) ==
    /\ pc[t] \in {"loop", "marker", "page"} /\ ~Usable
    /\ pc[t] = "loop" => More(t) /\ cur[t].page < PAGES
    /\ Return(t, cur[t], "EIO")
    /\ UNCHANGED <<ctl, buf, poisoned, timeouts, engine>>

ControllerTimeout(t) ==
    /\ pc[t] \in {"loop", "marker", "page"} /\ Usable
    /\ pc[t] = "loop" => More(t) /\ cur[t].page < PAGES
    /\ TimesOut(t)
    /\ UNCHANGED <<ctl, buf, engine>>

\* sn_page for a read: page++ as the code does before it decodes.
ReadPage(t) ==
    /\ pc[t] = "loop" /\ More(t) /\ cur[t].page < PAGES /\ Usable
    /\ PageInBuffer(cur[t].page)
    /\ cur' = [cur EXCEPT ![t].page = @ + 1, ![t].sec = 1, ![t].pageErr = FALSE]
    /\ pc' = [pc EXCEPT ![t] = IF cur[t].mode = "RAW" THEN "copy" ELSE "decode"]
    /\ UNCHANGED <<ctl, poisoned, timeouts, engine, lock>>

\* nand_isbad's quick look: one marker byte; anything but 0xff is decoded.
ReadMarker(t) ==
    LET raw == flash[cur[t].page].raw
    IN  /\ pc[t] = "marker" /\ Usable
        /\ buf' = [buf EXCEPT !.mark = raw]
        /\ IF raw THEN Return(t, cur[t], "good")
                  ELSE pc' = [pc EXCEPT ![t] = "page"] /\ UNCHANGED <<cur, lock>>
        /\ UNCHANGED <<ctl, poisoned, timeouts, engine>>

MarkerPage(t) ==
    /\ pc[t] = "page" /\ Usable
    /\ PageInBuffer(cur[t].page)
    /\ pc' = [pc EXCEPT ![t] = "decode"]
    /\ UNCHANGED <<ctl, poisoned, timeouts, engine, lock, cur>>

-----------------------------------------------------------------------------
(* bch_decode, one sector at a time.                                       *)

Cell(t) == flash[buf.page].cell[cur[t].sec]

\* A blank sector is filled with 0xff before the decoder can touch it.
SectorErased(t) ==
    /\ pc[t] = "decode" /\ cur[t].sec <= SECTORS
    /\ erased_sector(Cell(t)) >= 0
    /\ buf' = [buf EXCEPT !.form[cur[t].sec] = "true",
                          !.mark = IF cur[t].sec = 1 THEN TRUE ELSE @]
    /\ cur' = [cur EXCEPT ![t].sec = @ + 1,
                          ![t].bits = Higher(@, erased_sector(Cell(t)))]
    /\ UNCHANGED <<ctl, poisoned, timeouts, engine, lock, pc>>

\* ECC_TRIG: from here the engine owns the sector in the buffer.
SectorTrigger(t) ==
    /\ pc[t] = "decode" /\ cur[t].sec <= SECTORS
    /\ erased_sector(Cell(t)) < 0
    /\ engine' = cur[t].sec
    /\ buf' = [buf EXCEPT !.form[cur[t].sec] = "junk"]
    /\ pc' = [pc EXCEPT ![t] = "poll"]
    /\ UNCHANGED <<ctl, poisoned, timeouts, lock, cur>>

\* The engine completes, in time or long after the driver gave up.
EngineFinish ==
    /\ engine # 0
    /\ buf' = [buf EXCEPT !.form[engine] =
                 IF flash[buf.page].cell[engine].err <= Strength THEN "true" ELSE "junk"]
    /\ engine' = 0
    /\ UNCHANGED <<ctl, poisoned, timeouts, lock, pc, cur>>

SectorDone(t) ==
    /\ pc[t] = "poll" /\ engine = 0
    /\ pc' = [pc EXCEPT ![t] = "decode"]
    /\ IF Cell(t).err > Strength
         THEN /\ cur' = [cur EXCEPT ![t].sec = @ + 1, ![t].pageErr = TRUE]
              /\ UNCHANGED buf
         ELSE /\ cur' = [cur EXCEPT ![t].sec = @ + 1, ![t].bits = Higher(@, Cell(t).err)]
              /\ buf' = [buf EXCEPT !.mark = IF cur[t].sec = 1 THEN flash[buf.page].mark ELSE @]
    /\ UNCHANGED <<ctl, poisoned, timeouts, engine, lock>>

BchTimeout(t) ==
    /\ pc[t] = "poll" /\ engine # 0
    /\ TimesOut(t)
    /\ UNCHANGED <<ctl, buf, engine>>

\* Mutant: an undecodable marker page falls through to the marker as it is.
MutVerdict(t) == IF buf.mark THEN "good" ELSE "bad"

Verdict(t) == IF cur[t].pageErr \/ ~buf.mark THEN "bad" ELSE "good"

DecodeEnd(t) ==
    /\ pc[t] = "decode" /\ cur[t].sec > SECTORS
    /\ IF cur[t].op = "read"
         THEN /\ pc' = [pc EXCEPT ![t] = "copy"]
              /\ cur' = [cur EXCEPT ![t].eccErr = @ \/ cur[t].pageErr]
              /\ UNCHANGED lock
         ELSE Return(t, cur[t], Verdict(t))
    /\ UNCHANGED <<ctl, buf, poisoned, timeouts, engine>>

\* Mutant: the offset into the first page is kept for the next ones.
MutNextOff(off) == off

\* off = oob_off = 0
NextOff(off) == 0

\* Copy the page's share to the caller; a page that failed ECC is copied too.
\* avail - oob_off wraps to a large number when no oob was asked for and the
\* offset is beyond the page: the minimum is then 0.
CopyOut(t) ==
    LET c == cur[t]
        n == Lower(c.left, SECTORS - c.off)
        k == IF c.oobLeft = 0 THEN 0 ELSE Lower(c.oobLeft, avail(c.mode) - c.oobOff)
        skip == IF c.mode = "AUTO" THEN AUTO_SKIP ELSE 0
    IN  /\ pc[t] = "copy"
        /\ cur' = [cur EXCEPT ![t] =
             [c EXCEPT !.dat = @ \o [i \in 1 .. n |->
                                       <<buf.page, c.off + i, buf.form[c.off + i]>>],
                       !.oob = @ \o [i \in 1 .. k |->
                                       <<buf.page, skip + c.oobOff + i - 1>>],
                       !.left = @ - n, !.oobLeft = @ - k,
                       !.off = NextOff(@), !.oobOff = NextOff(@)]]
        /\ pc' = [pc EXCEPT ![t] = "loop"]
        /\ UNCHANGED <<ctl, buf, poisoned, timeouts, engine, lock>>

-----------------------------------------------------------------------------
Probe ==
    \/ \E timedOut \in BOOLEAN : ProbeFails(timedOut)
    \/ ProbeAllocates \/ ProbeScans \/ ProbeRegistered \/ ProbeRegisterFails

Call(t) ==
    \/ \E r \in Requests : BeginRead(t, r)
    \/ \E b \in 0 .. Blocks - 1 : BeginIsBad(t, b)

\* What a thread does once it is in a callback.
Step(t) ==
    \/ ReadDone(t) \/ ReadOffChip(t) \/ Refused(t) \/ ControllerTimeout(t)
    \/ ReadPage(t) \/ ReadMarker(t) \/ MarkerPage(t)
    \/ SectorErased(t) \/ SectorTrigger(t) \/ SectorDone(t) \/ BchTimeout(t)
    \/ DecodeEnd(t) \/ CopyOut(t)

Next ==
    \/ Probe
    \/ EngineFinish
    \/ \E t \in Threads : Call(t) \/ Lock(t) \/ Step(t)

Spec == Init /\ [][Next]_vars

\* Every poll in the driver is bounded, so a thread in a callback keeps
\* moving; the kernel mutex hands itself over to a waiter.
FairSpec == Spec /\ \A t \in Threads : WF_vars(Step(t)) /\ SF_vars(Lock(t))
-----------------------------------------------------------------------------
(* Properties.                                                             *)

\* Every variable of the driver keeps its type: the probe's phase, the buffer,
\* the poison flag, the engine, the mutex and each thread's place in its call.
TypeOK ==
    /\ flash \in [0 .. PAGES - 1 -> Page]
    /\ phase \in {"probe", "register", "live", "failed"}
    /\ scanned \in 0 .. Blocks
    /\ dma \in {"none", "alloc", "freed"}
    /\ buf \in [page : 0 .. PAGES - 1,
                form : [1 .. SECTORS -> {"true", "raw", "junk"}], mark : BOOLEAN]
    /\ poisoned \in BOOLEAN /\ timeouts \in Nat
    /\ engine \in 0 .. SECTORS
    /\ lock \in Threads \cup {NoOne}
    /\ pc \in [Threads -> {"idle", "lock", "loop", "marker", "page", "decode",
                           "poll", "copy"}]

\* "A timed-out BCH engine must never DMA into freed RAM": while the engine is
\* busy, also long after the poll in bch_decode gave up and also when the probe
\* fails because of it, the buffer it was given is allocated.
NoDmaIntoFreedRam == engine # 0 => dma = "alloc"

\* No thread looks at the buffer while the engine may still write it: a decode
\* that timed out leaves nand_read_oob and nand_isbad nothing to read, whichever
\* thread comes next.
BufferIsQuiet == \A t \in Threads : pc[t] \in {"decode", "copy"} => engine = 0

\* The first timeout, of the controller or of the engine, is the last: nothing
\* touches the hardware after it, in the same call or in any later one.
SingleTimeout == timeouts = IF poisoned THEN 1 ELSE 0

\* The sectors and oob bytes a request names, from the request alone.
ExpectedDat(q, n) ==
    [i \in 1 .. n |-> <<(q.from + i - 1) \div SECTORS, ((q.from + i - 1) % SECTORS) + 1>>]
ExpectedOob(q, mode, n) ==
    [i \in 1 .. n |->
       <<q.from \div SECTORS + (q.ooboffs + i - 1) \div avail(mode),
         ((q.ooboffs + i - 1) % avail(mode)) + (IF mode = "AUTO" THEN AUTO_SKIP ELSE 0)>>]
Decodable(c) == c.blank <= MaxBlank \/ c.err <= Strength
PagesRead(c) ==
    {q \in 0 .. PAGES - 1 : c.req.from \div SECTORS <= q /\ q < c.page}

\* What nand_read_oob hands back is what was asked for, however many pages the
\* request spans and wherever it starts: the data and oob delivered are the
\* requested ones in order; on success they are complete and, unless raw, every
\* sector is corrected and every page read was decodable; on EBADMSG they are
\* complete too and some page read was not decodable.
ReadReturnsRequest ==
    \A t \in Readers :
      LET c == cur[t]
          lost == \E q \in PagesRead(c) : \E s \in 1 .. SECTORS : ~Decodable(flash[q].cell[s])
      IN  c.op = "read" /\ pc[t] = "idle" /\ c.ret # "none" =>
            /\ [i \in 1 .. Len(c.dat) |-> <<c.dat[i][1], c.dat[i][2]>>] = ExpectedDat(c.req, Len(c.dat))
            /\ c.oob = ExpectedOob(c.req, c.mode, Len(c.oob))
            /\ c.ret \in {"ok", "EBADMSG"} =>
                 Len(c.dat) = c.req.len /\ Len(c.oob) = c.req.ooblen
            /\ c.ret = "ok" /\ c.mode # "RAW" =>
                 /\ ~lost
                 /\ \A i \in 1 .. Len(c.dat) : c.dat[i][3] = "true"
            /\ c.ret = "EBADMSG" => lost

\* nand_isbad calls a block good only when its marker byte reads 0xff, as
\* stored or after BCH correction of a page that decodes as a whole; it calls
\* one bad only when the stored byte is not 0xff.
IsBadIsConservative ==
    \A t \in Threads :
      LET p == flash[cur[t].page]
          whole == \A s \in 1 .. SECTORS : Decodable(p.cell[s])
          fixed == p.mark \/ erased_sector(p.cell[1]) >= 0
      IN  cur[t].op = "isbad" =>
            /\ cur[t].ret = "good" => p.raw \/ (whole /\ fixed)
            /\ cur[t].ret = "bad" => ~p.raw /\ ~(whole /\ fixed)

\* "An undecodable marker is conservatively bad, never good": read literally,
\* a block whose marker sector cannot be decoded is never reported good.
UndecodableNeverGood ==
    \A t \in Threads :
      cur[t].op = "isbad" /\ cur[t].ret = "good" =>
        Decodable(flash[cur[t].page].cell[1])

\* Every read and every bad-block query returns, whatever times out and
\* whoever else uses the chip.
CallsReturn == \A t \in Threads : pc[t] # "idle" ~> pc[t] = "idle"
=============================================================================
