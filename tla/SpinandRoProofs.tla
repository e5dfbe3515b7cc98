--------------------------- MODULE SpinandRoProofs ---------------------------
(***************************************************************************)
(* Proofs about the SPI-NAND driver, for any number of readers, any flash  *)
(* geometry, any flash contents and any requests.                          *)
(***************************************************************************)
EXTENDS SpinandRo, TLAPS

Places == {"idle", "lock", "loop", "marker", "page", "decode", "poll", "copy"}
Inside == Places \ {"idle", "lock"}

\* The inductive invariant.  The mutex makes "inside a callback" exclusive;
\* a thread that decodes, polls or copies knows that nothing has timed out;
\* and a busy engine has either a thread that polls it or the poison flag.
IInv ==
    /\ poisoned \in BOOLEAN
    /\ pc \in [Threads -> Places]
    /\ \A t \in Threads : pc[t] \in Inside => lock = t
    /\ \A t \in Threads : pc[t] \in {"decode", "copy"} => engine = 0
    /\ \A t \in Threads : pc[t] \in {"decode", "poll", "copy"} => ~poisoned
    /\ engine # 0 => poisoned \/ \E t \in Threads : pc[t] = "poll"
    /\ \A t \in Threads : pc[t] # "idle" =>
         phase = "live" \/ (phase = "register" /\ t = Prober)
    /\ phase \in {"probe", "register", "live", "failed"}
    /\ phase = "probe" => engine = 0 /\ ~poisoned
    /\ phase \in {"register", "live"} => dma = "alloc"
    /\ NoDmaIntoFreedRam
    /\ SingleTimeout

\* The state before phoebus_nand_probe satisfies the invariant.
LEMMA InitIInv == Init => IInv
  BY SpinandAssumption, Zenon DEF Init, IInv, Places, Inside, Threads, NoDmaIntoFreedRam, SingleTimeout

\* Returning from a callback, with or without a timeout, keeps the invariant.
LEMMA StepIInv == IInv /\ [Next]_vars => IInv'
<1> SUFFICES ASSUME IInv, [Next]_vars PROVE IInv'
  OBVIOUS
<1> USE SpinandAssumption DEF IInv, Places, Inside, Threads, NoDmaIntoFreedRam, SingleTimeout
<1>1. CASE Probe
  <2>1. ASSUME NEW timedOut \in BOOLEAN, ProbeFails(timedOut) PROVE IInv'
    BY <2>1 DEF ProbeFails
  <2>2. CASE ProbeAllocates
    BY <2>2 DEF ProbeAllocates
  <2>3. CASE ProbeScans
    BY <2>3 DEF ProbeScans
  <2>4. CASE ProbeRegistered
    BY <2>4 DEF ProbeRegistered
  <2>5. CASE ProbeRegisterFails
    BY <2>5 DEF ProbeRegisterFails, BufferAfterFailure
  <2> QED
    BY <1>1, <2>1, <2>2, <2>3, <2>4, <2>5 DEF Probe
<1>2. CASE EngineFinish
  BY <1>2 DEF EngineFinish, ctl
<1>3. ASSUME NEW t \in Threads, Call(t) \/ Lock(t) \/ Step(t) PROVE IInv'
  <2>1. ASSUME NEW r \in Requests, BeginRead(t, r) PROVE IInv'
    BY <2>1 DEF BeginRead, ctl
  <2>2. ASSUME NEW b \in 0 .. Blocks - 1, BeginIsBad(t, b) PROVE IInv'
    BY <2>2 DEF BeginIsBad, ctl
  <2>3. CASE Lock(t)
    BY <2>3 DEF Lock, ctl
  <2>4. CASE ReadDone(t)
    BY <2>4 DEF ReadDone, Return, ctl
  <2>5. CASE ReadOffChip(t)
    BY <2>5 DEF ReadOffChip, Return, ctl
  <2>6. CASE Refused(t)
    BY <2>6 DEF Refused, Return, Usable, ctl
  <2>7. CASE ControllerTimeout(t)
    BY <2>7 DEF ControllerTimeout, TimesOut, Return, Usable, ctl
  <2>8. CASE ReadPage(t)
    BY <2>8 DEF ReadPage, Usable, ctl
  <2>9. CASE ReadMarker(t)
    BY <2>9 DEF ReadMarker, Return, Usable, ctl
  <2>10. CASE MarkerPage(t)
    BY <2>10 DEF MarkerPage, Usable, ctl
  <2>11. CASE SectorErased(t)
    BY <2>11 DEF SectorErased, ctl
  <2>12. CASE SectorTrigger(t)
    BY <2>12 DEF SectorTrigger, ctl
  <2>13. CASE SectorDone(t)
    BY <2>13 DEF SectorDone, ctl
  <2>14. CASE BchTimeout(t)
    BY <2>14 DEF BchTimeout, TimesOut, Return, ctl
  <2>15. CASE DecodeEnd(t)
    BY <2>15 DEF DecodeEnd, Return, ctl
  <2>16. CASE CopyOut(t)
    BY <2>16 DEF CopyOut, ctl
  <2> QED
    BY Zenon, <1>3, <2>1, <2>2, <2>3, <2>4, <2>5, <2>6, <2>7, <2>8, <2>9, <2>10, <2>11,
       <2>12, <2>13, <2>14, <2>15, <2>16 DEF Call, Step
<1>4. CASE UNCHANGED vars
  BY <1>4 DEF vars
<1> QED
  BY <1>1, <1>2, <1>3, <1>4 DEF Next

\* The driver satisfies the invariant in every behaviour.
LEMMA AlwaysIInv == Spec => []IInv
  BY InitIInv, StepIInv, PTL DEF Spec

\* The BCH engine never writes freed memory: phoebus_nand_probe releases the
\* buffer only when nothing has timed out, and a timeout is remembered.
THEOREM NoDmaIntoFreedRamHolds == Spec => []NoDmaIntoFreedRam
<1>1. IInv => NoDmaIntoFreedRam
  BY DEF IInv
<1> QED
  BY AlwaysIInv, <1>1, PTL

\* No callback reads the buffer while the engine may still write it.
THEOREM BufferIsQuietHolds == Spec => []BufferIsQuiet
<1>1. IInv => BufferIsQuiet
  BY DEF IInv, BufferIsQuiet
<1> QED
  BY AlwaysIInv, <1>1, PTL

\* The hardware is left alone for good after its first timeout.
THEOREM SingleTimeoutHolds == Spec => []SingleTimeout
<1>1. IInv => SingleTimeout
  BY DEF IInv
<1> QED
  BY AlwaysIInv, <1>1, PTL

-----------------------------------------------------------------------------
(* What a call has delivered and knows, as a function of the flash f, the  *)
(* buffer b, the engine e, the call c and the place of its thread.         *)

Forms == {"true", "raw", "junk"}
Results == {"none", "EINVAL", "EIO", "ETIMEDOUT", "EBADMSG", "ok", "good", "bad"}
Fields == {"op", "mode", "page", "off", "left", "oobOff", "oobLeft", "sec", "bits",
           "pageErr", "eccErr", "dat", "oob", "req", "ret"}
Flash == [0 .. PAGES - 1 -> Page]
Buffer == [page : 0 .. PAGES - 1, form : [1 .. SECTORS -> Forms], mark : BOOLEAN]

Typed(c) ==
    /\ DOMAIN c = Fields
    /\ c.op \in {"read", "isbad"} /\ c.mode \in Modes /\ c.ret \in Results
    /\ c.page \in Nat /\ c.off \in Nat /\ c.left \in Nat /\ c.oobOff \in Nat /\ c.oobLeft \in Nat
    /\ c.sec \in 1 .. SECTORS + 1 /\ c.pageErr \in BOOLEAN /\ c.eccErr \in BOOLEAN
    /\ c.dat \in Seq(Nat \X Nat \X Forms) /\ c.oob \in Seq(Nat \X Nat)
    /\ c.req.from \in Nat /\ c.req.ooboffs \in Nat

First(c) == c.req.from \div SECTORS
Skip(mode) == IF mode = "AUTO" THEN AUTO_SKIP ELSE 0

\* What is delivered is the beginning of what was asked for.
Delivered(c) ==
    /\ \A i \in 1 .. Len(c.dat) :
         /\ c.dat[i][1] = (c.req.from + i - 1) \div SECTORS
         /\ c.dat[i][2] = ((c.req.from + i - 1) % SECTORS) + 1
    /\ \A i \in 1 .. Len(c.oob) :
         c.oob[i] = <<First(c) + (c.req.ooboffs + i - 1) \div avail(c.mode),
                      ((c.req.ooboffs + i - 1) % avail(c.mode)) + Skip(c.mode)>>

Counts(c) ==
    /\ Len(c.dat) + c.left = c.req.len
    /\ Len(c.oob) + c.oobLeft = c.req.ooblen

\* The copy goes on with page p, at the offsets the call has.
At(c, p) ==
    /\ First(c) <= p
    /\ c.off < SECTORS
    /\ c.left > 0 => p * SECTORS + c.off = c.req.from + Len(c.dat)
    /\ c.oobLeft > 0 => /\ c.oobOff < avail(c.mode)
                        /\ (p - First(c)) * avail(c.mode) + c.oobOff = c.req.ooboffs + Len(c.oob)

Lost(f, p) == \E s \in 1 .. SECTORS : ~Decodable(f[p].cell[s])

\* ecc_error tells whether one of the pages before p could not be decoded.
Errs(f, c, p) ==
    IF c.mode = "RAW"
      THEN ~c.eccErr
      ELSE c.eccErr <=> \E q \in 0 .. PAGES - 1 : First(c) <= q /\ q < p /\ Lost(f, q)

\* As long as it is not set, what is delivered is corrected.
Pure(c) == c.mode # "RAW" /\ ~c.eccErr => \A i \in 1 .. Len(c.dat) : c.dat[i][3] = "true"

\* bch_decode has worked on the sectors before the current one; the engine has
\* finished with the current one, or works on it.
Decoded(f, b, e, c, place) ==
    LET cell == f[b.page].cell
    IN  /\ c.pageErr <=> \E s \in 1 .. c.sec - 1 : ~Decodable(cell[s])
        /\ \A s \in 1 .. c.sec - 1 : Decodable(cell[s]) => b.form[s] = "true"
        /\ place = "poll" =>
             /\ c.sec <= SECTORS /\ cell[c.sec].blank > MaxBlank
             /\ e = c.sec \/ (e = 0 /\ (cell[c.sec].err <= Strength => b.form[c.sec] = "true"))

ReadOK(f, b, e, c, place) ==
    /\ place \notin {"marker", "page"}
    /\ Delivered(c) /\ Counts(c) /\ Pure(c)
    /\ place \in {"lock", "loop"} => At(c, c.page) /\ Errs(f, c, c.page)
    /\ place \in {"decode", "poll", "copy"} =>
         c.page > 0 /\ b.page = c.page - 1 /\ At(c, c.page - 1)
    /\ place \in {"decode", "poll"} =>
         c.mode # "RAW" /\ Errs(f, c, c.page - 1) /\ Decoded(f, b, e, c, place)
    /\ place = "copy" =>
         /\ Errs(f, c, c.page)
         /\ c.mode # "RAW" /\ ~c.eccErr => \A s \in 1 .. SECTORS : b.form[s] = "true"
    /\ place # "idle" => c.ret = "none"
    /\ c.ret \in {"ok", "EBADMSG"} =>
         /\ c.left = 0 /\ c.oobLeft = 0 /\ Errs(f, c, c.page)
         /\ c.ret = "EBADMSG" <=> c.eccErr

\* The marker byte of page p, once its first sector is decoded.
Fixed(p) == p.cell[1].blank <= MaxBlank \/ (p.cell[1].err <= Strength /\ p.mark)

BadOK(f, b, e, c, place) ==
    /\ place \notin {"loop", "copy"} /\ c.page < PAGES
    /\ place \in {"lock", "marker", "page"} => c.sec = 1 /\ ~c.pageErr
    /\ place \in {"page", "decode", "poll"} => ~f[c.page].raw
    /\ place \in {"decode", "poll"} =>
         /\ b.page = c.page /\ Decoded(f, b, e, c, place)
         /\ b.mark <=> c.sec > 1 /\ Fixed(f[c.page])
    /\ place # "idle" => c.ret = "none"
    /\ c.ret = "good" => f[c.page].raw \/ (~Lost(f, c.page) /\ Fixed(f[c.page]))
    /\ c.ret = "bad" => ~f[c.page].raw /\ (Lost(f, c.page) \/ ~Fixed(f[c.page]))

CallOK(f, b, e, c, place) ==
    Typed(c) /\ IF c.op = "read" THEN ReadOK(f, b, e, c, place) ELSE BadOK(f, b, e, c, place)

\* The second inductive invariant: every thread's call.
CInv ==
    /\ TypeOK
    /\ DOMAIN cur = Threads
    /\ \A t \in Threads : CallOK(flash, buf, engine, cur[t], pc[t])

-----------------------------------------------------------------------------
(* Numbers and sequences.                                                  *)

\* Division with remainder.
LEMMA Split ==
  ASSUME NEW s \in Nat \ {0}, NEW x \in Nat
  PROVE  x \div s \in Nat /\ x % s \in 0 .. s - 1 /\ x = (x \div s) * s + (x % s)
  BY SMTT(30)

\* It has one result: offset o of page p.
LEMMA Quotient ==
  ASSUME NEW s \in Nat \ {0}, NEW p \in Nat, NEW o \in 0 .. s - 1
  PROVE  (p * s + o) \div s = p /\ (p * s + o) % s = o
<1>1. p * s + o \in Nat
  BY SMTT(30)
<1> DEFINE x == p * s + o
           q == x \div s
           r == x % s
<1>2. q \in Nat /\ r \in 0 .. s - 1 /\ x = q * s + r
  BY <1>1, Split, Zenon
<1> HIDE DEF q, r
<1>3. ~(q < p)
  <2> SUFFICES ASSUME q < p PROVE FALSE
    OBVIOUS
  <2>1. p - q \in Nat /\ p - q >= 1
    BY <1>2
  <2>2. (p - q) * s >= s
    BY <2>1, SMTT(30)
  <2>3. (p - q) * s = p * s - q * s
    BY <1>2, SMTT(30)
  <2> QED BY <1>2, <2>2, <2>3, SMTT(30)
<1>4. ~(p < q)
  <2> SUFFICES ASSUME p < q PROVE FALSE
    OBVIOUS
  <2>1. q - p \in Nat /\ q - p >= 1
    BY <1>2
  <2>2. (q - p) * s >= s
    BY <2>1, SMTT(30)
  <2>3. (q - p) * s = q * s - p * s
    BY <1>2, SMTT(30)
  <2> QED BY <1>2, <2>2, <2>3, SMTT(30)
<1>5. q = p
  BY <1>2, <1>3, <1>4, SMTT(30)
<1>6. r = o
  BY <1>2, <1>5, SMTT(30)
<1> QED BY <1>5, <1>6 DEF q, r

\* The first page of a block is on the chip.
LEMMA InChip ==
  ASSUME NEW b \in 0 .. Blocks - 1 PROVE b * PAGES_PER_BLOCK \in Nat /\ b * PAGES_PER_BLOCK < PAGES
<1> DEFINE q == PAGES \div PAGES_PER_BLOCK
<1>0. PAGES \in Nat /\ PAGES_PER_BLOCK \in Nat \ {0}
  BY SpinandAssumption
<1>1. q \in Nat /\ PAGES % PAGES_PER_BLOCK \in 0 .. PAGES_PER_BLOCK - 1
      /\ PAGES = q * PAGES_PER_BLOCK + (PAGES % PAGES_PER_BLOCK)
  BY <1>0, Split, Zenon
<1>2. b \in Nat /\ b + 1 <= q
  BY <1>1, SMTT(30) DEF Blocks
<1> HIDE DEF q
<1>3. q - b \in Nat /\ (q - b) * PAGES_PER_BLOCK >= PAGES_PER_BLOCK
  BY <1>1, <1>2, SpinandAssumption, SMTT(30)
<1>4. (q - b) * PAGES_PER_BLOCK = q * PAGES_PER_BLOCK - b * PAGES_PER_BLOCK
  BY <1>1, <1>2, SpinandAssumption, SMTT(30)
<1> QED BY <1>1, <1>2, <1>3, <1>4, SpinandAssumption, SMTT(30)

\* erased_sector tells how many bits of a blank sector differ.
LEMMA Erased ==
  ASSUME NEW c, c.blank \in Nat
  PROVE  (erased_sector(c) >= 0 <=> c.blank <= MaxBlank) /\ (erased_sector(c) < 0 <=> c.blank > MaxBlank)
         /\ (c.blank <= MaxBlank => erased_sector(c) \in Nat)
  BY SMTT(30) DEF erased_sector, MaxBlank

\* What a page of the flash holds.
LEMMA Cells ==
  ASSUME NEW f \in Flash, NEW p \in 0 .. PAGES - 1
  PROVE  /\ f[p].raw \in BOOLEAN /\ f[p].mark \in BOOLEAN
         /\ \A s \in 1 .. SECTORS : f[p].cell[s].blank \in Nat /\ f[p].cell[s].err \in Nat
<1>1. f[p] \in Page
  BY Zenon DEF Flash
<1>2. f[p].raw \in BOOLEAN /\ f[p].mark \in BOOLEAN /\ f[p].cell \in [1 .. SECTORS -> [blank : Nat, err : Nat]]
  BY <1>1, Zenon DEF Page
<1> QED
  BY <1>2, Zenon

\* Numbers of a new call.
LEMMA Start ==
  ASSUME NEW p \in Nat, NEW o \in Nat, NEW s \in Nat
  PROVE  /\ p * s + o \in Nat /\ 0 \in Nat /\ 1 \in 1 .. s + 1
         /\ o + 0 = o /\ 0 + o = o /\ p * s + 0 \in Nat
  BY SMTT(30)

\* A sequence that grows by n elements.
LEMMA Copied ==
  ASSUME NEW S, NEW s \in Seq(S), NEW n \in Nat, NEW f \in [1 .. n -> S]
  PROVE  /\ s \o f \in Seq(S) /\ Len(s) \in Nat /\ Len(s \o f) = Len(s) + n
         /\ \A i \in 1 .. Len(s) : (s \o f)[i] = s[i]
         /\ \A i \in 1 .. Len(s) + n : i \notin 1 .. Len(s) => i - Len(s) \in 1 .. n /\ (s \o f)[i] = f[i - Len(s)]
<1>1. f \in Seq(S) /\ Len(f) = n
  BY SMTT(30)
<1> QED BY <1>1, SMTT(30)

\* Sequence d is s with the n elements of f after it.
Grows(S, s, n, f, d) ==
    /\ d \in Seq(S) /\ Len(s) \in Nat /\ Len(d) = Len(s) + n
    /\ \A i \in 1 .. Len(s) : d[i] = s[i]
    /\ \A i \in 1 .. Len(s) + n : i \notin 1 .. Len(s) => i - Len(s) \in 1 .. n /\ d[i] = f[i - Len(s)]

\* The same, of a sequence with a name.
LEMMA Grown ==
  ASSUME NEW S, NEW s \in Seq(S), NEW n \in Nat, NEW f \in [1 .. n -> S], NEW d, d = s \o f
  PROVE  Grows(S, s, n, f, d)
  BY Copied, SMTT(30) DEF Grows

-----------------------------------------------------------------------------
(* Calls that change in the fields that do not count the copy.             *)

\* Two calls that have delivered the same and go on alike.
Alike(c, d) ==
    /\ d.op = c.op /\ d.mode = c.mode /\ d.req = c.req /\ d.dat = c.dat /\ d.oob = c.oob
    /\ d.left = c.left /\ d.oobLeft = c.oobLeft /\ d.off = c.off /\ d.oobOff = c.oobOff

\* What is said of the copy holds of both.
LEMMA AlikeFacts ==
  ASSUME NEW c, NEW d, Alike(c, d)
  PROVE  /\ Delivered(c) => Delivered(d)
         /\ Counts(c) => Counts(d)
         /\ \A p : At(c, p) => At(d, p)
         /\ First(d) = First(c)
<1>1. First(d) = First(c)
  BY Zenon DEF Alike, First
<1> QED
  BY <1>1, Zenon DEF Alike, Delivered, Counts, At

\* And what is said of its errors, as long as ecc_error is the same.
LEMMA SameErrors ==
  ASSUME NEW c, NEW d, Alike(c, d), d.eccErr = c.eccErr
  PROVE  /\ Pure(c) => Pure(d)
         /\ \A f, p : Errs(f, c, p) => Errs(f, d, p)
<1>1. First(d) = First(c)
  BY AlikeFacts, Zenon
<1>2. Pure(c) => Pure(d)
  BY Zenon DEF Alike, Pure
<1>3. ASSUME NEW f, NEW p, Errs(f, c, p) PROVE Errs(f, d, p)
  BY <1>1, <1>3, Zenon DEF Alike, Errs
<1> QED
  BY <1>2, <1>3, Zenon

\* A call that returns; a page that is read, with page++, to decode from its first
\* sector; a sector that is decoded, with n flips, or is lost; a page that is decoded.
Returned(c, r) == [c EXCEPT !.ret = r]
PageTaken(c) == [c EXCEPT !.page = @ + 1, !.sec = 1, !.pageErr = FALSE]
Stepped(c, n) == [c EXCEPT !.sec = @ + 1, !.bits = n]
Skipped(c) == [c EXCEPT !.sec = @ + 1, !.pageErr = TRUE]
WithError(c) == [c EXCEPT !.eccErr = @ \/ c.pageErr]

\* A call that returns.
LEMMA SetRet ==
  ASSUME NEW c, Typed(c), NEW r \in Results, NEW d, d = Returned(c, r)
  PROVE  /\ Typed(d) /\ Alike(c, d) /\ d.ret = r
         /\ d.page = c.page /\ d.sec = c.sec /\ d.pageErr = c.pageErr /\ d.eccErr = c.eccErr
  BY SMTT(30) DEF Typed, Fields, Alike, Returned

\* A page is read: page++, and the decode begins with its first sector.
LEMMA SetPage ==
  ASSUME NEW c, Typed(c), NEW d, d = PageTaken(c)
  PROVE  /\ Typed(d) /\ Alike(c, d) /\ d.ret = c.ret
         /\ d.page = c.page + 1 /\ d.sec = 1 /\ d.pageErr = FALSE /\ d.eccErr = c.eccErr
  BY SpinandAssumption, SMTT(30) DEF Typed, Fields, Alike, PageTaken

\* A sector is decoded.
LEMMA SetSector ==
  ASSUME NEW c, Typed(c), c.sec <= SECTORS, NEW n
  PROVE  /\ Typed(Stepped(c, n)) /\ Alike(c, Stepped(c, n)) /\ Stepped(c, n).ret = c.ret
         /\ Stepped(c, n).page = c.page /\ Stepped(c, n).sec = c.sec + 1
         /\ Stepped(c, n).pageErr = c.pageErr /\ Stepped(c, n).eccErr = c.eccErr
  BY SpinandAssumption, SMTT(30) DEF Typed, Fields, Alike, Stepped

\* A sector is lost.
LEMMA SetSectorErr ==
  ASSUME NEW c, Typed(c), c.sec <= SECTORS
  PROVE  /\ Typed(Skipped(c)) /\ Alike(c, Skipped(c)) /\ Skipped(c).ret = c.ret
         /\ Skipped(c).page = c.page /\ Skipped(c).sec = c.sec + 1
         /\ Skipped(c).pageErr = TRUE /\ Skipped(c).eccErr = c.eccErr
  BY SpinandAssumption, SMTT(30) DEF Typed, Fields, Alike, Skipped

\* A page is decoded.
LEMMA SetErr ==
  ASSUME NEW c, Typed(c), NEW d, d = WithError(c)
  PROVE  /\ Typed(d) /\ Alike(c, d) /\ d.ret = c.ret
         /\ d.page = c.page /\ d.sec = c.sec /\ d.pageErr = c.pageErr
         /\ d.eccErr <=> c.eccErr \/ c.pageErr
  BY SpinandAssumption, SMTT(30) DEF Typed, Fields, Alike, WithError

-----------------------------------------------------------------------------
(* The buffer, and the table of calls.                                     *)

\* sn_page.
Loaded(f, p) ==
    [page |-> p, form |-> [s \in 1 .. SECTORS |-> IF f[p].cell[s].err = 0 THEN "true" ELSE "raw"],
     mark |-> f[p].raw]

\* The buffer after it.
LEMMA LoadedBuffer ==
  ASSUME NEW f \in Flash, NEW p \in 0 .. PAGES - 1
  PROVE  Loaded(f, p) \in Buffer /\ Loaded(f, p).page = p /\ Loaded(f, p).mark = f[p].raw
<1>1. f[p].raw \in BOOLEAN
  BY Cells, Zenon
<1> QED
  BY <1>1, SMTT(30) DEF Loaded, Buffer, Forms

\* Buffer b2 is b with forms g and marker byte m.
Changed(b, g, m, b2) == b2 \in Buffer /\ b2.page = b.page /\ b2.form = g /\ b2.mark = m

\* The marker byte in the buffer changes.
LEMMA MarkBuffer ==
  ASSUME NEW b \in Buffer, NEW m \in BOOLEAN, NEW b2, b2 = [b EXCEPT !.mark = m]
  PROVE  Changed(b, b.form, m, b2)
  BY SMTT(30) DEF Buffer, Changed

\* A sector in the buffer changes.
LEMMA FormBuffer ==
  ASSUME NEW b \in Buffer, NEW s \in 1 .. SECTORS, NEW v \in Forms, NEW b2, b2 = [b EXCEPT !.form[s] = v]
  PROVE  Changed(b, [b.form EXCEPT ![s] = v], b.mark, b2)
<1> DEFINE g == [b.form EXCEPT ![s] = v]
<1>1. b.page \in 0 .. PAGES - 1 /\ b.form \in [1 .. SECTORS -> Forms] /\ b.mark \in BOOLEAN
  BY Zenon DEF Buffer
<1>2. g \in [1 .. SECTORS -> Forms]
  BY <1>1, Zenon
<1>3. b2 = [b EXCEPT !.form = g]
  BY Zenon
<1> HIDE DEF g
<1>4. b2 \in Buffer /\ b2.page = b.page /\ b2.form = g /\ b2.mark = b.mark
  BY <1>2, <1>3, SMTT(30) DEF Buffer
<1> QED
  BY <1>4, Zenon DEF g, Changed

\* Both do.
LEMMA BothBuffer ==
  ASSUME NEW b \in Buffer, NEW s \in 1 .. SECTORS, NEW v \in Forms, NEW m \in BOOLEAN,
         NEW b2, b2 = [b EXCEPT !.form[s] = v, !.mark = m]
  PROVE  Changed(b, [b.form EXCEPT ![s] = v], m, b2)
<1> DEFINE a == [b EXCEPT !.form[s] = v]
<1>1. Changed(b, [b.form EXCEPT ![s] = v], b.mark, a)
  BY FormBuffer, Zenon
<1>2. b2 = [a EXCEPT !.mark = m]
  BY Zenon
<1> HIDE DEF a
<1>3. a \in Buffer
  BY <1>1, Zenon DEF Changed
<1>4. Changed(a, a.form, m, b2)
  BY <1>2, <1>3, MarkBuffer, Zenon
<1> QED
  BY <1>1, <1>4, Zenon DEF Changed

\* Table h is g with entry v for t.
Now(g, t, v, h) == DOMAIN h = DOMAIN g /\ h[t] = v /\ \A u \in DOMAIN g : u # t => h[u] = g[u]

\* One entry of a table changes.
LEMMA Put ==
  ASSUME NEW g, NEW t \in DOMAIN g, NEW v, NEW h, h = [g EXCEPT ![t] = v]
  PROVE  Now(g, t, v, h)
  BY Zenon DEF Now

\* A page is read by thread t.
LEMMA PutPage ==
  ASSUME NEW g, NEW t \in DOMAIN g,
         NEW h, h = [g EXCEPT ![t].page = @ + 1, ![t].sec = 1, ![t].pageErr = FALSE]
  PROVE  Now(g, t, PageTaken(g[t]), h)
<1>1. DOMAIN h = DOMAIN g /\ \A u \in DOMAIN g : u # t => h[u] = g[u]
  BY Zenon
<1>2. h[t] = PageTaken(g[t])
  BY Zenon DEF PageTaken
<1> QED
  BY <1>1, <1>2, Zenon DEF Now

\* A sector is decoded by it.
LEMMA PutSector ==
  ASSUME NEW g, NEW t \in DOMAIN g, NEW n,
         NEW h, h = [g EXCEPT ![t].sec = @ + 1, ![t].bits = Higher(@, n)]
  PROVE  Now(g, t, Stepped(g[t], Higher(g[t].bits, n)), h)
<1>1. DOMAIN h = DOMAIN g /\ \A u \in DOMAIN g : u # t => h[u] = g[u]
  BY Zenon
<1>2. h[t] = Stepped(g[t], Higher(g[t].bits, n))
  BY Zenon DEF Stepped
<1> QED
  BY <1>1, <1>2, Zenon DEF Now

\* A sector is lost.
LEMMA PutSectorErr ==
  ASSUME NEW g, NEW t \in DOMAIN g, NEW h, h = [g EXCEPT ![t].sec = @ + 1, ![t].pageErr = TRUE]
  PROVE  Now(g, t, Skipped(g[t]), h)
<1>1. DOMAIN h = DOMAIN g /\ \A u \in DOMAIN g : u # t => h[u] = g[u]
  BY Zenon
<1>2. h[t] = Skipped(g[t])
  BY Zenon DEF Skipped
<1> QED
  BY <1>1, <1>2, Zenon DEF Now

\* A page is decoded.
LEMMA PutErr ==
  ASSUME NEW g, NEW t \in DOMAIN g, NEW h, h = [g EXCEPT ![t].eccErr = @ \/ g[t].pageErr]
  PROVE  Now(g, t, WithError(g[t]), h)
<1>1. DOMAIN h = DOMAIN g /\ \A u \in DOMAIN g : u # t => h[u] = g[u]
  BY Zenon
<1>2. h[t] = WithError(g[t])
  BY Zenon DEF WithError
<1> QED
  BY <1>1, <1>2, Zenon DEF Now

-----------------------------------------------------------------------------
(* One lemma for each thing that can happen to a call.                     *)

\* A call that does not look at the buffer does not mind what is in it.
LEMMA Untouched ==
  ASSUME NEW f, NEW b, NEW e, NEW c, NEW place, CallOK(f, b, e, c, place),
         place \notin {"decode", "poll", "copy"}, NEW b2, NEW e2
  PROVE  CallOK(f, b2, e2, c, place)
<1>1. ReadOK(f, b, e, c, place) => ReadOK(f, b2, e2, c, place)
  BY Zenon DEF ReadOK
<1>2. BadOK(f, b, e, c, place) => BadOK(f, b2, e2, c, place)
  BY Zenon DEF BadOK
<1> QED
  BY <1>1, <1>2, Zenon DEF CallOK

\* A call that fails keeps what it has delivered.
LEMMA Fails ==
  ASSUME NEW f, NEW b, NEW e, NEW c, NEW place, CallOK(f, b, e, c, place),
         NEW r \in {"EINVAL", "EIO", "ETIMEDOUT"}, NEW d, d = Returned(c, r)
  PROVE  CallOK(f, b, e, d, "idle")
<1>1. Typed(c) /\ r \in Results
  BY Zenon DEF CallOK, Results
<1>2. /\ Typed(d) /\ Alike(c, d) /\ d.ret = r /\ d.op = c.op
      /\ d.page = c.page /\ d.eccErr = c.eccErr
  BY <1>1, SetRet, SMTT(30) DEF Alike
<1>3. r \notin {"ok", "EBADMSG", "good", "bad"}
  BY Zenon
<1>4. ReadOK(f, b, e, c, place) => ReadOK(f, b, e, d, "idle")
  <2>1. (Delivered(c) => Delivered(d)) /\ (Counts(c) => Counts(d)) /\ (Pure(c) => Pure(d))
    BY <1>2, AlikeFacts, SameErrors, Zenon
  <2> QED BY <1>2, <1>3, <2>1, Zenon DEF ReadOK
<1>5. BadOK(f, b, e, c, place) => BadOK(f, b, e, d, "idle")
  BY <1>2, <1>3, Zenon DEF BadOK
<1> QED
  BY <1>2, <1>4, <1>5, Zenon DEF CallOK

\* A read that is done.
LEMMA Finishes ==
  ASSUME NEW f, NEW b, NEW e, NEW c, CallOK(f, b, e, c, "loop"), c.left = 0, c.oobLeft = 0,
         NEW d, d = Returned(c, IF c.eccErr THEN "EBADMSG" ELSE "ok")
  PROVE  CallOK(f, b, e, d, "idle")
<1> DEFINE r == IF c.eccErr THEN "EBADMSG" ELSE "ok"
<1>1. Typed(c) /\ r \in Results /\ c.eccErr \in BOOLEAN
  BY Zenon DEF CallOK, Results, Typed
<1>2. /\ Typed(d) /\ Alike(c, d) /\ d.ret = r /\ d.op = c.op
      /\ d.page = c.page /\ d.eccErr = c.eccErr /\ d.left = 0 /\ d.oobLeft = 0
  BY <1>1, SetRet, SMTT(30) DEF Alike
<1>3. r = "EBADMSG" <=> c.eccErr
  BY <1>1, Zenon
<1>4. ReadOK(f, b, e, c, "loop") /\ d.op = "read"
  BY <1>2, Zenon DEF CallOK, BadOK, Typed
<1>5. Delivered(d) /\ Counts(d) /\ Pure(d) /\ Errs(f, d, d.page)
  <2>1. Delivered(c) /\ Counts(c) /\ Pure(c) /\ Errs(f, c, d.page)
    BY <1>2, <1>4, Zenon DEF ReadOK
  <2> QED BY <1>2, <2>1, AlikeFacts, SameErrors, Zenon
<1>6. ReadOK(f, b, e, d, "idle")
  BY <1>2, <1>3, <1>5, Zenon DEF ReadOK
<1> QED
  BY <1>2, <1>4, <1>6, Zenon DEF CallOK

\* The mutex is taken.
LEMMA Locks ==
  ASSUME NEW f, NEW b, NEW e, NEW c, CallOK(f, b, e, c, "lock")
  PROVE  CallOK(f, b, e, c, IF c.op = "read" THEN "loop" ELSE "marker")
<1>1. ReadOK(f, b, e, c, "lock") => ReadOK(f, b, e, c, "loop")
  BY Zenon DEF ReadOK
<1>2. BadOK(f, b, e, c, "lock") => BadOK(f, b, e, c, "marker")
  BY Zenon DEF BadOK
<1> QED
  BY <1>1, <1>2, Zenon DEF CallOK

\* The marker byte reads 0xff as stored.
LEMMA MarkerGood ==
  ASSUME NEW f, NEW b, NEW e, NEW c, CallOK(f, b, e, c, "marker"), f[c.page].raw,
         NEW b2, NEW d, d = Returned(c, "good")
  PROVE  CallOK(f, b2, e, d, "idle")
<1>1. Typed(c) /\ "good" \in Results
  BY Zenon DEF CallOK, Results
<1>2. /\ Typed(d) /\ d.ret = "good" /\ d.op = c.op /\ d.page = c.page
  BY <1>1, SetRet, SMTT(30) DEF Alike
<1>3. BadOK(f, b, e, c, "marker") /\ d.op # "read"
  BY <1>2, Zenon DEF CallOK, ReadOK, Typed
<1>4. BadOK(f, b2, e, d, "idle")
  BY <1>2, <1>3, Zenon DEF BadOK
<1> QED
  BY <1>2, <1>3, <1>4, Zenon DEF CallOK

\* The marker byte does not: the page is decoded next.
LEMMA MarkerAsks ==
  ASSUME NEW f, NEW b, NEW e, NEW c, CallOK(f, b, e, c, "marker"), ~f[c.page].raw, NEW b2
  PROVE  CallOK(f, b2, e, c, "page")
<1>1. BadOK(f, b, e, c, "marker") /\ c.op # "read"
  BY Zenon DEF CallOK, ReadOK
<1>2. BadOK(f, b2, e, c, "page")
  BY <1>1, Zenon DEF BadOK
<1> QED
  BY <1>1, <1>2, Zenon DEF CallOK

\* A bad-block query, from the MTD layer or from the registration.
LEMMA QueryBegins ==
  ASSUME NEW f, NEW b, NEW e, NEW n \in 0 .. Blocks - 1,
         NEW c, c = NewCall("isbad", "PLACE", n * PAGES_PER_BLOCK, 0, 0, 0, 0)
  PROVE  CallOK(f, b, e, c, "lock")
<1> DEFINE p == n * PAGES_PER_BLOCK
<1>1. p \in Nat /\ p < PAGES
  BY InChip, Zenon
<1> HIDE DEF p
<1>2. c = NewCall("isbad", "PLACE", p, 0, 0, 0, 0)
  BY Zenon DEF p
<1>3. /\ DOMAIN c = Fields /\ c.op = "isbad" /\ c.mode = "PLACE" /\ c.page = p /\ c.off = 0 /\ c.left = 0
      /\ c.oobOff = 0 /\ c.oobLeft = 0 /\ c.sec = 1 /\ c.pageErr = FALSE /\ c.eccErr = FALSE
      /\ c.dat = <<>> /\ c.oob = <<>> /\ c.ret = "none" /\ c.req.from = p * SECTORS + 0 /\ c.req.ooboffs = 0
  BY <1>2, SMTT(30) DEF NewCall, Fields
<1>4. Typed(c)
  <2>1. SECTORS \in Nat /\ 0 \in Nat
    BY SpinandAssumption
  <2>2. p * SECTORS + 0 \in Nat /\ 1 \in 1 .. SECTORS + 1
    BY <1>1, <2>1, Start, Zenon
  <2>3. <<>> \in Seq(Nat \X Nat \X Forms) /\ <<>> \in Seq(Nat \X Nat)
    BY SMTT(30)
  <2> QED BY <1>1, <1>3, <2>1, <2>2, <2>3, Zenon DEF Typed, Modes, Results
<1>5. BadOK(f, b, e, c, "lock")
  BY <1>1, <1>3, Zenon DEF BadOK
<1> QED
  BY <1>3, <1>4, <1>5, Zenon DEF CallOK

\* A read, before anything is delivered.
LEMMA NewRead ==
  ASSUME NEW r \in Requests,
         NEW c, c = NewCall("read", r.mode, r.from \div SECTORS, r.from % SECTORS, r.len, r.ooboffs, r.ooblen)
  PROVE  /\ Typed(c) /\ c.op = "read" /\ c.ret = "none" /\ Delivered(c) /\ Counts(c) /\ Pure(c)
         /\ c.eccErr = FALSE /\ First(c) = c.page /\ c.off < SECTORS /\ c.req.from = c.page * SECTORS + c.off
         /\ c.mode = r.mode /\ Len(c.dat) = 0 /\ Len(c.oob) = 0
         /\ c.oobOff = r.ooboffs /\ c.req.ooboffs = r.ooboffs /\ c.oobLeft = r.ooblen
<1> DEFINE p == r.from \div SECTORS
           o == r.from % SECTORS
<1>1. r.mode \in Modes /\ r.from \in Nat /\ r.len \in Nat /\ r.ooboffs \in Nat /\ r.ooblen \in Nat
  BY InputAssumption, SMTT(30)
<1>2. SECTORS \in Nat \ {0}
  BY SpinandAssumption
<1>3. p \in Nat /\ o \in 0 .. SECTORS - 1 /\ r.from = p * SECTORS + o
  BY <1>1, <1>2, Split, Zenon
<1>4. c = NewCall("read", r.mode, p, o, r.len, r.ooboffs, r.ooblen)
  BY Zenon
<1>5. p = r.from \div SECTORS
  OBVIOUS
<1> HIDE DEF p, o
<1>6. /\ DOMAIN c = Fields /\ c.op = "read" /\ c.mode = r.mode /\ c.page = p /\ c.off = o /\ c.left = r.len
      /\ c.oobOff = r.ooboffs /\ c.oobLeft = r.ooblen /\ c.sec = 1 /\ c.pageErr = FALSE /\ c.eccErr = FALSE
      /\ c.dat = <<>> /\ c.oob = <<>> /\ c.ret = "none"
  BY <1>4, SMTT(30) DEF NewCall, Fields
<1>7. /\ c.req.from = p * SECTORS + o /\ c.req.ooboffs = r.ooboffs
      /\ c.req.len = r.len /\ c.req.ooblen = r.ooblen
  BY <1>4, SMTT(30) DEF NewCall
<1>8. Typed(c)
  <2>1. SECTORS \in Nat /\ o \in Nat /\ 0 \in Nat
    BY <1>2, <1>3, SMTT(30)
  <2>2. p * SECTORS + o \in Nat /\ 1 \in 1 .. SECTORS + 1
    BY <1>3, <2>1, Start, Zenon
  <2>3. <<>> \in Seq(Nat \X Nat \X Forms) /\ <<>> \in Seq(Nat \X Nat)
    BY SMTT(30)
  <2> QED BY <1>1, <1>3, <1>6, <1>7, <2>1, <2>2, <2>3, Zenon DEF Typed, Results
<1>9. Len(c.dat) = 0 /\ Len(c.oob) = 0 /\ 1 .. Len(c.dat) = {} /\ 1 .. Len(c.oob) = {}
  BY <1>6, SMTT(30)
<1>10. Delivered(c) /\ Pure(c)
  BY <1>9, Zenon DEF Delivered, Pure
<1>11. Counts(c)
  <2>1. 0 + r.len = r.len /\ 0 + r.ooblen = r.ooblen
    BY <1>1, SMTT(30)
  <2> QED BY <1>6, <1>7, <1>9, <2>1, Zenon DEF Counts
<1>12. First(c) = p
  BY <1>3, <1>5, <1>7, Zenon DEF First
<1>13. o < SECTORS
  BY <1>2, <1>3, SMTT(30)
<1> QED
  BY <1>6, <1>7, <1>8, <1>9, <1>10, <1>11, <1>12, <1>13, Zenon

\* nand_read_oob takes a request on.
LEMMA ReadBegins ==
  ASSUME NEW f, NEW b, NEW e, NEW r \in Requests, ~(r.ooblen > 0 /\ r.ooboffs >= avail(r.mode)),
         NEW c, c = NewCall("read", r.mode, r.from \div SECTORS, r.from % SECTORS, r.len, r.ooboffs, r.ooblen)
  PROVE  CallOK(f, b, e, c, "lock")
<1>1. /\ Typed(c) /\ c.op = "read" /\ c.ret = "none" /\ Delivered(c) /\ Counts(c) /\ Pure(c)
      /\ c.eccErr = FALSE /\ First(c) = c.page /\ c.off < SECTORS /\ c.req.from = c.page * SECTORS + c.off
      /\ c.mode = r.mode /\ Len(c.dat) = 0 /\ Len(c.oob) = 0
      /\ c.oobOff = r.ooboffs /\ c.req.ooboffs = r.ooboffs /\ c.oobLeft = r.ooblen
  BY NewRead, Zenon
<1>2. c.page \in Nat /\ c.off \in Nat /\ c.oobOff \in Nat /\ c.oobLeft \in Nat /\ SECTORS \in Nat /\ avail(c.mode) \in Nat
  <2>1. SECTORS \in Nat /\ avail(c.mode) \in Nat
    BY SpinandAssumption, SMTT(30) DEF avail
  <2> QED BY <1>1, <2>1, Zenon DEF Typed
<1>3. At(c, c.page)
  <2>1. c.page * SECTORS + c.off = c.req.from + Len(c.dat) /\ First(c) <= c.page
    BY <1>1, <1>2, SMTT(30)
  <2>2. (c.page - First(c)) * avail(c.mode) + c.oobOff = c.req.ooboffs + Len(c.oob)
    BY <1>1, <1>2, SMTT(30)
  <2>3. c.oobLeft > 0 => c.oobOff < avail(c.mode)
    BY <1>1, <1>2, SMTT(30)
  <2> QED BY <1>1, <2>1, <2>2, <2>3, Zenon DEF At
<1>4. Errs(f, c, c.page)
  <2>1. ~\E q \in 0 .. PAGES - 1 : First(c) <= q /\ q < c.page
    <3>1. First(c) = c.page /\ c.page \in Nat /\ PAGES \in Nat
      BY <1>1, <1>2, SpinandAssumption, Zenon
    <3> QED BY <3>1, SMTT(30)
  <2> QED BY <1>1, <2>1, Zenon DEF Errs
<1>5. ReadOK(f, b, e, c, "lock")
  BY <1>1, <1>3, <1>4, Zenon DEF ReadOK
<1> QED
  BY <1>1, <1>5, Zenon DEF CallOK

\* Or refuses it, when the oob offset is beyond the page.
LEMMA ReadRefused ==
  ASSUME NEW f, NEW b, NEW e, NEW r \in Requests,
         NEW c, c = NewCall("read", r.mode, r.from \div SECTORS, r.from % SECTORS, r.len, r.ooboffs, r.ooblen),
         NEW d, d = Returned(c, "EINVAL")
  PROVE  CallOK(f, b, e, d, "idle")
<1>1. Typed(c) /\ c.op = "read" /\ c.ret = "none" /\ Delivered(c) /\ Counts(c) /\ Pure(c)
  BY NewRead, Zenon
<1>2. ReadOK(f, b, e, c, "idle")
  BY <1>1, Zenon DEF ReadOK
<1>3. CallOK(f, b, e, c, "idle")
  BY <1>1, <1>2, Zenon DEF CallOK
<1> QED
  BY <1>3, Fails, SMTT(30)

\* sn_page for a read.
LEMMA PageRead ==
  ASSUME NEW f, NEW b, NEW e, NEW c, CallOK(f, b, e, c, "loop"), NEW b2, b2.page = c.page,
         NEW d, d = PageTaken(c)
  PROVE  CallOK(f, b2, e, d, IF c.mode = "RAW" THEN "copy" ELSE "decode")
<1>1. Typed(c) /\ ReadOK(f, b, e, c, "loop") /\ c.op = "read"
  BY Zenon DEF CallOK, BadOK
<1>2. /\ Typed(d) /\ Alike(c, d) /\ d.ret = c.ret /\ d.op = c.op /\ d.mode = c.mode
      /\ d.page = c.page + 1 /\ d.sec = 1 /\ d.pageErr = FALSE /\ d.eccErr = c.eccErr
  <2>1. /\ Typed(d) /\ Alike(c, d) /\ d.ret = c.ret
        /\ d.page = c.page + 1 /\ d.sec = 1 /\ d.pageErr = FALSE /\ d.eccErr = c.eccErr
    BY <1>1, SetPage, Zenon
  <2> QED BY <2>1, Zenon DEF Alike
<1>3. d.page > 0 /\ d.page - 1 = c.page /\ 1 .. d.sec - 1 = {}
  <2>1. c.page \in Nat
    BY <1>1, Zenon DEF Typed
  <2> QED BY <1>2, <2>1, SMTT(30)
<1>4. Delivered(d) /\ Counts(d) /\ Pure(d) /\ At(d, c.page) /\ Errs(f, d, c.page) /\ d.ret = "none"
  <2>1. Delivered(c) /\ Counts(c) /\ Pure(c) /\ At(c, c.page) /\ Errs(f, c, c.page) /\ c.ret = "none"
    BY <1>1, Zenon DEF ReadOK
  <2> QED BY <1>2, <2>1, AlikeFacts, SameErrors, Zenon
<1>5. CASE c.mode = "RAW"
  <2>1. Errs(f, d, d.page)
    BY <1>2, <1>4, <1>5, Zenon DEF Errs
  <2>2. ReadOK(f, b2, e, d, "copy")
    BY <1>2, <1>3, <1>4, <1>5, <2>1, Zenon DEF ReadOK
  <2> QED BY <1>1, <1>2, <1>5, <2>2, Zenon DEF CallOK
<1>6. CASE c.mode # "RAW"
  <2>1. Decoded(f, b2, e, d, "decode")
    BY <1>2, <1>3, Zenon DEF Decoded
  <2>2. ReadOK(f, b2, e, d, "decode")
    BY <1>2, <1>3, <1>4, <1>6, <2>1, Zenon DEF ReadOK
  <2> QED BY <1>1, <1>2, <1>6, <2>2, Zenon DEF CallOK
<1> QED
  BY <1>5, <1>6, Zenon

\* sn_page for a query.
LEMMA PageForMarker ==
  ASSUME NEW f, NEW b, NEW e, NEW c, CallOK(f, b, e, c, "page"), NEW b2, b2.page = c.page,
         b2.mark = f[c.page].raw
  PROVE  CallOK(f, b2, e, c, "decode")
<1>1. Typed(c) /\ BadOK(f, b, e, c, "page") /\ c.op # "read"
  BY Zenon DEF CallOK, ReadOK
<1>2. c.sec = 1 /\ ~c.pageErr /\ c.pageErr \in BOOLEAN
  BY <1>1, Zenon DEF BadOK, Typed
<1>3. 1 .. c.sec - 1 = {} /\ ~(c.sec > 1)
  BY <1>2, SMTT(30)
<1>4. Decoded(f, b2, e, c, "decode")
  BY <1>2, <1>3, Zenon DEF Decoded
<1>5. BadOK(f, b2, e, c, "decode")
  BY <1>1, <1>3, <1>4, Zenon DEF BadOK
<1> QED
  BY <1>1, <1>5, Zenon DEF CallOK

\* Sectors up to the current one.
LEMMA Upto ==
  ASSUME NEW n \in Nat \ {0}, NEW m, m = n + 1
  PROVE  /\ n \in 1 .. m - 1
         /\ \A s \in 1 .. m - 1 : s = n \/ s \in 1 .. n - 1
         /\ \A s \in 1 .. n - 1 : s \in 1 .. m - 1 /\ s # n
  BY SMTT(30)

\* bch_decode goes on to the next sector.
Advance(f, b, c, b2, d) ==
    /\ b2.page = b.page /\ \A s \in 1 .. c.sec - 1 : b2.form[s] = b.form[s]
    /\ Decodable(f[b.page].cell[c.sec]) => b2.form[c.sec] = "true"
    /\ c.op # "read" => (b2.mark <=> Fixed(f[c.page]))
    /\ Typed(d) /\ Alike(c, d) /\ d.ret = c.ret /\ d.page = c.page /\ d.eccErr = c.eccErr
    /\ d.sec = c.sec + 1
    /\ d.pageErr <=> c.pageErr \/ ~Decodable(f[b.page].cell[c.sec])

\* What is decoded then.
LEMMA SectorDecoded ==
  ASSUME NEW f, NEW b, NEW e, NEW c, NEW place, Typed(c), Decoded(f, b, e, c, place),
         NEW b2, NEW d, Advance(f, b, c, b2, d), NEW e2
  PROVE  Decoded(f, b2, e2, d, "decode")
<1>1. c.sec \in Nat \ {0}
  BY SpinandAssumption, SMTT(30) DEF Typed
<1>2. /\ c.sec \in 1 .. d.sec - 1
      /\ \A s \in 1 .. d.sec - 1 : s = c.sec \/ s \in 1 .. c.sec - 1
      /\ \A s \in 1 .. c.sec - 1 : s \in 1 .. d.sec - 1 /\ s # c.sec
  <2>1. d.sec = c.sec + 1
    BY Zenon DEF Advance
  <2> QED BY <1>1, <2>1, Upto, Zenon
<1>3. d.pageErr <=> \E s \in 1 .. d.sec - 1 : ~Decodable(f[b2.page].cell[s])
  BY <1>2, Zenon DEF Decoded, Advance
<1>4. ASSUME NEW s \in 1 .. d.sec - 1, Decodable(f[b2.page].cell[s]) PROVE b2.form[s] = "true"
  BY <1>2, <1>4, Zenon DEF Decoded, Advance
<1>5. "decode" # "poll"
  OBVIOUS
<1> QED
  BY <1>3, <1>4, <1>5, Zenon DEF Decoded

\* And what that means for the call.
LEMMA NextSector ==
  ASSUME NEW f, NEW b, NEW e, NEW c, NEW place \in {"decode", "poll"}, CallOK(f, b, e, c, place),
         NEW b2, NEW d, Advance(f, b, c, b2, d), NEW e2
  PROVE  CallOK(f, b2, e2, d, "decode")
<1>1. /\ Typed(c) /\ Typed(d) /\ Alike(c, d) /\ d.op = c.op /\ d.mode = c.mode /\ d.ret = c.ret
      /\ d.page = c.page /\ d.eccErr = c.eccErr /\ b2.page = b.page /\ d.sec = c.sec + 1
  BY Zenon DEF CallOK, Alike, Advance
<1>2. d.sec > 1
  BY <1>1, SpinandAssumption, SMTT(30) DEF Typed
<1>3. Decoded(f, b2, e2, d, "decode")
  <2>1. Decoded(f, b, e, c, place)
    BY Zenon DEF CallOK, ReadOK, BadOK
  <2> QED BY <1>1, <2>1, SectorDecoded, Zenon
<1>4. CASE c.op = "read"
  <2>1. /\ Delivered(c) /\ Counts(c) /\ Pure(c) /\ c.page > 0 /\ b.page = c.page - 1
        /\ At(c, c.page - 1) /\ c.mode # "RAW" /\ Errs(f, c, c.page - 1) /\ c.ret = "none"
    BY <1>4, Zenon DEF CallOK, ReadOK
  <2>2. Delivered(d) /\ Counts(d) /\ At(d, c.page - 1)
    BY <1>1, <2>1, AlikeFacts, Zenon
  <2>3. Pure(d) /\ Errs(f, d, c.page - 1)
    BY <1>1, <2>1, SameErrors, Zenon
  <2>4. ReadOK(f, b2, e2, d, "decode")
    BY <1>1, <1>3, <2>1, <2>2, <2>3, Zenon DEF ReadOK
  <2> QED BY <1>1, <1>4, <2>4, Zenon DEF CallOK
<1>5. CASE c.op # "read"
  <2>1. /\ c.page < PAGES /\ ~f[c.page].raw /\ b.page = c.page /\ c.ret = "none"
        /\ b2.mark <=> Fixed(f[c.page])
    BY <1>5, Zenon DEF CallOK, BadOK, Advance
  <2>2. BadOK(f, b2, e2, d, "decode")
    BY <1>1, <1>2, <1>3, <2>1, Zenon DEF BadOK
  <2> QED BY <1>1, <1>5, <2>2, Zenon DEF CallOK
<1> QED
  BY <1>4, <1>5, Zenon

\* A sector that is close to blank is filled with 0xff.
LEMMA SectorBlank ==
  ASSUME NEW f, NEW b \in Buffer, NEW e, NEW c, CallOK(f, b, e, c, "decode"), c.sec <= SECTORS,
         f[b.page].cell[c.sec].blank <= MaxBlank, NEW n,
         NEW b2, b2.page = b.page, b2.form = [b.form EXCEPT ![c.sec] = "true"],
         b2.mark = IF c.sec = 1 THEN TRUE ELSE b.mark
  PROVE  CallOK(f, b2, e, Stepped(c, n), "decode")
<1>1. Typed(c) /\ c.sec \in 1 .. SECTORS /\ b.form \in [1 .. SECTORS -> Forms]
  BY SpinandAssumption, SMTT(30) DEF CallOK, Typed, Buffer
<1>2. /\ Typed(Stepped(c, n)) /\ Alike(c, Stepped(c, n)) /\ Stepped(c, n).ret = c.ret
      /\ Stepped(c, n).page = c.page /\ Stepped(c, n).sec = c.sec + 1
      /\ Stepped(c, n).pageErr = c.pageErr /\ Stepped(c, n).eccErr = c.eccErr
  BY <1>1, SetSector, Zenon
<1>3. Decodable(f[b.page].cell[c.sec])
  BY Zenon DEF Decodable
<1>4. b2.form[c.sec] = "true" /\ \A s \in 1 .. c.sec - 1 : b2.form[s] = b.form[s]
  BY <1>1, SpinandAssumption, SMTT(30)
<1>5. ASSUME c.op # "read" PROVE b2.mark <=> Fixed(f[c.page])
  <2>1. b.page = c.page /\ (b.mark <=> c.sec > 1 /\ Fixed(f[c.page]))
    BY <1>5, Zenon DEF CallOK, BadOK
  <2>2. c.sec = 1 \/ c.sec > 1
    BY <1>1, SpinandAssumption, SMTT(30)
  <2>3. CASE c.sec = 1
    BY <2>1, <2>3, Zenon DEF Fixed
  <2>4. CASE c.sec # 1
    BY <2>1, <2>2, <2>4, Zenon
  <2> QED BY <2>3, <2>4, Zenon
<1>6. Stepped(c, n).pageErr <=> c.pageErr \/ ~Decodable(f[b.page].cell[c.sec])
  BY <1>2, <1>3, Zenon
<1>7. Advance(f, b, c, b2, Stepped(c, n))
  BY <1>2, <1>4, <1>5, <1>6, Zenon DEF Advance
<1> QED
  BY <1>7, NextSector, Zenon

\* ECC_TRIG: the engine gets the sector.
LEMMA SectorGiven ==
  ASSUME NEW f, NEW b \in Buffer, NEW c, CallOK(f, b, 0, c, "decode"), c.sec <= SECTORS,
         f[b.page].cell[c.sec].blank > MaxBlank,
         NEW b2, b2.page = b.page, b2.form = [b.form EXCEPT ![c.sec] = "junk"], b2.mark = b.mark
  PROVE  CallOK(f, b2, c.sec, c, "poll")
<1>1. Typed(c) /\ c.sec \in 1 .. SECTORS /\ b.form \in [1 .. SECTORS -> Forms]
  BY SpinandAssumption, SMTT(30) DEF CallOK, Typed, Buffer
<1>2. \A s \in 1 .. c.sec - 1 : b2.form[s] = b.form[s]
  BY <1>1, SpinandAssumption, SMTT(30)
<1>3. Decoded(f, b, 0, c, "decode") => Decoded(f, b2, c.sec, c, "poll")
  BY <1>2, Zenon DEF Decoded
<1>4. ReadOK(f, b, 0, c, "decode") => ReadOK(f, b2, c.sec, c, "poll")
  BY <1>3, Zenon DEF ReadOK
<1>5. BadOK(f, b, 0, c, "decode") => BadOK(f, b2, c.sec, c, "poll")
  BY <1>3, Zenon DEF BadOK
<1> QED
  BY <1>4, <1>5, Zenon DEF CallOK

\* The engine finishes while the driver polls.
LEMMA SectorFinished ==
  ASSUME NEW f, NEW b \in Buffer, NEW e \in 1 .. SECTORS, NEW c, CallOK(f, b, e, c, "poll"),
         NEW b2, b2.page = b.page, b2.mark = b.mark,
         b2.form = [b.form EXCEPT ![e] = IF f[b.page].cell[e].err <= Strength THEN "true" ELSE "junk"]
  PROVE  CallOK(f, b2, 0, c, "poll")
<1>1. Typed(c) /\ Decoded(f, b, e, c, "poll") /\ b.form \in [1 .. SECTORS -> Forms]
  BY Zenon DEF CallOK, ReadOK, BadOK, Buffer
<1>2. e # 0
  BY SpinandAssumption, SMTT(30)
<1>3. e = c.sec
  BY <1>1, <1>2, Zenon DEF Decoded
<1>4. \A s \in 1 .. c.sec - 1 : b2.form[s] = b.form[s]
  BY <1>1, <1>3, SpinandAssumption, SMTT(30)
<1>5. f[b.page].cell[c.sec].err <= Strength => b2.form[c.sec] = "true"
  BY <1>1, <1>3, Zenon
<1>6. Decoded(f, b2, 0, c, "poll")
  BY <1>1, <1>4, <1>5, Zenon DEF Decoded
<1>7. ReadOK(f, b, e, c, "poll") => ReadOK(f, b2, 0, c, "poll")
  BY <1>6, Zenon DEF ReadOK
<1>8. BadOK(f, b, e, c, "poll") => BadOK(f, b2, 0, c, "poll")
  BY <1>6, Zenon DEF BadOK
<1> QED
  BY <1>7, <1>8, Zenon DEF CallOK

\* The engine has corrected the sector, or has not.
LEMMA SectorPolled ==
  ASSUME NEW f \in Flash, NEW b \in Buffer, NEW c, CallOK(f, b, 0, c, "poll"),
         f[b.page].cell[c.sec].err <= Strength, NEW n,
         NEW b2, b2.page = b.page, b2.form = b.form,
         b2.mark = IF c.sec = 1 THEN f[b.page].mark ELSE b.mark
  PROVE  CallOK(f, b2, 0, Stepped(c, n), "decode")
<1>1. Typed(c) /\ Decoded(f, b, 0, c, "poll")
  BY Zenon DEF CallOK, ReadOK, BadOK
<1>2. c.sec \in 1 .. SECTORS /\ c.sec <= SECTORS /\ c.sec # 0 /\ (c.sec = 1 \/ c.sec > 1)
  <2>1. c.sec <= SECTORS
    BY <1>1, Zenon DEF Decoded
  <2>2. c.sec \in 1 .. SECTORS + 1 /\ SECTORS \in Nat
    BY <1>1, SpinandAssumption, Zenon DEF Typed
  <2> QED BY <2>1, <2>2, SMTT(30)
<1>3. /\ f[b.page].cell[c.sec].blank > MaxBlank /\ b.form[c.sec] = "true"
  BY <1>1, <1>2, Zenon DEF Decoded
<1>4. /\ Typed(Stepped(c, n)) /\ Alike(c, Stepped(c, n)) /\ Stepped(c, n).ret = c.ret
      /\ Stepped(c, n).page = c.page /\ Stepped(c, n).sec = c.sec + 1
      /\ Stepped(c, n).pageErr = c.pageErr /\ Stepped(c, n).eccErr = c.eccErr
  BY <1>1, <1>2, SetSector, Zenon
<1>5. Decodable(f[b.page].cell[c.sec])
  BY Zenon DEF Decodable
<1>6. ASSUME c.op # "read" PROVE b2.mark <=> Fixed(f[c.page])
  <2>1. b.page = c.page /\ (b.mark <=> c.sec > 1 /\ Fixed(f[c.page]))
    BY <1>6, Zenon DEF CallOK, BadOK
  <2>2. CASE c.sec = 1
    <3>1. ~(f[c.page].cell[1].blank <= MaxBlank)
      <4>1. b.page \in 0 .. PAGES - 1
        BY Zenon DEF Buffer
      <4>2. f[b.page].cell[c.sec].blank \in Nat
        BY <1>2, <4>1, Cells, Zenon
      <4>3. ~(f[b.page].cell[c.sec].blank <= MaxBlank)
        BY <1>3, <4>2, SMTT(30) DEF MaxBlank
      <4> QED BY <2>1, <2>2, <4>3, Zenon
    <3> QED BY <2>1, <2>2, <3>1, Zenon DEF Fixed
  <2>3. CASE c.sec # 1
    BY <1>2, <2>1, <2>3, Zenon
  <2> QED BY <2>2, <2>3, Zenon
<1>7. Stepped(c, n).pageErr <=> c.pageErr \/ ~Decodable(f[b.page].cell[c.sec])
  BY <1>4, <1>5, Zenon
<1>8. Advance(f, b, c, b2, Stepped(c, n))
  BY <1>3, <1>4, <1>6, <1>7, Zenon DEF Advance
<1> QED
  BY <1>8, NextSector, Zenon

\* It has not: the sector is lost.
LEMMA SectorLost ==
  ASSUME NEW f \in Flash, NEW b \in Buffer, NEW c, CallOK(f, b, 0, c, "poll"),
         f[b.page].cell[c.sec].err > Strength
  PROVE  CallOK(f, b, 0, Skipped(c), "decode")
<1>1. Typed(c) /\ Decoded(f, b, 0, c, "poll")
  BY Zenon DEF CallOK, ReadOK, BadOK
<1>2. c.sec \in 1 .. SECTORS /\ c.sec <= SECTORS /\ (c.sec = 1 \/ c.sec > 1)
  <2>1. c.sec <= SECTORS
    BY <1>1, Zenon DEF Decoded
  <2>2. c.sec \in 1 .. SECTORS + 1 /\ SECTORS \in Nat
    BY <1>1, SpinandAssumption, Zenon DEF Typed
  <2> QED BY <2>1, <2>2, SMTT(30)
<1>3. ~(f[b.page].cell[c.sec].blank <= MaxBlank) /\ ~(f[b.page].cell[c.sec].err <= Strength)
  <2>1. b.page \in 0 .. PAGES - 1 /\ f[b.page].cell[c.sec].blank > MaxBlank
    BY <1>1, Zenon DEF Buffer, Decoded
  <2>2. f[b.page].cell[c.sec].blank \in Nat /\ f[b.page].cell[c.sec].err \in Nat
    BY <1>2, <2>1, Cells, Zenon
  <2> QED BY <2>1, <2>2, SMTT(30) DEF MaxBlank, Strength
<1>4. /\ Typed(Skipped(c)) /\ Alike(c, Skipped(c)) /\ Skipped(c).ret = c.ret
      /\ Skipped(c).page = c.page /\ Skipped(c).sec = c.sec + 1
      /\ Skipped(c).pageErr = TRUE /\ Skipped(c).eccErr = c.eccErr
  BY <1>1, <1>2, SetSectorErr, Zenon
<1>5. ~Decodable(f[b.page].cell[c.sec])
  BY <1>3, Zenon DEF Decodable
<1>6. ASSUME c.op # "read" PROVE b.mark <=> Fixed(f[c.page])
  <2>1. b.page = c.page /\ (b.mark <=> c.sec > 1 /\ Fixed(f[c.page]))
    BY <1>6, Zenon DEF CallOK, BadOK
  <2>2. CASE c.sec = 1
    <3>1. ~Fixed(f[c.page])
      BY <1>3, <2>1, <2>2, Zenon DEF Fixed
    <3> QED BY <2>1, <3>1, Zenon
  <2>3. CASE c.sec # 1
    BY <1>2, <2>1, <2>3, Zenon
  <2> QED BY <2>2, <2>3, Zenon
<1>7. Advance(f, b, c, b, Skipped(c))
  BY <1>4, <1>5, <1>6, Zenon DEF Advance
<1> QED
  BY <1>7, NextSector, Zenon

\* All sectors of a page.
LEMMA AllSectors == ASSUME NEW c, Typed(c), c.sec > SECTORS PROVE 1 .. c.sec - 1 = 1 .. SECTORS /\ c.sec > 1
<1>1. c.sec \in 1 .. SECTORS + 1 /\ SECTORS \in Nat \ {0}
  BY SpinandAssumption, Zenon DEF Typed
<1>2. c.sec - 1 = SECTORS /\ c.sec > 1
  BY <1>1, SMTT(30)
<1> QED
  BY <1>2, Zenon

\* A page is decoded: ecc_error is set when a sector was lost, and else all of the
\* page in the buffer is corrected.
LEMMA PageDecoded ==
  ASSUME NEW f, NEW b \in Buffer, NEW e, NEW c, CallOK(f, b, e, c, "decode"), c.op = "read", c.sec > SECTORS,
         NEW d, d = WithError(c)
  PROVE  CallOK(f, b, e, d, "copy")
<1>1. /\ Typed(c) /\ Decoded(f, b, e, c, "decode") /\ Delivered(c) /\ Counts(c) /\ Pure(c) /\ c.page > 0
      /\ b.page = c.page - 1 /\ At(c, c.page - 1) /\ c.mode # "RAW" /\ Errs(f, c, c.page - 1) /\ c.ret = "none"
  BY Zenon DEF CallOK, ReadOK
<1>2. /\ Typed(d) /\ Alike(c, d) /\ d.ret = c.ret /\ d.page = c.page
      /\ d.eccErr <=> c.eccErr \/ c.pageErr
  BY <1>1, SetErr, Zenon
<1>3. d.op = "read" /\ d.mode = c.mode
  BY <1>2, Zenon DEF Alike
<1>4. 1 .. c.sec - 1 = 1 .. SECTORS
  BY <1>1, AllSectors, Zenon
<1>5. c.pageErr <=> Lost(f, b.page)
  BY <1>1, <1>4, Zenon DEF Decoded, Lost
<1>6. Delivered(d) /\ Counts(d) /\ At(d, d.page - 1) /\ First(d) = First(c)
  <2>1. Delivered(d) /\ Counts(d) /\ At(d, c.page - 1) /\ First(d) = First(c)
    BY <1>1, <1>2, AlikeFacts, Zenon
  <2> QED BY <1>2, <2>1, Zenon
<1>7. Pure(d)
  BY <1>1, <1>2, Zenon DEF Pure, Alike
<1>8. Errs(f, d, d.page)
  <2>1. /\ b.page \in 0 .. PAGES - 1 /\ First(c) <= b.page
        /\ \A q \in 0 .. PAGES - 1 : q < c.page <=> q < b.page \/ q = b.page
    <3>1. b.page \in 0 .. PAGES - 1 /\ c.page \in Nat /\ PAGES \in Nat /\ First(c) <= b.page
      BY <1>1, SpinandAssumption, Zenon DEF Buffer, Typed, At
    <3> QED BY <1>1, <3>1, SMTT(30)
  <2>2. c.eccErr <=> \E q \in 0 .. PAGES - 1 : First(c) <= q /\ q < b.page /\ Lost(f, q)
    BY <1>1, Zenon DEF Errs
  <2>3. d.eccErr <=> \E q \in 0 .. PAGES - 1 : First(c) <= q /\ q < c.page /\ Lost(f, q)
    BY <1>2, <1>5, <2>1, <2>2, Zenon
  <2> QED BY <1>1, <1>2, <1>3, <1>6, <2>3, Zenon DEF Errs
<1>9. ~d.eccErr => \A s \in 1 .. SECTORS : b.form[s] = "true"
  BY <1>1, <1>2, <1>4, Zenon DEF Decoded
<1>10. ReadOK(f, b, e, d, "copy")
  BY <1>1, <1>2, <1>3, <1>6, <1>7, <1>8, <1>9, Zenon DEF ReadOK
<1> QED
  BY <1>2, <1>3, <1>10, Zenon DEF CallOK

\* The verdict on a block whose marker byte was not 0xff.
LEMMA MarkerDecoded ==
  ASSUME NEW f, NEW b, NEW e, NEW c, CallOK(f, b, e, c, "decode"), c.op # "read", c.sec > SECTORS,
         NEW d, d = Returned(c, IF c.pageErr \/ ~b.mark THEN "bad" ELSE "good")
  PROVE  CallOK(f, b, e, d, "idle")
<1> DEFINE r == IF c.pageErr \/ ~b.mark THEN "bad" ELSE "good"
<1>1. /\ Typed(c) /\ Decoded(f, b, e, c, "decode") /\ b.page = c.page /\ c.page < PAGES /\ ~f[c.page].raw
      /\ b.mark <=> c.sec > 1 /\ Fixed(f[c.page])
  BY Zenon DEF CallOK, BadOK
<1>2. r \in Results
  BY Zenon DEF Results
<1>3. Typed(d) /\ d.ret = r /\ d.op = c.op /\ d.page = c.page
  <2> HIDE DEF r
  <2>1. d = Returned(c, r)
    BY Zenon DEF r
  <2>2. Typed(d) /\ Alike(c, d) /\ d.ret = r /\ d.page = c.page
    BY <1>1, <1>2, <2>1, SetRet, SMTT(30)
  <2> QED BY <2>2, Zenon DEF Alike
<1>4. 1 .. c.sec - 1 = 1 .. SECTORS /\ c.sec > 1
  BY <1>1, AllSectors, Zenon
<1>5. c.pageErr <=> Lost(f, c.page)
  BY <1>1, <1>4, Zenon DEF Decoded, Lost
<1>6. /\ r = "good" => ~Lost(f, c.page) /\ Fixed(f[c.page])
      /\ r = "bad" => Lost(f, c.page) \/ ~Fixed(f[c.page])
  BY <1>1, <1>4, <1>5, Zenon
<1>7. BadOK(f, b, e, d, "idle")
  BY <1>1, <1>3, <1>6, Zenon DEF BadOK
<1> QED
  BY <1>3, <1>7, Zenon DEF CallOK

-----------------------------------------------------------------------------
(* The copy of a page.                                                     *)

\* What goes to the caller, and the call after it.
DatChunk(c) == Lower(c.left, SECTORS - c.off)
OobChunk(c) == IF c.oobLeft = 0 THEN 0 ELSE Lower(c.oobLeft, avail(c.mode) - c.oobOff)
DatPart(b, c) == [i \in 1 .. DatChunk(c) |-> <<b.page, c.off + i, b.form[c.off + i]>>]
OobPart(b, c) == [i \in 1 .. OobChunk(c) |-> <<b.page, Skip(c.mode) + c.oobOff + i - 1>>]
CopiedOut(b, c) ==
    [c EXCEPT !.dat = @ \o DatPart(b, c), !.oob = @ \o OobPart(b, c),
              !.left = @ - DatChunk(c), !.oobLeft = @ - OobChunk(c),
              !.off = NextOff(@), !.oobOff = NextOff(@)]

\* The fields of that call.
LEMMA SetCopied ==
  ASSUME NEW b, NEW c, DOMAIN c = Fields
  PROVE  LET d == CopiedOut(b, c)
         IN  /\ DOMAIN d = Fields /\ d.dat = c.dat \o DatPart(b, c) /\ d.oob = c.oob \o OobPart(b, c)
             /\ d.left = c.left - DatChunk(c) /\ d.oobLeft = c.oobLeft - OobChunk(c)
             /\ d.off = 0 /\ d.oobOff = 0 /\ d.op = c.op /\ d.mode = c.mode /\ d.req = c.req
             /\ d.page = c.page /\ d.sec = c.sec /\ d.pageErr = c.pageErr /\ d.eccErr = c.eccErr
             /\ d.ret = c.ret
  BY SMTT(30) DEF CopiedOut, Fields, NextOff

\* Both chunks fit what is left, of the request and of the page.
LEMMA Chunk ==
  ASSUME NEW l \in Nat, NEW n \in Nat, NEW o \in Nat, o < n
  PROVE  /\ Lower(l, n - o) \in Nat /\ l - Lower(l, n - o) \in Nat
         /\ \A i \in 1 .. Lower(l, n - o) : l > 0 /\ o + i - 1 \in 0 .. n - 1 /\ o + i \in 1 .. n
         /\ l - Lower(l, n - o) > 0 => l > 0 /\ Lower(l, n - o) = n - o
  BY SMTT(30) DEF Lower

\* Number x is offset o of page p.
Place(x, s, p, o) == x \div s = p /\ x % s = o

\* Element i of a request that is at page p, offset o after m elements.
LEMMA Element ==
  ASSUME NEW s \in Nat \ {0}, NEW p \in Nat, NEW o \in Nat, NEW from \in Nat, NEW m \in Nat,
         p * s + o = from + m, NEW i \in Nat, i - m \in Nat, o + (i - m) - 1 \in 0 .. s - 1
  PROVE  Place(from + i - 1, s, p, o + (i - m) - 1)
<1> DEFINE x == o + (i - m) - 1
<1>1. from + i - 1 = p * s + x
  <2>1. p * s \in Nat
    BY SMTT(30)
  <2> QED BY <2>1, SMTT(30)
<1>2. x \in 0 .. s - 1
  OBVIOUS
<1> HIDE DEF x
<1>3. (p * s + x) \div s = p /\ (p * s + x) % s = x
  BY <1>2, Quotient, Zenon
<1>4. (from + i - 1) \div s = p /\ (from + i - 1) % s = x
  BY <1>1, <1>3, Zenon
<1> QED
  BY <1>4, Zenon DEF x, Place

\* The next page begins where this one ends.
LEMMA Onward ==
  ASSUME NEW s \in Nat, NEW p \in Int, NEW o \in Nat, NEW x \in Nat, NEW n \in Nat,
         (p - 1) * s + o = x, n = s - o
  PROVE  p * s + 0 = x + n
<1>1. (p - 1) * s = p * s - s /\ p * s \in Int
  BY SMTT(30)
<1> QED
  BY <1>1, SMTT(30)

\* Data and oob of one page, as sequences.
LEMMA Parts ==
  ASSUME NEW b \in Buffer, NEW c, Typed(c), c.off < SECTORS, c.oobLeft > 0 => c.oobOff < avail(c.mode)
  PROVE  /\ DatChunk(c) \in Nat /\ c.left - DatChunk(c) \in Nat
         /\ OobChunk(c) \in Nat /\ c.oobLeft - OobChunk(c) \in Nat
         /\ \A i \in 1 .. DatChunk(c) : c.left > 0 /\ c.off + i - 1 \in 0 .. SECTORS - 1 /\ c.off + i \in 1 .. SECTORS
         /\ \A i \in 1 .. OobChunk(c) : c.oobLeft > 0 /\ c.oobOff + i - 1 \in 0 .. avail(c.mode) - 1
         /\ c.left - DatChunk(c) > 0 => c.left > 0 /\ DatChunk(c) = SECTORS - c.off
         /\ c.oobLeft - OobChunk(c) > 0 => c.oobLeft > 0 /\ OobChunk(c) = avail(c.mode) - c.oobOff
         /\ DatPart(b, c) \in [1 .. DatChunk(c) -> Nat \X Nat \X Forms]
         /\ OobPart(b, c) \in [1 .. OobChunk(c) -> Nat \X Nat]
<1>1. /\ c.left \in Nat /\ c.off \in Nat /\ c.oobLeft \in Nat /\ c.oobOff \in Nat /\ SECTORS \in Nat
      /\ c.mode \in Modes
  BY SpinandAssumption, Zenon DEF Typed
<1>2. avail(c.mode) \in Nat /\ Skip(c.mode) \in Nat
  BY SpinandAssumption, SMTT(30) DEF avail, Skip
<1>3. /\ DatChunk(c) \in Nat /\ c.left - DatChunk(c) \in Nat
      /\ \A i \in 1 .. DatChunk(c) : c.left > 0 /\ c.off + i - 1 \in 0 .. SECTORS - 1 /\ c.off + i \in 1 .. SECTORS
      /\ c.left - DatChunk(c) > 0 => c.left > 0 /\ DatChunk(c) = SECTORS - c.off
  BY <1>1, Chunk, Zenon DEF DatChunk
<1>4. /\ OobChunk(c) \in Nat /\ c.oobLeft - OobChunk(c) \in Nat
      /\ \A i \in 1 .. OobChunk(c) : c.oobLeft > 0 /\ c.oobOff + i - 1 \in 0 .. avail(c.mode) - 1
      /\ c.oobLeft - OobChunk(c) > 0 => c.oobLeft > 0 /\ OobChunk(c) = avail(c.mode) - c.oobOff
  <2>1. CASE c.oobLeft = 0
    <3>1. OobChunk(c) = 0
      BY <2>1, Zenon DEF OobChunk
    <3> QED BY <2>1, <3>1, SMTT(30)
  <2>2. CASE c.oobLeft # 0
    <3>1. OobChunk(c) = Lower(c.oobLeft, avail(c.mode) - c.oobOff)
      BY <2>2, Zenon DEF OobChunk
    <3>2. c.oobOff < avail(c.mode)
      BY <1>1, <2>2, SMTT(30)
    <3> DEFINE k == Lower(c.oobLeft, avail(c.mode) - c.oobOff)
    <3>3. /\ k \in Nat /\ c.oobLeft - k \in Nat
          /\ \A i \in 1 .. k : c.oobLeft > 0 /\ c.oobOff + i - 1 \in 0 .. avail(c.mode) - 1
          /\ c.oobLeft - k > 0 => c.oobLeft > 0 /\ k = avail(c.mode) - c.oobOff
      BY <1>1, <1>2, <3>2, Chunk, Zenon
    <3>4. OobChunk(c) = k
      BY <3>1, Zenon
    <3> HIDE DEF k
    <3> QED BY <3>3, <3>4, Zenon
  <2> QED BY <2>1, <2>2, Zenon
<1>5. b.page \in Nat /\ b.form \in [1 .. SECTORS -> Forms]
  <2>1. b.page \in 0 .. PAGES - 1 /\ b.form \in [1 .. SECTORS -> Forms]
    BY Zenon DEF Buffer
  <2> QED BY <2>1, SpinandAssumption, SMTT(30)
<1>6. DatPart(b, c) \in [1 .. DatChunk(c) -> Nat \X Nat \X Forms]
  <2>1. ASSUME NEW i \in 1 .. DatChunk(c) PROVE <<b.page, c.off + i, b.form[c.off + i]>> \in Nat \X Nat \X Forms
    <3>1. c.off + i \in 1 .. SECTORS
      BY <1>3, Zenon
    <3>2. c.off + i \in Nat /\ b.form[c.off + i] \in Forms
      <4>1. c.off + i \in Nat
        BY <1>1, <3>1, SMTT(30)
      <4> QED BY <1>5, <3>1, <4>1, Zenon
    <3> QED BY <1>5, <3>2, SMTT(30)
  <2> QED BY <2>1, Zenon DEF DatPart
<1>7. OobPart(b, c) \in [1 .. OobChunk(c) -> Nat \X Nat]
  <2>1. ASSUME NEW i \in 1 .. OobChunk(c) PROVE <<b.page, Skip(c.mode) + c.oobOff + i - 1>> \in Nat \X Nat
    <3>1. Skip(c.mode) + c.oobOff + i - 1 \in Nat
      BY <1>1, <1>2, <1>4, SMTT(30)
    <3> QED BY <1>5, <3>1, SMTT(30)
  <2> QED BY <2>1, Zenon DEF OobPart
<1> QED
  BY <1>3, <1>4, <1>6, <1>7, Zenon

\* Data d and oob o are what call c has delivered, after the next copy.
MoreDat(b, c, d) ==
    /\ d \in Seq(Nat \X Nat \X Forms) /\ Len(d) = Len(c.dat) + DatChunk(c) /\ Len(c.dat) \in Nat
    /\ \A i \in 1 .. Len(d) : /\ d[i][1] = (c.req.from + i - 1) \div SECTORS
                              /\ d[i][2] = ((c.req.from + i - 1) % SECTORS) + 1
    /\ (\A i \in 1 .. Len(c.dat) : c.dat[i][3] = "true") /\ (\A s \in 1 .. SECTORS : b.form[s] = "true") =>
         \A i \in 1 .. Len(d) : d[i][3] = "true"

MoreOob(c, o) ==
    /\ o \in Seq(Nat \X Nat) /\ Len(o) = Len(c.oob) + OobChunk(c) /\ Len(c.oob) \in Nat
    /\ \A i \in 1 .. Len(o) :
         o[i] = <<First(c) + (c.req.ooboffs + i - 1) \div avail(c.mode),
                  ((c.req.ooboffs + i - 1) % avail(c.mode)) + Skip(c.mode)>>

\* Data that is copied is what comes next of the request.
LEMMA CopyDat ==
  ASSUME NEW b \in Buffer, NEW c, Typed(c), Delivered(c), Counts(c), b.page = c.page - 1, c.page > 0,
         At(c, c.page - 1), NEW d, d = c.dat \o DatPart(b, c)
  PROVE  MoreDat(b, c, d)
<1> DEFINE n == DatChunk(c)
           m == Len(c.dat)
<1>1. c.off < SECTORS /\ (c.oobLeft > 0 => c.oobOff < avail(c.mode))
  BY Zenon DEF At
<1>2. /\ n \in Nat /\ DatPart(b, c) \in [1 .. n -> Nat \X Nat \X Forms]
      /\ \A i \in 1 .. n : c.left > 0 /\ c.off + i - 1 \in 0 .. SECTORS - 1 /\ c.off + i \in 1 .. SECTORS
  BY <1>1, Parts, Zenon
<1>3. /\ d \in Seq(Nat \X Nat \X Forms) /\ m \in Nat /\ Len(d) = m + n
      /\ \A i \in 1 .. m : d[i] = c.dat[i]
      /\ \A i \in 1 .. m + n : i \notin 1 .. m => i - m \in 1 .. n /\ d[i] = DatPart(b, c)[i - m]
  <2>1. c.dat \in Seq(Nat \X Nat \X Forms)
    BY Zenon DEF Typed
  <2>2. Grows(Nat \X Nat \X Forms, c.dat, n, DatPart(b, c), d)
    BY <1>2, <2>1, Grown, Zenon
  <2> QED BY <2>2, Zenon DEF Grows
<1>4. ASSUME NEW i \in 1 .. Len(d), i \notin 1 .. m
      PROVE  /\ d[i][1] = (c.req.from + i - 1) \div SECTORS
             /\ d[i][2] = ((c.req.from + i - 1) % SECTORS) + 1
             /\ c.off + (i - m) \in 1 .. SECTORS /\ d[i][3] = b.form[c.off + (i - m)]
  <2>1. i - m \in 1 .. n /\ d[i] = DatPart(b, c)[i - m]
    BY <1>3, <1>4, Zenon
  <2>2. d[i] = <<b.page, c.off + (i - m), b.form[c.off + (i - m)]>>
    BY <2>1, Zenon DEF DatPart
  <2>3. c.left > 0 /\ c.off + (i - m) - 1 \in 0 .. SECTORS - 1 /\ c.off + (i - m) \in 1 .. SECTORS
    BY <1>2, <2>1, Zenon
  <2>4. b.page * SECTORS + c.off = c.req.from + m
    BY <2>3, Zenon DEF At
  <2>5. /\ SECTORS \in Nat \ {0} /\ b.page \in Nat /\ c.off \in Nat /\ c.req.from \in Nat /\ m \in Nat
        /\ i \in Nat /\ i - m \in Nat
    <3>1. SECTORS \in Nat \ {0} /\ c.off \in Nat /\ c.req.from \in Nat /\ m \in Nat /\ n \in Nat
      BY <1>2, <1>3, SpinandAssumption, Zenon DEF Typed
    <3>2. b.page \in 0 .. PAGES - 1 /\ PAGES \in Nat
      BY SpinandAssumption, Zenon DEF Buffer
    <3>3. b.page \in Nat
      BY <3>2, SMTT(30)
    <3>4. i \in 1 .. m + n
      BY <1>3, Zenon
    <3>5. i \in Nat /\ i - m \in Nat
      BY <2>1, <3>1, <3>4, SMTT(30)
    <3> QED BY <3>1, <3>3, <3>5, Zenon
  <2>6. (c.req.from + i - 1) \div SECTORS = b.page /\ (c.req.from + i - 1) % SECTORS = c.off + (i - m) - 1
    <3>1. Place(c.req.from + i - 1, SECTORS, b.page, c.off + (i - m) - 1)
      BY <2>3, <2>4, <2>5, Element, Zenon
    <3> QED BY <3>1, Zenon DEF Place
  <2>7. c.off + (i - m) - 1 + 1 = c.off + (i - m)
    BY <2>5, SMTT(30)
  <2>8. d[i][1] = b.page /\ d[i][2] = c.off + (i - m) /\ d[i][3] = b.form[c.off + (i - m)]
    BY <2>2, SMTT(30)
  <2> QED BY <2>3, <2>6, <2>7, <2>8, Zenon
<1>5. ASSUME NEW i \in 1 .. Len(d), i \in 1 .. m
      PROVE  /\ d[i] = c.dat[i] /\ d[i][1] = (c.req.from + i - 1) \div SECTORS
             /\ d[i][2] = ((c.req.from + i - 1) % SECTORS) + 1
  BY <1>3, <1>5, Zenon DEF Delivered
<1>6. \A i \in 1 .. Len(d) : /\ d[i][1] = (c.req.from + i - 1) \div SECTORS
                               /\ d[i][2] = ((c.req.from + i - 1) % SECTORS) + 1
  BY <1>4, <1>5, Zenon
<1>7. ASSUME \A i \in 1 .. Len(c.dat) : c.dat[i][3] = "true", \A s \in 1 .. SECTORS : b.form[s] = "true",
             NEW i \in 1 .. Len(d)
      PROVE  d[i][3] = "true"
  <2>1. CASE i \in 1 .. m
    BY <1>5, <1>7, <2>1, Zenon
  <2>2. CASE i \notin 1 .. m
    BY <1>4, <1>7, <2>2, Zenon
  <2> QED BY <2>1, <2>2, Zenon
<1> QED
  BY <1>3, <1>6, <1>7, Zenon DEF MoreDat

\* Oob that is copied is what comes next of the request.
LEMMA CopyOob ==
  ASSUME NEW b \in Buffer, NEW c, Typed(c), Delivered(c), Counts(c), b.page = c.page - 1, c.page > 0,
         At(c, c.page - 1), NEW d, d = c.oob \o OobPart(b, c)
  PROVE  MoreOob(c, d)
<1> DEFINE n == OobChunk(c)
           m == Len(c.oob)
           p == b.page - First(c)
           a == avail(c.mode)
<1>1. c.off < SECTORS /\ (c.oobLeft > 0 => c.oobOff < avail(c.mode))
  BY Zenon DEF At
<1>2. /\ n \in Nat /\ OobPart(b, c) \in [1 .. n -> Nat \X Nat]
      /\ \A i \in 1 .. n : c.oobLeft > 0 /\ c.oobOff + i - 1 \in 0 .. a - 1
  BY <1>1, Parts, Zenon
<1>3. /\ d \in Seq(Nat \X Nat) /\ m \in Nat /\ Len(d) = m + n
      /\ \A i \in 1 .. m : d[i] = c.oob[i]
      /\ \A i \in 1 .. m + n : i \notin 1 .. m => i - m \in 1 .. n /\ d[i] = OobPart(b, c)[i - m]
  <2>1. c.oob \in Seq(Nat \X Nat)
    BY Zenon DEF Typed
  <2>2. Grows(Nat \X Nat, c.oob, n, OobPart(b, c), d)
    BY <1>2, <2>1, Grown, Zenon
  <2> QED BY <2>2, Zenon DEF Grows
<1>4. /\ a \in Nat \ {0} /\ Skip(c.mode) \in Nat /\ p \in Nat /\ First(c) + p = b.page
      /\ c.oobOff \in Nat /\ c.req.ooboffs \in Nat
  <2>1. a \in Nat \ {0} /\ Skip(c.mode) \in Nat
    BY SpinandAssumption, SMTT(30) DEF avail, Skip
  <2>2. First(c) \in Nat
    <3>1. c.req.from \in Nat /\ SECTORS \in Nat \ {0}
      BY SpinandAssumption, Zenon DEF Typed
    <3> QED BY <3>1, Split, Zenon DEF First
  <2>3. b.page \in 0 .. PAGES - 1 /\ First(c) <= b.page /\ PAGES \in Nat
    BY SpinandAssumption, Zenon DEF Buffer, At
  <2>4. p \in Nat /\ First(c) + p = b.page
    BY <2>2, <2>3, SMTT(30)
  <2> QED BY <2>1, <2>4, Zenon DEF Typed
<1>5. ASSUME NEW i \in 1 .. Len(d), i \notin 1 .. m
      PROVE  d[i] = <<First(c) + (c.req.ooboffs + i - 1) \div a, ((c.req.ooboffs + i - 1) % a) + Skip(c.mode)>>
  <2>1. i - m \in 1 .. n /\ d[i] = OobPart(b, c)[i - m]
    BY <1>3, <1>5, Zenon
  <2>2. d[i] = <<b.page, Skip(c.mode) + c.oobOff + (i - m) - 1>>
    BY <2>1, Zenon DEF OobPart
  <2>3. c.oobLeft > 0 /\ c.oobOff + (i - m) - 1 \in 0 .. a - 1
    BY <1>2, <2>1, Zenon
  <2>4. p * a + c.oobOff = c.req.ooboffs + m
    BY <2>3, Zenon DEF At
  <2>5. i \in Nat /\ i - m \in Nat
    <3>1. i \in 1 .. m + n
      BY <1>3, Zenon
    <3> QED BY <1>2, <1>3, <2>1, <3>1, SMTT(30)
  <2> HIDE DEF p, a, m
  <2>6. (c.req.ooboffs + i - 1) \div a = p /\ (c.req.ooboffs + i - 1) % a = c.oobOff + (i - m) - 1
    <3>1. Place(c.req.ooboffs + i - 1, a, p, c.oobOff + (i - m) - 1)
      BY <1>3, <1>4, <2>3, <2>4, <2>5, Element, Zenon
    <3> QED BY <3>1, Zenon DEF Place
  <2>7. c.oobOff + (i - m) - 1 + Skip(c.mode) = Skip(c.mode) + c.oobOff + (i - m) - 1
    BY <1>3, <1>4, <2>5, SMTT(30)
  <2> QED BY <1>4, <2>2, <2>6, <2>7, Zenon
<1>6. ASSUME NEW i \in 1 .. Len(d), i \in 1 .. m
      PROVE  d[i] = <<First(c) + (c.req.ooboffs + i - 1) \div a, ((c.req.ooboffs + i - 1) % a) + Skip(c.mode)>>
  BY <1>3, <1>6, Zenon DEF Delivered
<1> QED
  BY <1>3, <1>5, <1>6, Zenon DEF MoreOob

\* Page q is where element x + k of a request is, at its beginning.
Begins(q, s, x, k) == q * s + 0 = x + k

\* n elements from offset o fill the page before page p.
Fills(p, g, s, o, x, m, k, n) ==
    /\ s \in Nat /\ p \in Nat /\ g \in Nat /\ o \in Nat /\ x \in Nat /\ m \in Nat /\ k \in Nat /\ n \in Nat
    /\ p > 0 /\ (p - 1 - g) * s + o = x + m /\ n = s - o /\ k = m + n

\* The copy goes on with the next page.
LEMMA CopyOn ==
  ASSUME NEW s, NEW p, NEW g, NEW o, NEW x, NEW m, NEW k, NEW n, Fills(p, g, s, o, x, m, k, n)
  PROVE  Begins(p - g, s, x, k)
<1>0. /\ s \in Nat /\ p \in Nat /\ g \in Nat /\ o \in Nat /\ x \in Nat /\ m \in Nat /\ k \in Nat /\ n \in Nat
      /\ p > 0 /\ (p - 1 - g) * s + o = x + m /\ n = s - o /\ k = m + n
  BY Zenon DEF Fills
<1> DEFINE q == p - g
           y == x + m
<1>1. q \in Int /\ y \in Nat /\ q - 1 = p - 1 - g
  BY <1>0, SMTT(30)
<1> HIDE DEF q
<1>2. (q - 1) * s + o = y
  BY <1>0, <1>1, Zenon
<1> HIDE DEF y
<1>3. q * s + 0 = y + n
  BY <1>0, <1>1, <1>2, Onward, SMTT(30)
<1>4. y + n = x + k
  BY <1>0, SMTT(30) DEF y
<1> QED
  BY <1>3, <1>4, Zenon DEF q, Begins

\* A page is copied to the caller.
LEMMA CopyStep ==
  ASSUME NEW f, NEW b \in Buffer, NEW e, NEW c, CallOK(f, b, e, c, "copy"), NEW d, d = CopiedOut(b, c)
  PROVE  CallOK(f, b, e, d, "loop")
<1>1. Typed(c) /\ c.op = "read" /\ ReadOK(f, b, e, c, "copy")
  BY Zenon DEF CallOK, BadOK
<1>2. /\ Delivered(c) /\ Counts(c) /\ Pure(c) /\ c.page > 0 /\ b.page = c.page - 1 /\ At(c, c.page - 1)
      /\ Errs(f, c, c.page) /\ c.ret = "none"
      /\ c.mode # "RAW" /\ ~c.eccErr => \A s \in 1 .. SECTORS : b.form[s] = "true"
  BY <1>1, Zenon DEF ReadOK
<1>3. /\ DOMAIN d = Fields /\ d.dat = c.dat \o DatPart(b, c) /\ d.oob = c.oob \o OobPart(b, c)
      /\ d.left = c.left - DatChunk(c) /\ d.oobLeft = c.oobLeft - OobChunk(c)
      /\ d.off = 0 /\ d.oobOff = 0 /\ d.op = c.op /\ d.mode = c.mode /\ d.req = c.req
      /\ d.page = c.page /\ d.sec = c.sec /\ d.pageErr = c.pageErr /\ d.eccErr = c.eccErr
      /\ d.ret = c.ret
  <2>1. DOMAIN c = Fields
    BY <1>1, Zenon DEF Typed
  <2> QED BY <2>1, SetCopied, SMTT(30)
<1>4. /\ d.dat \in Seq(Nat \X Nat \X Forms) /\ Len(d.dat) = Len(c.dat) + DatChunk(c) /\ Len(c.dat) \in Nat
      /\ \A i \in 1 .. Len(d.dat) : /\ d.dat[i][1] = (c.req.from + i - 1) \div SECTORS
                                    /\ d.dat[i][2] = ((c.req.from + i - 1) % SECTORS) + 1
      /\ (\A i \in 1 .. Len(c.dat) : c.dat[i][3] = "true") /\ (\A s \in 1 .. SECTORS : b.form[s] = "true") =>
           \A i \in 1 .. Len(d.dat) : d.dat[i][3] = "true"
  <2>1. MoreDat(b, c, d.dat)
    BY <1>1, <1>2, <1>3, CopyDat, Zenon
  <2> QED BY <2>1, Zenon DEF MoreDat
<1>5. /\ d.oob \in Seq(Nat \X Nat) /\ Len(d.oob) = Len(c.oob) + OobChunk(c) /\ Len(c.oob) \in Nat
      /\ \A i \in 1 .. Len(d.oob) :
           d.oob[i] = <<First(c) + (c.req.ooboffs + i - 1) \div avail(c.mode),
                        ((c.req.ooboffs + i - 1) % avail(c.mode)) + Skip(c.mode)>>
  <2>1. MoreOob(c, d.oob)
    BY <1>1, <1>2, <1>3, CopyOob, Zenon
  <2> QED BY <2>1, Zenon DEF MoreOob
<1>6. First(d) = First(c)
  BY <1>3, Zenon DEF First
<1>7. /\ DatChunk(c) \in Nat /\ d.left \in Nat /\ OobChunk(c) \in Nat /\ d.oobLeft \in Nat
      /\ d.left > 0 => c.left > 0 /\ DatChunk(c) = SECTORS - c.off
      /\ d.oobLeft > 0 => c.oobLeft > 0 /\ OobChunk(c) = avail(c.mode) - c.oobOff
  <2>1. c.off < SECTORS /\ (c.oobLeft > 0 => c.oobOff < avail(c.mode))
    BY <1>2, Zenon DEF At
  <2>2. /\ DatChunk(c) \in Nat /\ c.left - DatChunk(c) \in Nat
        /\ OobChunk(c) \in Nat /\ c.oobLeft - OobChunk(c) \in Nat
        /\ c.left - DatChunk(c) > 0 => c.left > 0 /\ DatChunk(c) = SECTORS - c.off
        /\ c.oobLeft - OobChunk(c) > 0 => c.oobLeft > 0 /\ OobChunk(c) = avail(c.mode) - c.oobOff
    BY <1>1, <2>1, Parts, Zenon
  <2> QED BY <1>3, <2>2, Zenon
<1>8. Typed(d)
  <2>1. 0 \in Nat
    OBVIOUS
  <2> QED BY <1>1, <1>3, <1>4, <1>5, <1>7, <2>1, Zenon DEF Typed
<1>9. Delivered(d)
  BY <1>3, <1>4, <1>5, <1>6, Zenon DEF Delivered
<1>10. Counts(d)
  <2>1. c.left \in Nat /\ c.oobLeft \in Nat
    BY <1>1, Zenon DEF Typed
  <2>2. Len(c.dat) + DatChunk(c) + (c.left - DatChunk(c)) = Len(c.dat) + c.left
    BY <1>4, <1>7, <2>1, SMTT(30)
  <2>3. Len(c.oob) + OobChunk(c) + (c.oobLeft - OobChunk(c)) = Len(c.oob) + c.oobLeft
    BY <1>5, <1>7, <2>1, SMTT(30)
  <2> QED BY <1>2, <1>3, <1>4, <1>5, <2>2, <2>3, Zenon DEF Counts
<1>11. Pure(d)
  BY <1>2, <1>3, <1>4, Zenon DEF Pure
<1>12. Errs(f, d, d.page)
  BY <1>2, <1>3, <1>6, Zenon DEF Errs
<1>13. At(d, d.page)
  <2>1. /\ c.page \in Nat /\ c.off \in Nat /\ c.oobOff \in Nat /\ c.req.from \in Nat /\ c.req.ooboffs \in Nat
        /\ SECTORS \in Nat \ {0}
    BY <1>1, SpinandAssumption, Zenon DEF Typed
  <2>2. First(c) \in Nat
    BY <2>1, Split, Zenon DEF First
  <2>3. First(c) <= c.page /\ 0 < SECTORS /\ 0 \in Nat /\ SECTORS \in Nat
    <3>1. First(c) <= c.page - 1
      BY <1>2, Zenon DEF At
    <3> QED BY <2>1, <2>2, <3>1, SMTT(30)
  <2>4. avail(c.mode) \in Nat /\ 0 < avail(c.mode)
    BY SpinandAssumption, SMTT(30) DEF avail
  <2>5. Len(d.dat) \in Nat /\ Len(d.oob) \in Nat
    BY <1>4, <1>5, <1>7, SMTT(30)
  <2>6. ASSUME d.left > 0 PROVE c.page * SECTORS + 0 = c.req.from + Len(d.dat)
    <3>1. (c.page - 1) * SECTORS + c.off = c.req.from + Len(c.dat) /\ DatChunk(c) = SECTORS - c.off
      BY <1>2, <1>7, <2>6, Zenon DEF At
    <3>2. (c.page - 1 - 0) * SECTORS + c.off = c.req.from + Len(c.dat)
      <4>1. c.page - 1 - 0 = c.page - 1
        BY <2>1, SMTT(30)
      <4> QED BY <3>1, <4>1, Zenon
    <3>3. Begins(c.page - 0, SECTORS, c.req.from, Len(d.dat))
      <4>1. Fills(c.page, 0, SECTORS, c.off, c.req.from, Len(c.dat), Len(d.dat), DatChunk(c))
        BY <1>2, <1>4, <1>7, <2>1, <2>3, <2>5, <3>1, <3>2, Zenon DEF Fills
      <4> QED BY <4>1, CopyOn, Zenon
    <3>4. c.page - 0 = c.page
      BY <2>1, SMTT(30)
    <3> QED BY <3>3, <3>4, Zenon DEF Begins
  <2>7. ASSUME d.oobLeft > 0
        PROVE  (c.page - First(c)) * avail(c.mode) + 0 = c.req.ooboffs + Len(d.oob)
    <3>1. /\ (c.page - 1 - First(c)) * avail(c.mode) + c.oobOff = c.req.ooboffs + Len(c.oob)
          /\ OobChunk(c) = avail(c.mode) - c.oobOff
      BY <1>2, <1>7, <2>7, Zenon DEF At
    <3>2. Begins(c.page - First(c), avail(c.mode), c.req.ooboffs, Len(d.oob))
      <4>1. Fills(c.page, First(c), avail(c.mode), c.oobOff, c.req.ooboffs, Len(c.oob), Len(d.oob), OobChunk(c))
        BY <1>2, <1>5, <1>7, <2>1, <2>2, <2>4, <2>5, <3>1, Zenon DEF Fills
      <4> QED BY <4>1, CopyOn, Zenon
    <3> QED BY <3>2, Zenon DEF Begins
  <2> QED BY <1>3, <1>6, <2>3, <2>4, <2>6, <2>7, Zenon DEF At
<1>14. ReadOK(f, b, e, d, "loop")
  BY <1>2, <1>3, <1>9, <1>10, <1>11, <1>12, <1>13, Zenon DEF ReadOK
<1> QED
  BY <1>1, <1>3, <1>8, <1>14, Zenon DEF CallOK

-----------------------------------------------------------------------------
(* The steps of the driver.                                                *)

\* What is known of every call.
LEMMA Facts ==
  ASSUME CInv, NEW t \in Threads
  PROVE  /\ CallOK(flash, buf, engine, cur[t], pc[t]) /\ Typed(cur[t])
         /\ buf \in Buffer /\ flash \in Flash /\ t \in DOMAIN cur /\ DOMAIN cur = Threads
         /\ engine \in 0 .. SECTORS /\ poisoned \in BOOLEAN /\ timeouts \in Nat /\ pc \in [Threads -> Places]
         /\ scanned \in 0 .. Blocks /\ lock \in Threads \cup {NoOne}
<1>1. TypeOK /\ DOMAIN cur = Threads /\ CallOK(flash, buf, engine, cur[t], pc[t])
  BY Zenon DEF CInv
<1>2. buf \in Buffer /\ flash \in Flash /\ pc \in [Threads -> Places] /\ engine \in 0 .. SECTORS
      /\ poisoned \in BOOLEAN /\ timeouts \in Nat /\ scanned \in 0 .. Blocks /\ lock \in Threads \cup {NoOne}
  BY <1>1, Zenon DEF TypeOK, Buffer, Flash, Forms, Places
<1> QED
  BY <1>1, <1>2, Zenon DEF CallOK

\* What every step leaves alone or keeps in its type.
Frame ==
    /\ flash' = flash /\ phase' = phase /\ dma' = dma /\ scanned' \in 0 .. Blocks
    /\ poisoned' \in BOOLEAN /\ timeouts' \in Nat /\ lock' \in Threads \cup {NoOne}
    /\ buf' \in Buffer /\ engine' \in 0 .. SECTORS

\* A step of one thread: the others do not look at the buffer unless they have
\* the mutex.
LEMMA Moved ==
  ASSUME IInv, CInv, NEW t \in Threads, NEW d, NEW q \in Places, Frame,
         Now(cur, t, d, cur'), pc' = [pc EXCEPT ![t] = q],
         (buf' = buf /\ engine' = engine) \/ lock = t,
         CallOK(flash, buf', engine', d, q)
  PROVE  CInv'
<1>1. TypeOK /\ DOMAIN cur = Threads /\ pc \in [Threads -> Places]
  BY Zenon DEF CInv, IInv
<1>2. pc' \in [Threads -> Places] /\ pc'[t] = q /\ \A u \in Threads : u # t => pc'[u] = pc[u]
  BY <1>1, Zenon
<1>3. TypeOK'
  BY <1>1, <1>2, Zenon DEF TypeOK, Frame, Buffer, Forms, Places
<1>4. DOMAIN cur' = Threads /\ cur'[t] = d /\ \A u \in Threads : u # t => cur'[u] = cur[u]
  BY <1>1, Zenon DEF Now
<1>5. flash' = flash
  BY Zenon DEF Frame
<1>6. ASSUME NEW u \in Threads PROVE CallOK(flash', buf', engine', cur'[u], pc'[u])
  <2>1. CASE u = t
    BY <1>2, <1>4, <1>5, <2>1, Zenon
  <2>2. CASE u # t
    <3>1. CallOK(flash, buf, engine, cur[u], pc[u])
      BY Facts, Zenon
    <3>2. CallOK(flash, buf', engine', cur[u], pc[u])
      <4>1. CASE buf' = buf /\ engine' = engine
        BY <3>1, <4>1, Zenon
      <4>2. CASE lock = t
        <5>1. pc[u] \notin {"decode", "poll", "copy"}
          BY <2>2, <4>2, Zenon DEF IInv, Inside, Places
        <5> QED BY <3>1, <5>1, Untouched, Zenon
      <4> QED BY <4>1, <4>2, Zenon
    <3> QED BY <1>2, <1>4, <1>5, <2>2, <3>2, Zenon
  <2> QED BY <2>1, <2>2, Zenon
<1> QED
  BY <1>3, <1>4, <1>6, Zenon DEF CInv

\* A step that leaves the calls alone.
LEMMA Still ==
  ASSUME CInv, TypeOK', flash' = flash, buf' = buf, engine' = engine, cur' = cur, pc' = pc
  PROVE  CInv'
  BY Zenon DEF CInv

\* The probe.
LEMMA ProbeStep ==
  ASSUME IInv, CInv, Probe PROVE CInv'
<1>0. TypeOK
  BY Zenon DEF CInv
<1>1. ASSUME NEW timedOut \in BOOLEAN, ProbeFails(timedOut) PROVE CInv'
  <2>1. flash' = flash /\ buf' = buf /\ engine' = engine /\ cur' = cur /\ pc' = pc
    BY <1>1, Zenon DEF ProbeFails
  <2>2. poisoned' \in BOOLEAN
    BY <1>1, Zenon DEF ProbeFails
  <2>3. timeouts' \in Nat
    BY <1>0, <1>1, SMTT(30) DEF ProbeFails, TypeOK
  <2>4. TypeOK'
    BY <1>0, <1>1, <2>2, <2>3, Zenon DEF ProbeFails, TypeOK
  <2> QED BY <2>1, <2>4, Still, Zenon
<1>2. CASE ProbeAllocates
  <2>1. TypeOK'
    BY <1>0, <1>2, Zenon DEF ProbeAllocates, TypeOK
  <2> QED BY <1>2, <2>1, Still, Zenon DEF ProbeAllocates
<1>3. CASE ProbeScans
  <2> DEFINE d == NewCall("isbad", "PLACE", scanned * PAGES_PER_BLOCK, 0, 0, 0, 0)
  <2>1. Prober \in Threads /\ "lock" \in Places
    BY Zenon DEF Threads, Places
  <2>2. scanned \in 0 .. Blocks /\ Prober \in DOMAIN cur /\ DOMAIN cur = Threads
    BY <2>1, Facts, Zenon
  <2>3. scanned \in 0 .. Blocks - 1 /\ scanned + 1 \in 0 .. Blocks
    <3>1. scanned < Blocks
      BY <1>3, Zenon DEF ProbeScans, MoreBlocks
    <3>2. Blocks \in Nat
      <4>1. PAGES \in Nat /\ PAGES_PER_BLOCK \in Nat \ {0}
        BY SpinandAssumption
      <4> QED BY <4>1, Split, Zenon DEF Blocks
    <3> QED BY <2>2, <3>1, <3>2, SMTT(30)
  <2>4. CallOK(flash, buf, engine, d, "lock")
    BY <2>3, QueryBegins, Zenon
  <2>5. Now(cur, Prober, d, cur') /\ pc' = [pc EXCEPT ![Prober] = "lock"]
    BY <1>3, <2>2, Put, Zenon DEF ProbeScans
  <2>6. Frame
    BY <1>0, <1>3, <2>3, Zenon DEF ProbeScans, Frame, TypeOK, Buffer, Forms
  <2>7. buf' = buf /\ engine' = engine
    BY <1>3, Zenon DEF ProbeScans
  <2> HIDE DEF d
  <2> QED BY <2>1, <2>4, <2>5, <2>6, <2>7, Moved, Zenon
<1>4. CASE ProbeRegistered
  <2>1. TypeOK'
    BY <1>0, <1>4, Zenon DEF ProbeRegistered, TypeOK
  <2> QED BY <1>4, <2>1, Still, Zenon DEF ProbeRegistered
<1>5. CASE ProbeRegisterFails
  <2>1. dma' \in {"none", "alloc", "freed"}
    BY <1>0, <1>5, Zenon DEF ProbeRegisterFails, BufferAfterFailure, TypeOK
  <2>2. TypeOK'
    BY <1>0, <1>5, <2>1, Zenon DEF ProbeRegisterFails, TypeOK
  <2> QED BY <1>5, <2>2, Still, Zenon DEF ProbeRegisterFails
<1> QED
  BY <1>1, <1>2, <1>3, <1>4, <1>5, Zenon DEF Probe

\* The engine finishes: only a thread that polls it looks at the buffer.
LEMMA EngineStep ==
  ASSUME IInv, CInv, EngineFinish PROVE CInv'
<1> DEFINE v == IF flash[buf.page].cell[engine].err <= Strength THEN "true" ELSE "junk"
<1>0. TypeOK /\ DOMAIN cur = Threads
  BY Zenon DEF CInv
<1>1. engine \in 1 .. SECTORS
  <2>1. engine # 0 /\ engine \in 0 .. SECTORS /\ SECTORS \in Nat
    BY <1>0, SpinandAssumption, Zenon DEF EngineFinish, TypeOK
  <2> QED BY <2>1, SMTT(30)
<1>2. flash' = flash /\ engine' = 0 /\ cur' = cur /\ pc' = pc /\ buf' = [buf EXCEPT !.form[engine] = v]
      /\ UNCHANGED <<phase, scanned, dma, poisoned, timeouts, lock>>
  BY Zenon DEF EngineFinish, ctl
<1>3. buf \in Buffer /\ v \in Forms
  BY <1>0, Zenon DEF TypeOK, Buffer, Forms
<1>4. Changed(buf, [buf.form EXCEPT ![engine] = v], buf.mark, buf')
  <2> HIDE DEF v
  <2> QED BY <1>1, <1>2, <1>3, FormBuffer, Zenon
<1>5. 0 \in 0 .. SECTORS
  BY SpinandAssumption, SMTT(30)
<1>6. TypeOK'
  <2>1. buf' \in Buffer
    BY <1>4, Zenon DEF Changed
  <2> QED BY <1>0, <1>2, <1>5, <2>1, Zenon DEF TypeOK, Buffer, Forms
<1>7. ASSUME NEW t \in Threads PROVE CallOK(flash, buf', 0, cur[t], pc[t])
  <2>1. CallOK(flash, buf, engine, cur[t], pc[t])
    BY Facts, Zenon
  <2>2. CASE pc[t] = "poll"
    <3>1. /\ buf'.page = buf.page /\ buf'.mark = buf.mark
          /\ buf'.form = [buf.form EXCEPT ![engine] = IF flash[buf.page].cell[engine].err <= Strength THEN "true" ELSE "junk"]
      BY <1>4, Zenon DEF Changed
    <3>2. CallOK(flash, buf, engine, cur[t], "poll")
      BY <2>1, <2>2, Zenon
    <3>3. CallOK(flash, buf', 0, cur[t], "poll")
      BY <1>1, <1>3, <3>1, <3>2, SectorFinished, Zenon
    <3> QED BY <2>2, <3>3, Zenon
  <2>3. CASE pc[t] # "poll"
    <3>1. pc[t] \notin {"decode", "poll", "copy"}
      BY <2>3, Zenon DEF IInv, EngineFinish
    <3> QED BY <2>1, <3>1, Untouched, Zenon
  <2> QED BY <2>2, <2>3, Zenon
<1> QED
  BY <1>0, <1>2, <1>6, <1>7, Zenon DEF CInv

\* A call begins.
LEMMA CallStep ==
  ASSUME IInv, CInv, NEW t \in Threads, Call(t) PROVE CInv'
<1>0. /\ buf \in Buffer /\ engine \in 0 .. SECTORS /\ poisoned \in BOOLEAN /\ timeouts \in Nat
      /\ t \in DOMAIN cur /\ scanned \in 0 .. Blocks /\ lock \in Threads \cup {NoOne}
  BY Facts, Zenon
<1>1. ASSUME NEW r \in Requests, BeginRead(t, r) PROVE CInv'
  <2> DEFINE c == NewCall("read", r.mode, r.from \div SECTORS, r.from % SECTORS, r.len, r.ooboffs, r.ooblen)
             refused == r.ooblen > 0 /\ r.ooboffs >= avail(r.mode)
  <2>1. Frame /\ buf' = buf /\ engine' = engine
    BY <1>0, <1>1, Zenon DEF BeginRead, Frame, ctl
  <2>2. "idle" \in Places /\ "lock" \in Places
    BY Zenon DEF Places
  <2>3. CASE refused
    <3>1. cur' = [cur EXCEPT ![t] = Returned(c, "EINVAL")] /\ pc' = [pc EXCEPT ![t] = "idle"]
      BY <1>1, <2>3, Zenon DEF BeginRead, Returned
    <3>2. CallOK(flash, buf, engine, Returned(c, "EINVAL"), "idle")
      BY ReadRefused, Zenon
    <3> HIDE DEF c
    <3>3. Now(cur, t, Returned(c, "EINVAL"), cur')
      BY <1>0, <3>1, Put, Zenon
    <3> QED BY <2>1, <2>2, <3>1, <3>2, <3>3, Moved, Zenon
  <2>4. CASE ~refused
    <3>1. cur' = [cur EXCEPT ![t] = c] /\ pc' = [pc EXCEPT ![t] = "lock"]
      BY <1>1, <2>4, Zenon DEF BeginRead
    <3>2. CallOK(flash, buf, engine, c, "lock")
      BY <2>4, ReadBegins, Zenon
    <3> HIDE DEF c
    <3>3. Now(cur, t, c, cur')
      BY <1>0, <3>1, Put, Zenon
    <3> QED BY <2>1, <2>2, <3>1, <3>2, <3>3, Moved, Zenon
  <2> QED BY <2>3, <2>4, Zenon
<1>2. ASSUME NEW b \in 0 .. Blocks - 1, BeginIsBad(t, b) PROVE CInv'
  <2> DEFINE c == NewCall("isbad", "PLACE", b * PAGES_PER_BLOCK, 0, 0, 0, 0)
  <2>1. Frame /\ buf' = buf /\ engine' = engine
    BY <1>0, <1>2, Zenon DEF BeginIsBad, Frame, ctl
  <2>2. "lock" \in Places
    BY Zenon DEF Places
  <2>3. cur' = [cur EXCEPT ![t] = c] /\ pc' = [pc EXCEPT ![t] = "lock"]
    BY <1>2, Zenon DEF BeginIsBad
  <2>4. CallOK(flash, buf, engine, c, "lock")
    BY QueryBegins, Zenon
  <2> HIDE DEF c
  <2>5. Now(cur, t, c, cur')
    BY <1>0, <2>3, Put, Zenon
  <2> QED BY <2>1, <2>2, <2>3, <2>4, <2>5, Moved, Zenon
<1> QED
  BY <1>1, <1>2, Zenon DEF Call

\* The call of thread t stays as it is.
LEMMA Kept ==
  ASSUME CInv, NEW t \in Threads, cur' = cur PROVE Now(cur, t, cur[t], cur')
<1>1. DOMAIN cur = Threads
  BY Zenon DEF CInv
<1> QED
  BY <1>1, Zenon DEF Now

\* The mutex is taken.
LEMMA LockStep ==
  ASSUME IInv, CInv, NEW t \in Threads, Lock(t) PROVE CInv'
<1> DEFINE q == IF cur[t].op = "read" THEN "loop" ELSE "marker"
<1>0. /\ buf \in Buffer /\ engine \in 0 .. SECTORS /\ poisoned \in BOOLEAN /\ timeouts \in Nat
      /\ scanned \in 0 .. Blocks /\ CallOK(flash, buf, engine, cur[t], pc[t])
  BY Facts, Zenon
<1>1. Frame /\ buf' = buf /\ engine' = engine /\ cur' = cur /\ pc' = [pc EXCEPT ![t] = q] /\ pc[t] = "lock"
  BY <1>0, Zenon DEF Lock, Frame, ctl
<1>2. q \in Places
  BY Zenon DEF Places
<1>3. CallOK(flash, buf, engine, cur[t], q)
  BY <1>0, <1>1, Locks, Zenon
<1>4. Now(cur, t, cur[t], cur')
  BY <1>1, Kept, Zenon
<1> HIDE DEF q
<1> QED
  BY <1>1, <1>2, <1>3, <1>4, Moved, Zenon

\* A call returns, and gives the mutex back.
LEMMA ReturnStep ==
  ASSUME IInv, CInv, NEW t \in Threads, pc[t] \in Inside, NEW r, Return(t, cur[t], r), UNCHANGED ctl,
         buf' \in Buffer, engine' = engine, poisoned' \in BOOLEAN, timeouts' \in Nat,
         CallOK(flash, buf', engine, Returned(cur[t], r), "idle")
  PROVE  CInv'
<1>0. /\ engine \in 0 .. SECTORS /\ scanned \in 0 .. Blocks /\ t \in DOMAIN cur
  BY Facts, Zenon
<1>1. lock = t /\ "idle" \in Places
  BY Zenon DEF IInv, Places
<1>2. Frame
  BY <1>0, Zenon DEF Return, Frame, ctl
<1>3. cur' = [cur EXCEPT ![t] = Returned(cur[t], r)] /\ pc' = [pc EXCEPT ![t] = "idle"]
  BY Zenon DEF Return, Returned
<1>4. Now(cur, t, Returned(cur[t], r), cur')
  BY <1>0, <1>3, Put, Zenon
<1> QED
  BY <1>1, <1>2, <1>3, <1>4, Moved, Zenon

\* A call fails, after a timeout or not.
LEMMA FailStep ==
  ASSUME IInv, CInv, NEW t \in Threads, pc[t] \in Inside, NEW r \in {"EINVAL", "EIO", "ETIMEDOUT"},
         Return(t, cur[t], r), UNCHANGED <<ctl, buf, engine>>, poisoned' \in BOOLEAN, timeouts' \in Nat
  PROVE  CInv'
<1>1. CallOK(flash, buf, engine, cur[t], pc[t]) /\ buf \in Buffer
  BY Facts, Zenon
<1>2. CallOK(flash, buf, engine, Returned(cur[t], r), "idle")
  BY <1>1, Fails, Zenon
<1>3. buf' = buf /\ engine' = engine /\ UNCHANGED ctl
  BY Zenon
<1> QED
  BY <1>1, <1>2, <1>3, ReturnStep, Zenon

\* The ends of a call at the head of the page loop, and the timeouts.
LEMMA EndStep ==
  ASSUME IInv, CInv, NEW t \in Threads,
         ReadDone(t) \/ ReadOffChip(t) \/ Refused(t) \/ ControllerTimeout(t) \/ BchTimeout(t)
  PROVE  CInv'
<1>0. /\ CallOK(flash, buf, engine, cur[t], pc[t]) /\ buf \in Buffer /\ poisoned \in BOOLEAN /\ timeouts \in Nat
      /\ TRUE \in BOOLEAN /\ {"loop", "marker", "page", "poll"} \subseteq Inside
  BY Facts, Zenon DEF Inside, Places
<1>1. timeouts + 1 \in Nat
  BY <1>0, SMTT(30)
<1>2. CASE ReadDone(t)
  <2> DEFINE r == IF cur[t].eccErr THEN "EBADMSG" ELSE "ok"
  <2>1. /\ pc[t] = "loop" /\ cur[t].left = 0 /\ cur[t].oobLeft = 0 /\ Return(t, cur[t], r) /\ UNCHANGED ctl
        /\ buf' = buf /\ engine' = engine /\ poisoned' = poisoned /\ timeouts' = timeouts
    BY <1>2, Zenon DEF ReadDone
  <2>2. CallOK(flash, buf, engine, Returned(cur[t], r), "idle")
    BY <1>0, <2>1, Finishes, Zenon
  <2>3. pc[t] \in Inside
    BY <1>0, <2>1, Zenon
  <2> HIDE DEF r
  <2> QED BY <1>0, <2>1, <2>2, <2>3, ReturnStep, Zenon
<1>3. CASE ReadOffChip(t)
  <2>1. /\ pc[t] \in Inside /\ Return(t, cur[t], "EINVAL") /\ UNCHANGED <<ctl, buf, engine>>
        /\ poisoned' \in BOOLEAN /\ timeouts' \in Nat
    BY <1>0, <1>3, Zenon DEF ReadOffChip
  <2> QED BY <2>1, FailStep, Zenon
<1>4. CASE Refused(t)
  <2>1. /\ pc[t] \in Inside /\ Return(t, cur[t], "EIO") /\ UNCHANGED <<ctl, buf, engine>>
        /\ poisoned' \in BOOLEAN /\ timeouts' \in Nat
    BY <1>0, <1>4, Zenon DEF Refused
  <2> QED BY <2>1, FailStep, Zenon
<1>5. CASE ControllerTimeout(t)
  <2>1. /\ pc[t] \in Inside /\ Return(t, cur[t], "ETIMEDOUT") /\ UNCHANGED <<ctl, buf, engine>>
        /\ poisoned' \in BOOLEAN /\ timeouts' \in Nat
    BY <1>0, <1>1, <1>5, Zenon DEF ControllerTimeout, TimesOut
  <2> QED BY <2>1, FailStep, Zenon
<1>6. CASE BchTimeout(t)
  <2>1. /\ pc[t] \in Inside /\ Return(t, cur[t], "ETIMEDOUT") /\ UNCHANGED <<ctl, buf, engine>>
        /\ poisoned' \in BOOLEAN /\ timeouts' \in Nat
    BY <1>0, <1>1, <1>6, Zenon DEF BchTimeout, TimesOut
  <2> QED BY <2>1, FailStep, Zenon
<1> QED
  BY <1>2, <1>3, <1>4, <1>5, <1>6, Zenon

\* What a step under the mutex may change.
Work(t) ==
    /\ UNCHANGED <<ctl, poisoned, timeouts, lock>> /\ pc[t] \in Inside
    /\ buf' \in Buffer /\ engine' \in 0 .. SECTORS

\* A step under the mutex.
LEMMA WorkStep ==
  ASSUME IInv, CInv, NEW t \in Threads, Work(t), NEW d, Now(cur, t, d, cur'), NEW q \in Places,
         pc' = [pc EXCEPT ![t] = q], CallOK(flash, buf', engine', d, q)
  PROVE  CInv'
<1>0. /\ poisoned \in BOOLEAN /\ timeouts \in Nat /\ scanned \in 0 .. Blocks /\ lock \in Threads \cup {NoOne}
  BY Facts, Zenon
<1>1. lock = t
  BY Zenon DEF IInv, Work
<1>2. Frame
  BY <1>0, Zenon DEF Work, Frame, ctl
<1> QED
  BY <1>1, <1>2, Moved, Zenon

\* A page is read, for a read.
LEMMA ReadPageStep ==
  ASSUME IInv, CInv, NEW t \in Threads, ReadPage(t) PROVE CInv'
<1> DEFINE q == IF cur[t].mode = "RAW" THEN "copy" ELSE "decode"
<1>0. /\ CallOK(flash, buf, engine, cur[t], pc[t]) /\ Typed(cur[t]) /\ flash \in Flash /\ t \in DOMAIN cur
      /\ engine \in 0 .. SECTORS
  BY Facts, Zenon
<1>1. /\ pc[t] = "loop" /\ cur[t].page < PAGES /\ buf' = Loaded(flash, cur[t].page) /\ engine' = engine
      /\ UNCHANGED <<ctl, poisoned, timeouts, lock>> /\ pc' = [pc EXCEPT ![t] = q]
      /\ cur' = [cur EXCEPT ![t].page = @ + 1, ![t].sec = 1, ![t].pageErr = FALSE]
  BY Zenon DEF ReadPage, PageInBuffer, Loaded
<1>2. cur[t].page \in 0 .. PAGES - 1
  <2>1. cur[t].page \in Nat /\ PAGES \in Nat
    BY <1>0, SpinandAssumption, Zenon DEF Typed
  <2> QED BY <1>1, <2>1, SMTT(30)
<1>3. buf' \in Buffer /\ buf'.page = cur[t].page
  BY <1>0, <1>1, <1>2, LoadedBuffer, Zenon
<1>4. q \in Places /\ "loop" \in Inside
  BY Zenon DEF Places, Inside
<1>5. CallOK(flash, buf', engine, PageTaken(cur[t]), q)
  BY <1>0, <1>1, <1>3, PageRead, Zenon
<1>6. Now(cur, t, PageTaken(cur[t]), cur')
  BY <1>0, <1>1, PutPage, Zenon
<1>7. Work(t)
  BY <1>0, <1>1, <1>3, <1>4, Zenon DEF Work
<1> HIDE DEF q
<1> QED
  BY <1>1, <1>4, <1>5, <1>6, <1>7, WorkStep, Zenon

\* The marker byte is read.
LEMMA ReadMarkerStep ==
  ASSUME IInv, CInv, NEW t \in Threads, ReadMarker(t) PROVE CInv'
<1>0. /\ CallOK(flash, buf, engine, cur[t], pc[t]) /\ Typed(cur[t]) /\ flash \in Flash /\ buf \in Buffer
      /\ engine \in 0 .. SECTORS /\ poisoned \in BOOLEAN /\ timeouts \in Nat
  BY Facts, Zenon
<1>1. /\ pc[t] = "marker" /\ buf' = [buf EXCEPT !.mark = flash[cur[t].page].raw] /\ engine' = engine
      /\ UNCHANGED <<ctl, poisoned, timeouts>>
  BY Zenon DEF ReadMarker
<1>2. CallOK(flash, buf, engine, cur[t], "marker") /\ cur[t].page < PAGES
  BY <1>0, <1>1, Zenon DEF CallOK, ReadOK, BadOK
<1>3. cur[t].page \in 0 .. PAGES - 1
  <2>1. cur[t].page \in Nat /\ PAGES \in Nat
    BY <1>0, SpinandAssumption, Zenon DEF Typed
  <2> QED BY <1>2, <2>1, SMTT(30)
<1>4. buf' \in Buffer
  <2>1. flash[cur[t].page].raw \in BOOLEAN
    BY <1>0, <1>3, Cells, Zenon
  <2>2. Changed(buf, buf.form, flash[cur[t].page].raw, buf')
    BY <1>0, <1>1, <2>1, MarkBuffer, Zenon
  <2> QED BY <2>2, Zenon DEF Changed
<1>5. pc[t] \in Inside /\ "page" \in Places
  BY <1>1, Zenon DEF Places, Inside
<1>6. CASE flash[cur[t].page].raw
  <2>1. Return(t, cur[t], "good")
    BY <1>6, Zenon DEF ReadMarker
  <2>2. CallOK(flash, buf', engine, Returned(cur[t], "good"), "idle")
    BY <1>2, <1>6, MarkerGood, Zenon
  <2>3. UNCHANGED ctl /\ poisoned' \in BOOLEAN /\ timeouts' \in Nat
    BY <1>0, <1>1, Zenon
  <2> QED BY <1>1, <1>4, <1>5, <2>1, <2>2, <2>3, ReturnStep, Zenon
<1>7. CASE ~flash[cur[t].page].raw
  <2>1. pc' = [pc EXCEPT ![t] = "page"] /\ cur' = cur /\ lock' = lock
    BY <1>7, Zenon DEF ReadMarker
  <2>2. CallOK(flash, buf', engine', cur[t], "page")
    BY <1>1, <1>2, <1>7, MarkerAsks, Zenon
  <2>3. Work(t)
    BY <1>0, <1>1, <1>4, <1>5, <2>1, Zenon DEF Work
  <2>4. Now(cur, t, cur[t], cur')
    BY <2>1, Kept, Zenon
  <2> QED BY <1>5, <2>1, <2>2, <2>3, <2>4, WorkStep, Zenon
<1> QED
  BY <1>6, <1>7, Zenon

\* The page of the marker is read.
LEMMA MarkerPageStep ==
  ASSUME IInv, CInv, NEW t \in Threads, MarkerPage(t) PROVE CInv'
<1>0. /\ CallOK(flash, buf, engine, cur[t], pc[t]) /\ Typed(cur[t]) /\ flash \in Flash /\ engine \in 0 .. SECTORS
  BY Facts, Zenon
<1>1. /\ pc[t] = "page" /\ buf' = Loaded(flash, cur[t].page) /\ engine' = engine
      /\ UNCHANGED <<ctl, poisoned, timeouts, lock>> /\ pc' = [pc EXCEPT ![t] = "decode"] /\ cur' = cur
  BY Zenon DEF MarkerPage, PageInBuffer, Loaded
<1>2. CallOK(flash, buf, engine, cur[t], "page") /\ cur[t].page < PAGES
  BY <1>0, <1>1, Zenon DEF CallOK, ReadOK, BadOK
<1>3. cur[t].page \in 0 .. PAGES - 1
  <2>1. cur[t].page \in Nat /\ PAGES \in Nat
    BY <1>0, SpinandAssumption, Zenon DEF Typed
  <2> QED BY <1>2, <2>1, SMTT(30)
<1>4. buf' \in Buffer /\ buf'.page = cur[t].page /\ buf'.mark = flash[cur[t].page].raw
  BY <1>0, <1>1, <1>3, LoadedBuffer, Zenon
<1>5. pc[t] \in Inside /\ "decode" \in Places
  BY <1>1, Zenon DEF Places, Inside
<1>6. CallOK(flash, buf', engine', cur[t], "decode")
  BY <1>1, <1>2, <1>4, PageForMarker, Zenon
<1>7. Work(t) /\ Now(cur, t, cur[t], cur')
  BY <1>0, <1>1, <1>4, <1>5, Kept, Zenon DEF Work
<1> QED
  BY <1>1, <1>5, <1>6, <1>7, WorkStep, Zenon

\* What bch_decode knows of the current sector.
LEMMA Current ==
  ASSUME IInv, CInv, NEW t \in Threads, pc[t] \in {"decode", "poll"}, cur[t].sec <= SECTORS
  PROVE  /\ CallOK(flash, buf, engine, cur[t], pc[t]) /\ flash \in Flash /\ buf \in Buffer /\ t \in DOMAIN cur
         /\ engine \in 0 .. SECTORS /\ 0 \in 0 .. SECTORS /\ cur[t].sec \in 1 .. SECTORS /\ cur[t].sec \in 0 .. SECTORS
         /\ pc[t] \in Inside /\ "decode" \in Places /\ "poll" \in Places
         /\ buf.mark \in BOOLEAN /\ flash[buf.page].mark \in BOOLEAN
         /\ Cell(t).blank \in Nat /\ Cell(t).err \in Nat
         /\ pc[t] = "decode" => engine = 0
<1>1. /\ CallOK(flash, buf, engine, cur[t], pc[t]) /\ Typed(cur[t]) /\ flash \in Flash /\ buf \in Buffer
      /\ engine \in 0 .. SECTORS /\ t \in DOMAIN cur
  BY Facts, Zenon
<1>2. cur[t].sec \in 1 .. SECTORS /\ cur[t].sec \in 0 .. SECTORS /\ 0 \in 0 .. SECTORS
  <2>1. cur[t].sec \in 1 .. SECTORS + 1 /\ SECTORS \in Nat
    BY <1>1, SpinandAssumption, Zenon DEF Typed
  <2> QED BY <2>1, SMTT(30)
<1>3. buf.page \in 0 .. PAGES - 1 /\ buf.mark \in BOOLEAN
  BY <1>1, Zenon DEF Buffer
<1>4. flash[buf.page].mark \in BOOLEAN /\ Cell(t).blank \in Nat /\ Cell(t).err \in Nat
  BY <1>1, <1>2, <1>3, Cells, Zenon DEF Cell
<1>5. pc[t] \in Inside /\ "decode" \in Places /\ "poll" \in Places /\ (pc[t] = "decode" => engine = 0)
  BY Zenon DEF IInv, Inside, Places
<1> QED
  BY <1>1, <1>2, <1>3, <1>4, <1>5, Zenon

\* A blank sector.
LEMMA SectorErasedStep ==
  ASSUME IInv, CInv, NEW t \in Threads, SectorErased(t) PROVE CInv'
<1> DEFINE m == IF cur[t].sec = 1 THEN TRUE ELSE buf.mark
           n == Higher(cur[t].bits, erased_sector(Cell(t)))
<1>1. /\ pc[t] = "decode" /\ cur[t].sec <= SECTORS /\ erased_sector(Cell(t)) >= 0 /\ engine' = engine /\ pc' = pc
      /\ UNCHANGED <<ctl, poisoned, timeouts, lock>>
      /\ buf' = [buf EXCEPT !.form[cur[t].sec] = "true", !.mark = m]
      /\ cur' = [cur EXCEPT ![t].sec = @ + 1, ![t].bits = Higher(@, erased_sector(Cell(t)))]
  BY Zenon DEF SectorErased
<1>2. /\ CallOK(flash, buf, engine, cur[t], "decode") /\ flash \in Flash /\ buf \in Buffer /\ t \in DOMAIN cur
      /\ engine \in 0 .. SECTORS /\ cur[t].sec \in 1 .. SECTORS /\ pc[t] \in Inside /\ "decode" \in Places
      /\ buf.mark \in BOOLEAN /\ Cell(t).blank \in Nat
  BY <1>1, Current, Zenon
<1>3. flash[buf.page].cell[cur[t].sec].blank <= MaxBlank
  BY <1>1, <1>2, Erased, Zenon DEF Cell
<1>4. m \in BOOLEAN /\ "true" \in Forms
  BY <1>2, Zenon DEF Forms
<1>5. Changed(buf, [buf.form EXCEPT ![cur[t].sec] = "true"], m, buf')
  <2> HIDE DEF m
  <2> QED BY <1>1, <1>2, <1>4, BothBuffer, Zenon
<1>6. /\ buf' \in Buffer /\ buf'.page = buf.page /\ buf'.form = [buf.form EXCEPT ![cur[t].sec] = "true"]
      /\ buf'.mark = IF cur[t].sec = 1 THEN TRUE ELSE buf.mark
  BY <1>5, Zenon DEF Changed
<1> HIDE DEF m
<1>7. Now(cur, t, Stepped(cur[t], n), cur')
  BY <1>1, <1>2, PutSector, Zenon
<1> HIDE DEF n
<1>8. CallOK(flash, buf', engine', Stepped(cur[t], n), "decode")
  BY <1>1, <1>2, <1>3, <1>6, SectorBlank, Zenon
<1>9. Work(t)
  BY <1>1, <1>2, <1>6, Zenon DEF Work
<1>10. pc' = [pc EXCEPT ![t] = "decode"]
  BY <1>1, Zenon DEF IInv
<1> QED
  BY <1>2, <1>7, <1>8, <1>9, <1>10, WorkStep, Zenon

\* A sector goes to the engine.
LEMMA SectorTriggerStep ==
  ASSUME IInv, CInv, NEW t \in Threads, SectorTrigger(t) PROVE CInv'
<1>1. /\ pc[t] = "decode" /\ cur[t].sec <= SECTORS /\ erased_sector(Cell(t)) < 0 /\ engine' = cur[t].sec
      /\ UNCHANGED <<ctl, poisoned, timeouts, lock>> /\ pc' = [pc EXCEPT ![t] = "poll"] /\ cur' = cur
      /\ buf' = [buf EXCEPT !.form[cur[t].sec] = "junk"]
  BY Zenon DEF SectorTrigger
<1>2. /\ CallOK(flash, buf, 0, cur[t], "decode") /\ buf \in Buffer
      /\ cur[t].sec \in 1 .. SECTORS /\ cur[t].sec \in 0 .. SECTORS /\ pc[t] \in Inside /\ "poll" \in Places
      /\ Cell(t).blank \in Nat
  BY <1>1, Current, Zenon
<1>3. flash[buf.page].cell[cur[t].sec].blank > MaxBlank
  BY <1>1, <1>2, Erased, Zenon DEF Cell
<1>4. "junk" \in Forms
  BY Zenon DEF Forms
<1>5. Changed(buf, [buf.form EXCEPT ![cur[t].sec] = "junk"], buf.mark, buf')
  BY <1>1, <1>2, <1>4, FormBuffer, Zenon
<1>6. /\ buf' \in Buffer /\ buf'.page = buf.page /\ buf'.form = [buf.form EXCEPT ![cur[t].sec] = "junk"]
      /\ buf'.mark = buf.mark
  BY <1>5, Zenon DEF Changed
<1>7. CallOK(flash, buf', cur[t].sec, cur[t], "poll")
  BY <1>1, <1>2, <1>3, <1>6, SectorGiven, Zenon
<1>8. Work(t) /\ Now(cur, t, cur[t], cur')
  BY <1>1, <1>2, <1>6, Kept, Zenon DEF Work
<1> QED
  BY <1>1, <1>2, <1>7, <1>8, WorkStep, Zenon

\* The engine is done with a sector.
LEMMA SectorDoneStep ==
  ASSUME IInv, CInv, NEW t \in Threads, SectorDone(t) PROVE CInv'
<1>1. /\ pc[t] = "poll" /\ engine = 0 /\ engine' = 0 /\ pc' = [pc EXCEPT ![t] = "decode"]
      /\ UNCHANGED <<ctl, poisoned, timeouts, lock>>
  BY Zenon DEF SectorDone
<1>2. cur[t].sec <= SECTORS
  <2>1. CallOK(flash, buf, engine, cur[t], "poll")
    BY <1>1, Facts, Zenon
  <2> QED BY <2>1, Zenon DEF CallOK, ReadOK, BadOK, Decoded
<1>3. /\ CallOK(flash, buf, 0, cur[t], "poll") /\ flash \in Flash /\ buf \in Buffer /\ t \in DOMAIN cur
      /\ 0 \in 0 .. SECTORS /\ pc[t] \in Inside /\ "decode" \in Places
      /\ buf.mark \in BOOLEAN /\ flash[buf.page].mark \in BOOLEAN /\ Cell(t).err \in Nat
  BY <1>1, <1>2, Current, Zenon
<1>4. CASE Cell(t).err > Strength
  <2>1. buf' = buf /\ cur' = [cur EXCEPT ![t].sec = @ + 1, ![t].pageErr = TRUE]
    BY <1>4, Zenon DEF SectorDone
  <2>2. CallOK(flash, buf', engine', Skipped(cur[t]), "decode")
    BY <1>1, <1>3, <1>4, <2>1, SectorLost, Zenon DEF Cell
  <2>3. Now(cur, t, Skipped(cur[t]), cur')
    BY <1>3, <2>1, PutSectorErr, Zenon
  <2>4. Work(t)
    BY <1>1, <1>3, <2>1, Zenon DEF Work
  <2> QED BY <1>1, <1>3, <2>2, <2>3, <2>4, WorkStep, Zenon
<1>5. CASE ~(Cell(t).err > Strength)
  <2> DEFINE m == IF cur[t].sec = 1 THEN flash[buf.page].mark ELSE buf.mark
             n == Higher(cur[t].bits, Cell(t).err)
  <2>1. /\ cur' = [cur EXCEPT ![t].sec = @ + 1, ![t].bits = Higher(@, Cell(t).err)]
        /\ buf' = [buf EXCEPT !.mark = m]
    BY <1>5, Zenon DEF SectorDone
  <2>2. m \in BOOLEAN
    BY <1>3, Zenon
  <2>3. Changed(buf, buf.form, m, buf')
    <3> HIDE DEF m
    <3> QED BY <1>3, <2>1, <2>2, MarkBuffer, Zenon
  <2>4. /\ buf' \in Buffer /\ buf'.page = buf.page /\ buf'.form = buf.form
        /\ buf'.mark = IF cur[t].sec = 1 THEN flash[buf.page].mark ELSE buf.mark
    BY <2>3, Zenon DEF Changed
  <2> HIDE DEF m
  <2>5. flash[buf.page].cell[cur[t].sec].err <= Strength
    <3>1. Cell(t).err <= Strength
      BY <1>3, <1>5, SMTT(30) DEF Strength
    <3> QED BY <3>1, Zenon DEF Cell
  <2>6. Now(cur, t, Stepped(cur[t], n), cur')
    BY <1>3, <2>1, PutSector, Zenon
  <2> HIDE DEF n
  <2>7. CallOK(flash, buf', engine', Stepped(cur[t], n), "decode")
    BY <1>1, <1>3, <2>4, <2>5, SectorPolled, Zenon
  <2>8. Work(t)
    BY <1>1, <1>3, <2>4, Zenon DEF Work
  <2> QED BY <1>1, <1>3, <2>6, <2>7, <2>8, WorkStep, Zenon
<1> QED
  BY <1>4, <1>5, Zenon

\* The page is decoded.
LEMMA DecodeEndStep ==
  ASSUME IInv, CInv, NEW t \in Threads, DecodeEnd(t) PROVE CInv'
<1>0. /\ CallOK(flash, buf, engine, cur[t], pc[t]) /\ buf \in Buffer /\ t \in DOMAIN cur
      /\ engine \in 0 .. SECTORS /\ poisoned \in BOOLEAN /\ timeouts \in Nat
  BY Facts, Zenon
<1>1. /\ pc[t] = "decode" /\ cur[t].sec > SECTORS /\ UNCHANGED <<ctl, poisoned, timeouts>>
      /\ buf' = buf /\ engine' = engine
  BY Zenon DEF DecodeEnd
<1>2. CallOK(flash, buf, engine, cur[t], "decode") /\ pc[t] \in Inside /\ "copy" \in Places
  BY <1>0, <1>1, Zenon DEF Inside, Places
<1>3. CASE cur[t].op = "read"
  <2>1. pc' = [pc EXCEPT ![t] = "copy"] /\ cur' = [cur EXCEPT ![t].eccErr = @ \/ cur[t].pageErr] /\ lock' = lock
    BY <1>3, Zenon DEF DecodeEnd
  <2>2. CallOK(flash, buf', engine', WithError(cur[t]), "copy")
    BY <1>0, <1>1, <1>2, <1>3, PageDecoded, Zenon
  <2>3. Now(cur, t, WithError(cur[t]), cur')
    BY <1>0, <2>1, PutErr, Zenon
  <2>4. Work(t)
    BY <1>0, <1>1, <1>2, <2>1, Zenon DEF Work
  <2> QED BY <1>2, <2>1, <2>2, <2>3, <2>4, WorkStep, Zenon
<1>4. CASE cur[t].op # "read"
  <2> DEFINE r == IF cur[t].pageErr \/ ~buf.mark THEN "bad" ELSE "good"
  <2>1. Return(t, cur[t], r)
    BY <1>4, Zenon DEF DecodeEnd, Verdict
  <2>2. CallOK(flash, buf, engine, Returned(cur[t], r), "idle")
    BY <1>1, <1>2, <1>4, MarkerDecoded, Zenon
  <2> HIDE DEF r
  <2>3. UNCHANGED ctl /\ poisoned' \in BOOLEAN /\ timeouts' \in Nat
    BY <1>0, <1>1, Zenon
  <2> QED BY <1>0, <1>1, <1>2, <2>1, <2>2, <2>3, ReturnStep, Zenon
<1> QED
  BY <1>3, <1>4, Zenon

\* The page is copied.
LEMMA CopyOutStep ==
  ASSUME IInv, CInv, NEW t \in Threads, CopyOut(t) PROVE CInv'
<1>0. /\ CallOK(flash, buf, engine, cur[t], pc[t]) /\ buf \in Buffer /\ t \in DOMAIN cur
      /\ engine \in 0 .. SECTORS
  BY Facts, Zenon
<1>1. /\ pc[t] = "copy" /\ pc' = [pc EXCEPT ![t] = "loop"] /\ UNCHANGED <<ctl, poisoned, timeouts, lock>>
      /\ buf' = buf /\ engine' = engine
  BY Zenon DEF CopyOut
<1>2. cur' = [cur EXCEPT ![t] = CopiedOut(buf, cur[t])]
  BY Zenon DEF CopyOut, CopiedOut, DatPart, OobPart, DatChunk, OobChunk, Skip
<1>3. CallOK(flash, buf', engine', CopiedOut(buf, cur[t]), "loop")
  BY <1>0, <1>1, CopyStep, Zenon
<1>4. Now(cur, t, CopiedOut(buf, cur[t]), cur')
  BY <1>0, <1>2, Put, Zenon
<1>5. Work(t) /\ "loop" \in Places
  BY <1>0, <1>1, Zenon DEF Work, Inside, Places
<1> QED
  BY <1>1, <1>3, <1>4, <1>5, WorkStep, Zenon

\* Every step keeps the second invariant.
LEMMA StepCInv == IInv /\ CInv /\ [Next]_vars => CInv'
<1> SUFFICES ASSUME IInv, CInv, [Next]_vars PROVE CInv'
  OBVIOUS
<1>1. ASSUME NEW t \in Threads, Step(t) PROVE CInv'
  BY <1>1, EndStep, ReadPageStep, ReadMarkerStep, MarkerPageStep, SectorErasedStep, SectorTriggerStep,
     SectorDoneStep, DecodeEndStep, CopyOutStep, Zenon DEF Step
<1>2. CASE UNCHANGED vars
  <2>1. TypeOK
    BY Zenon DEF CInv
  <2>2. TypeOK'
    BY <1>2, <2>1, Zenon DEF vars, TypeOK
  <2> QED BY <1>2, <2>2, Still, Zenon DEF vars
<1> QED
  BY <1>1, <1>2, ProbeStep, EngineStep, CallStep, LockStep, Zenon DEF Next

\* The state before the probe satisfies it.
LEMMA InitCInv == Init => CInv
<1> SUFFICES ASSUME Init PROVE CInv
  OBVIOUS
<1> DEFINE c == NewCall("isbad", "PLACE", 0, 0, 0, 0, 0)
<1>1. /\ flash \in FlashImages /\ phase = "probe" /\ scanned = 0 /\ dma = "none"
      /\ buf = [page |-> 0, form |-> [s \in 1 .. SECTORS |-> "junk"], mark |-> TRUE]
      /\ poisoned = FALSE /\ timeouts = 0 /\ engine = 0 /\ lock = NoOne
      /\ pc = [t \in Threads |-> "idle"] /\ cur = [t \in Threads |-> c]
  BY Zenon DEF Init
<1>2. PAGES \in Nat \ {0} /\ SECTORS \in Nat \ {0} /\ Blocks \in Nat
  <2>1. PAGES \in Nat \ {0} /\ SECTORS \in Nat \ {0} /\ PAGES_PER_BLOCK \in Nat \ {0} /\ PAGES \in Nat
    BY SpinandAssumption
  <2> QED BY <2>1, Split, Zenon DEF Blocks
<1>3. 0 \in 0 .. PAGES - 1 /\ 0 \in 0 .. SECTORS /\ 0 \in 0 .. Blocks /\ 0 \in Nat /\ 0 < PAGES /\ 0 * SECTORS + 0 = 0
      /\ 1 \in 1 .. SECTORS + 1 /\ <<>> \in Seq(Nat \X Nat \X Forms) /\ <<>> \in Seq(Nat \X Nat)
  BY <1>2, SMTT(30)
<1>4. buf \in Buffer
  <2>1. [s \in 1 .. SECTORS |-> "junk"] \in [1 .. SECTORS -> Forms]
    BY Zenon DEF Forms
  <2> QED BY <1>1, <1>3, <2>1, Zenon DEF Buffer
<1>5. TypeOK
  <2>1. flash \in Flash
    BY <1>1, InputAssumption, Zenon DEF Flash
  <2> QED BY <1>1, <1>3, <1>4, <2>1, Zenon DEF TypeOK, Buffer, Forms, Flash
<1>6. CallOK(flash, buf, engine, c, "idle")
  <2>1. /\ DOMAIN c = Fields /\ c.op = "isbad" /\ c.mode = "PLACE" /\ c.page = 0 /\ c.off = 0 /\ c.left = 0
        /\ c.oobOff = 0 /\ c.oobLeft = 0 /\ c.sec = 1 /\ c.pageErr = FALSE /\ c.eccErr = FALSE
        /\ c.dat = <<>> /\ c.oob = <<>> /\ c.ret = "none" /\ c.req.from = 0 * SECTORS + 0 /\ c.req.ooboffs = 0
    BY SMTT(30) DEF NewCall, Fields
  <2> HIDE DEF c
  <2>2. Typed(c)
    BY <1>3, <2>1, Zenon DEF Typed, Modes, Results
  <2>3. BadOK(flash, buf, engine, c, "idle")
    BY <1>3, <2>1, Zenon DEF BadOK
  <2> QED BY <2>1, <2>2, <2>3, Zenon DEF CallOK
<1> HIDE DEF c
<1> QED
  BY <1>1, <1>5, <1>6, Zenon DEF CInv

\* Both invariants hold in every behaviour.
LEMMA AlwaysCInv == Spec => [](IInv /\ CInv)
<1>1. Init => IInv /\ CInv
  BY InitIInv, InitCInv
<1>2. (IInv /\ CInv) /\ [Next]_vars => (IInv /\ CInv)'
  BY StepIInv, StepCInv
<1> QED
  BY <1>1, <1>2, PTL DEF Spec

-----------------------------------------------------------------------------
(* What the calls return.                                                  *)

\* Every variable of the driver keeps its type.
THEOREM TypeOKHolds == Spec => []TypeOK
<1>1. IInv /\ CInv => TypeOK
  BY Zenon DEF CInv
<1> QED
  BY AlwaysCInv, <1>1, PTL

\* A sequence by its elements.
LEMMA Elements ==
  ASSUME NEW S, NEW s \in Seq(S)
  PROVE  Len(s) \in Nat /\ Len(s) + 0 = Len(s) /\ s = [i \in 1 .. Len(s) |-> s[i]]
  BY SMTT(30)

\* A read that has returned.
LEMMA ReadReturned ==
  ASSUME CInv, NEW t \in Readers, cur[t].op = "read", pc[t] = "idle"
  PROVE  LET c == cur[t]
             lost == \E q \in PagesRead(c) : \E s \in 1 .. SECTORS : ~Decodable(flash[q].cell[s])
         IN  /\ [i \in 1 .. Len(c.dat) |-> <<c.dat[i][1], c.dat[i][2]>>] = ExpectedDat(c.req, Len(c.dat))
             /\ c.oob = ExpectedOob(c.req, c.mode, Len(c.oob))
             /\ c.ret \in {"ok", "EBADMSG"} =>
                  Len(c.dat) = c.req.len /\ Len(c.oob) = c.req.ooblen
             /\ c.ret = "ok" /\ c.mode # "RAW" =>
                  /\ ~lost
                  /\ \A i \in 1 .. Len(c.dat) : c.dat[i][3] = "true"
             /\ c.ret = "EBADMSG" => lost
<1> DEFINE c == cur[t]
           lost == \E q \in PagesRead(c) : \E s \in 1 .. SECTORS : ~Decodable(flash[q].cell[s])
<1>1. Typed(c) /\ ReadOK(flash, buf, engine, c, "idle")
  <2>1. t \in Threads
    BY Zenon DEF Threads
  <2>2. CallOK(flash, buf, engine, c, "idle")
    BY <2>1, Facts, Zenon
  <2> QED BY <2>2, Zenon DEF CallOK
<1> HIDE DEF c
<1>2. /\ Delivered(c) /\ Counts(c) /\ Pure(c)
      /\ c.ret \in {"ok", "EBADMSG"} =>
           c.left = 0 /\ c.oobLeft = 0 /\ Errs(flash, c, c.page) /\ (c.ret = "EBADMSG" <=> c.eccErr)
  BY <1>1, Zenon DEF ReadOK
<1>3. /\ Len(c.dat) + 0 = Len(c.dat) /\ Len(c.oob) + 0 = Len(c.oob)
      /\ c.oob = [i \in 1 .. Len(c.oob) |-> c.oob[i]]
  <2>1. c.dat \in Seq(Nat \X Nat \X Forms) /\ c.oob \in Seq(Nat \X Nat)
    BY <1>1, Zenon DEF Typed
  <2> QED BY <2>1, Elements, Zenon
<1>4. [i \in 1 .. Len(c.dat) |-> <<c.dat[i][1], c.dat[i][2]>>] = ExpectedDat(c.req, Len(c.dat))
  BY <1>2, Zenon DEF Delivered, ExpectedDat
<1>5. c.oob = ExpectedOob(c.req, c.mode, Len(c.oob))
  <2>1. [i \in 1 .. Len(c.oob) |-> c.oob[i]] = ExpectedOob(c.req, c.mode, Len(c.oob))
    BY <1>2, Zenon DEF Delivered, ExpectedOob, First, Skip
  <2> QED BY <1>3, <2>1, Zenon
<1>6. c.ret \in {"ok", "EBADMSG"} => Len(c.dat) = c.req.len /\ Len(c.oob) = c.req.ooblen
  BY <1>2, <1>3, Zenon DEF Counts
<1>7. lost <=> \E q \in 0 .. PAGES - 1 : First(c) <= q /\ q < c.page /\ Lost(flash, q)
  BY Zenon DEF PagesRead, Lost, First
<1> HIDE DEF lost
<1>8. c.ret = "ok" /\ c.mode # "RAW" => ~lost /\ \A i \in 1 .. Len(c.dat) : c.dat[i][3] = "true"
  BY <1>2, <1>7, Zenon DEF Errs, Pure
<1>9. c.ret = "EBADMSG" => lost
  BY <1>2, <1>7, Zenon DEF Errs
<1> QED
  BY <1>4, <1>5, <1>6, <1>8, <1>9, Zenon DEF c, lost

\* nand_read_oob hands back what was asked for: the requested data and oob in
\* order, complete unless it failed, corrected on success, and EBADMSG exactly
\* when a page could not be decoded; for any request, on any flash, with any
\* number of other readers and timeouts.
THEOREM ReadReturnsRequestHolds == Spec => []ReadReturnsRequest
<1>1. IInv /\ CInv => ReadReturnsRequest
  BY ReadReturned, Zenon DEF ReadReturnsRequest
<1> QED
  BY AlwaysCInv, <1>1, PTL

\* The verdict of a bad-block query.
LEMMA QueryReturned ==
  ASSUME CInv, NEW t \in Threads, cur[t].op = "isbad"
  PROVE  LET p == flash[cur[t].page]
             whole == \A s \in 1 .. SECTORS : Decodable(p.cell[s])
             fixed == p.mark \/ erased_sector(p.cell[1]) >= 0
         IN  /\ cur[t].ret = "good" => p.raw \/ (whole /\ fixed)
             /\ cur[t].ret = "bad" => ~p.raw /\ ~(whole /\ fixed)
<1> DEFINE c == cur[t]
           p == flash[c.page]
           whole == \A s \in 1 .. SECTORS : Decodable(p.cell[s])
           fixed == p.mark \/ erased_sector(p.cell[1]) >= 0
<1>1. Typed(c) /\ BadOK(flash, buf, engine, c, pc[t]) /\ flash \in Flash
  <2>1. CallOK(flash, buf, engine, c, pc[t]) /\ flash \in Flash
    BY Facts, Zenon
  <2> QED BY <2>1, Zenon DEF CallOK
<1>2. /\ c.page < PAGES
      /\ c.ret = "good" => p.raw \/ (~Lost(flash, c.page) /\ Fixed(p))
      /\ c.ret = "bad" => ~p.raw /\ (Lost(flash, c.page) \/ ~Fixed(p))
  BY <1>1, Zenon DEF BadOK
<1>3. whole <=> ~Lost(flash, c.page)
  BY Zenon DEF Lost
<1>4. 1 \in 1 .. SECTORS /\ c.page \in 0 .. PAGES - 1
  <2>1. SECTORS \in Nat \ {0} /\ PAGES \in Nat \ {0} /\ c.page \in Nat
    BY <1>1, SpinandAssumption, Zenon DEF Typed
  <2> HIDE DEF c
  <2> QED BY <1>2, <2>1, SMTT(30)
<1>5. p.cell[1].blank \in Nat
  BY <1>1, <1>4, Cells, Zenon
<1>6. erased_sector(p.cell[1]) >= 0 <=> p.cell[1].blank <= MaxBlank
  BY <1>5, Erased, Zenon
<1>7. whole => (fixed <=> Fixed(p))
  <2>1. whole => Decodable(p.cell[1])
    BY <1>4, Zenon
  <2> QED BY <1>6, <2>1, Zenon DEF Fixed, Decodable
<1> HIDE DEF whole, fixed, p
<1>8. (c.ret = "good" => p.raw \/ (whole /\ fixed)) /\ (c.ret = "bad" => ~p.raw /\ ~(whole /\ fixed))
  BY <1>2, <1>3, <1>7, Zenon
<1> QED
  BY <1>8, Zenon DEF whole, fixed, p

\* nand_isbad calls a block good only when its marker reads 0xff, as stored or
\* corrected, and bad only when the stored byte does not; for any flash, any
\* block and any other use of the chip.
THEOREM IsBadIsConservativeHolds == Spec => []IsBadIsConservative
<1>1. IInv /\ CInv => IsBadIsConservative
  BY QueryReturned, Zenon DEF IsBadIsConservative
<1> QED
  BY AlwaysCInv, <1>1, PTL
=============================================================================
