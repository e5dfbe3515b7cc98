----------------------------- MODULE NicRxProofs -----------------------------
(***************************************************************************)
(* The receive path of the NIC driver, for any number of GMACs, rings and  *)
(* descriptors, any budget and any sequence of frames, errors, shortages   *)
(* of memory and interrupts.                                               *)
(*                                                                         *)
(* The engine never writes into a buffer that the stack has, closes and    *)
(* re-opens included. A fresh buffer is named after the frame it is        *)
(* allocated for, so the proof is that no frame is taken from a ring       *)
(* twice. It does not speak of head and tail, which a close resets beside  *)
(* a running poll.                                                         *)
(*                                                                         *)
(* Each variable keeps its type, closes and re-opens included.             *)
(*                                                                         *)
(* Until the first close each ring is a FIFO and each jumbo frame that     *)
(* goes up is one frame. This proof is about head and tail: the            *)
(* descriptors that have a fragment are those between the driver's place   *)
(* and the engine's. It takes that jumbo frames come in one ring, since    *)
(* jumboFrame is one per GMAC.                                             *)
(***************************************************************************)
EXTENDS NicRx, TLAPS

Fragments == [of : Nat, part : Nat, kind : Kinds]
Buffers == ({"ring"} \X Rings \X Nat) \cup ({"new"} \X Nat \X Nat)
Passed == [ring : Rings, frags : Seq(Fragments), buf : Buffers \cup ({"jumbo"} \X Nat \X Nat)]

\* f has a value of S for every descriptor.
Shape(f, S) ==
    /\ DOMAIN f = Gmacs
    /\ \A g \in Gmacs : DOMAIN f[g] = Rings /\ \A r \in Rings : f[g][r] \in [Slots(r) -> S]

\* f has an index of the ring for every ring.
Index(f) == DOMAIN f = Gmacs /\ \A g \in Gmacs : DOMAIN f[g] = Rings /\ \A r \in Rings : f[g][r] \in Slots(r)

Types ==
    /\ Shape(rx, Fragments) /\ Shape(buf, Buffers) /\ Index(cdo) /\ Index(tail)
    /\ inframe \in [Gmacs -> [Rings -> Fragments]]
    /\ jumbo \in [Gmacs -> Seq(Fragments)] /\ up \in [Gmacs -> Seq(Passed)]
    /\ DOMAIN pc = Gmacs /\ idx \in [Gmacs -> Nat] /\ ring_num \in [Gmacs -> Rings]
    /\ DOMAIN rxtail = Gmacs /\ \A g \in Gmacs : rxtail[g] \in Slots(ring_num[g])
    /\ nextFrame \in Nat \ {0}

\* The descriptor whose frame the poll has taken and not given back yet.
Held(g, r, i) == pc[g] = "give" /\ r = ring_num[g] /\ i = rxtail[g]

\* A descriptor with a fragment of this kind that waits to be taken.
Waits(g, r, i, kind) == rx[g][r][i].kind = kind /\ ~Held(g, r, i)

\* b is in a descriptor, or among what went up.
InRing(f, b) == \E r \in Rings : \E i \in Slots(r) : f[r][i] = b
InStack(s, b) == \E k \in 1 .. Len(s) : s[k].buf = b

\* No buffer went up twice.
Once(s) == \A j, k \in 1 .. Len(s) : s[j].buf = s[k].buf => j = k

New(f) == <<"new", f.of, f.part>>
Jumbo(n) == <<"jumbo", n, 1>>

\* No buffer is in two places.
Apart(g) ==
    /\ \A r, q \in Rings : \A i \in Slots(r), j \in Slots(q) :
         buf[g][r][i] = buf[g][q][j] => r = q /\ i = j
    /\ \A r \in Rings : \A i \in Slots(r) : ~InStack(up[g], buf[g][r][i])
    /\ Once(up[g])

\* Frames have numbers that were given out; what is named after others is nowhere.
Numbered(g) ==
    /\ \A r \in Rings : /\ inframe[g][r].of < nextFrame
                        /\ inframe[g][r] = NoFrame \/ inframe[g][r].part > 0
                        /\ \A i \in Slots(r) : rx[g][r][i].of < nextFrame
    /\ jumbo[g] # <<>> => jumbo[g][1].of < nextFrame
    /\ \A n, p \in Nat : n >= nextFrame =>
         ~InRing(buf[g], <<"new", n, p>>) /\ ~InStack(up[g], <<"new", n, p>>) /\ ~InStack(up[g], Jumbo(n))

\* The buffer for a frame that waits has not been allocated yet.
Fresh(g) ==
    \A r \in Rings : \A i \in Slots(r) : Waits(g, r, i, "whole") =>
      /\ ~InRing(buf[g], New(rx[g][r][i])) /\ ~InStack(up[g], New(rx[g][r][i]))
      /\ \A q \in Rings : \A j \in Slots(q) :
           Waits(g, q, j, "whole") /\ rx[g][q][j].of = rx[g][r][i].of => q = r /\ j = i

\* The same for jumbo frames, from their first fragment on.
FreshJumbo(g) ==
    /\ jumbo[g] # <<>> => ~InStack(up[g], Jumbo(jumbo[g][1].of))
    /\ \A r \in Rings : \A i \in Slots(r) : Waits(g, r, i, "first") =>
         /\ ~InStack(up[g], Jumbo(rx[g][r][i].of))
         /\ jumbo[g] # <<>> => jumbo[g][1].of # rx[g][r][i].of
         /\ \A q \in Rings : \A j \in Slots(q) :
              Waits(g, q, j, "first") /\ rx[g][q][j].of = rx[g][r][i].of => q = r /\ j = i

Good(g) == Apart(g) /\ Numbered(g) /\ Fresh(g) /\ FreshJumbo(g)

Kept == Types /\ \A g \in Gmacs : Good(g)

\* The poll of a GMAC runs once: re8670_rx is entered by a poll that is scheduled.
Polling ==
    /\ DOMAIN napi = Gmacs /\ DOMAIN pc = Gmacs
    /\ \A g \in Gmacs : napi[g] = "polling" \/ pc[g] = "out"

-----------------------------------------------------------------------------
(* Numbers, sequences and names.                                           *)

\* The order of frame numbers.
LEMMA Less == ASSUME NEW m \in Nat, NEW n \in Nat, NEW k \in Nat, m < n, n <= k PROVE m < k
  BY SMTT(30)

\* A number that was given out is not one that was not.
LEMMA Unused == ASSUME NEW m \in Nat, NEW n \in Nat, m < n PROVE m # n /\ \A k \in Nat : k >= n => k # m
  BY SMTT(30)

\* Numbers are given out in order.
LEMMA Larger == ASSUME NEW m \in Nat, NEW n \in Nat, m <= n PROVE \A k \in Nat : k >= n => k >= m
  BY SMTT(30)

\* The next number.
LEMMA After ==
  ASSUME NEW n \in Nat \ {0}
  PROVE  0 < n /\ n <= n /\ n >= n /\ n <= n + 1 /\ n < n + 1 /\ n + 1 \in Nat \ {0}
  BY SMTT(30)

\* The part after one is not the first.
LEMMA Later == ASSUME NEW n \in Nat PROVE n > 0 => n + 1 \in Nat /\ n + 1 > 0 /\ n + 1 # 1
  BY SMTT(30)

\* A frame begins with its first part.
LEMMA One == 1 \in Nat /\ 1 > 0
  BY SMTT(30)

\* Empty sequences, sequences of one, and first elements.
LEMMA Sequence ==
  ASSUME NEW S
  PROVE  /\ <<>> \in Seq(S)
         /\ \A f \in S : <<f>> \in Seq(S) /\ <<f>> # <<>> /\ <<f>>[1] = f
         /\ \A q \in Seq(S) : q # <<>> => q[1] \in S
  BY SMTT(30)

\* The descriptor of no frame.
LEMMA Nothing == NoFrame \in Fragments /\ NoFrame.of = 0 /\ NoFrame.kind = "none"
  BY Zenon DEF NoFrame, Fragments, Kinds

\* The buffer of a jumbo frame is named after it alone.
LEMMA Names ==
  ASSUME NEW n
  PROVE  /\ \A b \in Buffers : b # Jumbo(n)
         /\ \A c, p : <<"new", c, p>> # Jumbo(n)
         /\ \A m : Jumbo(m) = Jumbo(n) => m = n
  BY SMTT(30) DEF Buffers, Jumbo

\* A packet with buffer b goes up.
LEMMA GoesUp ==
  ASSUME NEW s \in Seq(Passed), NEW e \in Passed, NEW t, t = Append(s, e)
  PROVE  /\ t \in Seq(Passed)
         /\ \A b : InStack(t, b) <=> InStack(s, b) \/ b = e.buf
         /\ Once(s) /\ ~InStack(s, e.buf) => Once(t)
<1>1. /\ t \in Seq(Passed) /\ Len(s) \in Nat /\ Len(t) = Len(s) + 1
      /\ \A k \in 1 .. Len(s) : t[k] = s[k]
      /\ t[Len(t)] = e
  BY SMTT(30)
<1>2. \A k \in 1 .. Len(t) : k \in 1 .. Len(s) \/ k = Len(t)
  BY <1>1, SMTT(30)
<1>3. \A k \in 1 .. Len(s) : k \in 1 .. Len(t)
  BY <1>1, SMTT(30)
<1>4. Len(t) \in 1 .. Len(t)
  BY <1>1, SMTT(30)
<1>5. ASSUME NEW b PROVE InStack(t, b) <=> InStack(s, b) \/ b = e.buf
  BY <1>1, <1>2, <1>3, <1>4, Zenon DEF InStack
<1>6. ASSUME Once(s), ~InStack(s, e.buf) PROVE Once(t)
  BY <1>1, <1>2, <1>6, SMTT(30) DEF InStack, Once
<1> QED
  BY <1>1, <1>5, <1>6, Zenon

\* A sequence that grows keeps its first element.
LEMMA Longer ==
  ASSUME NEW s \in Seq(Fragments), NEW e \in Fragments
  PROVE  /\ Append(s, e) \in Seq(Fragments) /\ Append(s, e) # <<>>
         /\ s # <<>> => Append(s, e)[1] = s[1] /\ s[1] \in Fragments
<1>1. /\ Append(s, e) \in Seq(Fragments) /\ Len(s) \in Nat /\ Len(Append(s, e)) = Len(s) + 1
      /\ \A k \in 1 .. Len(s) : Append(s, e)[k] = s[k] /\ s[k] \in Fragments
  BY SMTT(30)
<1>2. s # <<>> => 1 \in 1 .. Len(s)
  BY SMTT(30)
<1>3. Append(s, e) # <<>>
  BY <1>1, SMTT(30)
<1> QED
  BY <1>1, <1>2, <1>3, Zenon

-----------------------------------------------------------------------------
(* Descriptors.                                                            *)

\* Two descriptors have two buffers.
LEMMA OneBuffer ==
  ASSUME NEW g, Apart(g)
  PROVE  \A r, q \in Rings : \A i \in Slots(r), j \in Slots(q) :
           buf[g][r][i] = buf[g][q][j] => r = q /\ i = j
  BY Zenon DEF Apart

\* Two frames that wait have two numbers.
LEMMA OneWhole ==
  ASSUME NEW g, Fresh(g), NEW r \in Rings, NEW i \in Slots(r), NEW q \in Rings, NEW j \in Slots(q),
         Waits(g, r, i, "whole"), Waits(g, q, j, "whole"), rx[g][q][j].of = rx[g][r][i].of
  PROVE  q = r /\ j = i
  BY Zenon DEF Fresh

\* The same for jumbo frames.
LEMMA OneFirst ==
  ASSUME NEW g, FreshJumbo(g), NEW r \in Rings, NEW i \in Slots(r), NEW q \in Rings, NEW j \in Slots(q),
         Waits(g, r, i, "first"), Waits(g, q, j, "first"), rx[g][q][j].of = rx[g][r][i].of
  PROVE  q = r /\ j = i
  BY Zenon DEF FreshJumbo

\* The buffer for a frame that waits is nowhere.
LEMMA NewWhole ==
  ASSUME NEW g, Fresh(g), NEW r \in Rings, NEW i \in Slots(r), Waits(g, r, i, "whole")
  PROVE  ~InRing(buf[g], New(rx[g][r][i])) /\ ~InStack(up[g], New(rx[g][r][i]))
  BY Zenon DEF Fresh

\* The same for jumbo frames.
LEMMA NewFirst ==
  ASSUME NEW g, FreshJumbo(g), NEW r \in Rings, NEW i \in Slots(r), Waits(g, r, i, "first")
  PROVE  ~InStack(up[g], Jumbo(rx[g][r][i].of)) /\ (jumbo[g] # <<>> => jumbo[g][1].of # rx[g][r][i].of)
  BY Zenon DEF FreshJumbo

\* NEXT_RX stays in the ring.
LEMMA NextInRing == ASSUME NEW r \in Rings, NEW i \in Slots(r) PROVE NEXT_RX(i, r) \in Slots(r)
<1>1. RING[r] \in Nat \ {0} /\ i \in Nat
  BY NicRxAssumption, SMTT(30) DEF Slots
<1> QED
  BY <1>1, SMTT(30) DEF NEXT_RX, Slots

\* Every ring has a first descriptor.
LEMMA FirstSlot == \A r \in Rings : 0 \in Slots(r)
  BY NicRxAssumption, SMTT(30) DEF Slots, Rings

\* A descriptor is set to v.
Put(f, g, r, i, v) == [f EXCEPT ![g][r][i] = v]

\* It has that value in e, and all others are as they are in f.
Changed(e, f, S, g, r, i, v) ==
    /\ Shape(e, S) /\ e[g][r][i] = v
    /\ \A h \in Gmacs \ {g} : e[h] = f[h]
    /\ \A q \in Rings : \A j \in Slots(q) : q # r \/ j # i => e[g][q][j] = f[g][q][j]

\* What a descriptor has.
LEMMA Value ==
  ASSUME NEW f, NEW S, Shape(f, S), NEW g \in Gmacs, NEW r \in Rings, NEW i \in Slots(r)
  PROVE  f[g][r][i] \in S
<1>1. f[g][r] \in [Slots(r) -> S]
  BY Zenon DEF Shape
<1> QED
  BY <1>1, Zenon

\* Put changes one descriptor.
LEMMA Write ==
  ASSUME NEW f, NEW S, Shape(f, S), NEW g \in Gmacs, NEW r \in Rings, NEW i \in Slots(r), NEW v \in S
  PROVE  Changed(Put(f, g, r, i, v), f, S, g, r, i, v)
<1> DEFINE e == Put(f, g, r, i, v)
<1>1. DOMAIN f = Gmacs /\ DOMAIN f[g] = Rings /\ f[g][r] \in [Slots(r) -> S]
  BY Zenon DEF Shape
<1>2. /\ DOMAIN e = Gmacs /\ DOMAIN e[g] = Rings /\ \A h \in Gmacs \ {g} : e[h] = f[h]
      /\ \A q \in Rings \ {r} : e[g][q] = f[g][q]
      /\ e[g][r] = [f[g][r] EXCEPT ![i] = v]
  BY <1>1, Zenon DEF Put
<1> HIDE DEF e
<1>3. Shape(e, S)
  <2>1. ASSUME NEW h \in Gmacs \ {g} PROVE DOMAIN e[h] = Rings /\ \A q \in Rings : e[h][q] \in [Slots(q) -> S]
    BY <1>2, Zenon DEF Shape
  <2>2. \A q \in Rings \ {r} : e[g][q] \in [Slots(q) -> S]
    BY <1>2, Zenon DEF Shape
  <2>3. e[g][r] \in [Slots(r) -> S]
    BY <1>1, <1>2, Zenon
  <2> QED BY <1>2, <2>1, <2>2, <2>3, Zenon DEF Shape
<1>4. e[g][r][i] = v
  BY <1>1, <1>2, Zenon
<1>5. ASSUME NEW q \in Rings, NEW j \in Slots(q), q # r \/ j # i PROVE e[g][q][j] = f[g][q][j]
  <2>1. CASE q # r
    BY <1>2, <2>1, Zenon
  <2>2. CASE q = r
    BY <1>1, <1>2, <1>5, <2>2, Zenon
  <2> QED BY <2>1, <2>2, Zenon
<1>6. Changed(e, f, S, g, r, i, v)
  BY <1>2, <1>3, <1>4, <1>5, Zenon DEF Changed
<1> QED
  BY <1>6, Zenon DEF e

\* A write to one index.
LEMMA Move ==
  ASSUME NEW f, Index(f), NEW g \in Gmacs, NEW r \in Rings, NEW i \in Slots(r)
  PROVE  Index([f EXCEPT ![g][r] = i])
  BY Zenon DEF Index

\* All indices of a GMAC are set to 0.
LEMMA Reset ==
  ASSUME NEW f, Index(f), NEW g \in Gmacs PROVE Index([f EXCEPT ![g] = [r \in Rings |-> 0]])
  BY FirstSlot, Zenon DEF Index

\* pri_map names rings.
LEMMA NextRing ==
  ASSUME NEW g \in Gmacs, idx[g] \in Nat, NEW i \in ToDo(g) PROVE i \in Nat /\ pri_map(i) \in Rings
  BY NicRxAssumption, SMTT(30) DEF ToDo, pri_map, Rings

\* The rings are filled, every descriptor with a buffer of its own.
LEMMA Initially == Init => Polling /\ Kept
<1> SUFFICES ASSUME Init PROVE Polling /\ Kept
  BY Zenon
<1>1. Polling
  BY Zenon DEF Init, Polling
<1>2. NoFrame \in Fragments /\ NoFrame.of = 0 /\ NoFrame.kind = "none"
  BY Zenon DEF NoFrame, Fragments, Kinds
<1>3. Types
  <2>1. Shape(rx, Fragments)
    BY <1>2, Zenon DEF Init, Shape
  <2>2. Shape(buf, Buffers)
    <3>1. \A r \in Rings : \A i \in Slots(r) : <<"ring", r, i>> \in Buffers
      BY NicRxAssumption, SMTT(30) DEF Buffers, Slots
    <3> QED BY <3>1, Zenon DEF Init, Shape
  <2>3. Index(cdo) /\ Index(tail)
    BY FirstSlot, Zenon DEF Init, Index
  <2>4. /\ inframe \in [Gmacs -> [Rings -> Fragments]]
        /\ jumbo \in [Gmacs -> Seq(Fragments)] /\ up \in [Gmacs -> Seq(Passed)]
        /\ DOMAIN pc = Gmacs /\ idx \in [Gmacs -> Nat] /\ nextFrame \in Nat \ {0}
    BY <1>2, SMTT(30) DEF Init
  <2>5. 0 \in Rings
    BY NicRxAssumption, SMTT(30) DEF Rings
  <2>6. /\ ring_num \in [Gmacs -> Rings]
        /\ DOMAIN rxtail = Gmacs /\ \A g \in Gmacs : rxtail[g] \in Slots(ring_num[g])
    BY <2>5, FirstSlot, Zenon DEF Init
  <2> QED BY <2>1, <2>2, <2>3, <2>4, <2>6, Zenon DEF Types
<1>4. ASSUME NEW g \in Gmacs PROVE Good(g)
  <2>1. /\ \A r \in Rings : inframe[g][r] = NoFrame
        /\ \A r \in Rings : \A i \in Slots(r) : rx[g][r][i] = NoFrame /\ buf[g][r][i] = <<"ring", r, i>>
        /\ jumbo[g] = <<>> /\ up[g] = <<>> /\ nextFrame = 1
    BY Zenon DEF Init
  <2>2. \A b : ~InStack(up[g], b)
    BY <2>1, SMTT(30) DEF InStack
  <2>3. Once(up[g])
    BY <2>1, SMTT(30) DEF Once
  <2>4. \A n, p : ~InRing(buf[g], <<"new", n, p>>)
    BY <2>1, SMTT(30) DEF InRing
  <2>5. Apart(g)
    BY <2>1, <2>2, <2>3, SMTT(30) DEF Apart
  <2>6. Numbered(g)
    BY <1>2, <2>1, <2>2, <2>4, SMTT(30) DEF Numbered
  <2>7. \A r \in Rings : \A i \in Slots(r) : ~Waits(g, r, i, "whole") /\ ~Waits(g, r, i, "first")
    BY <1>2, <2>1, Zenon DEF Waits
  <2>8. Fresh(g) /\ FreshJumbo(g)
    BY <2>1, <2>7, Zenon DEF Fresh, FreshJumbo
  <2> QED BY <2>5, <2>6, <2>8, Zenon DEF Good
<1> QED
  BY <1>1, <1>3, <1>4, Zenon DEF Kept

-----------------------------------------------------------------------------
(* Steps that take no frame.                                               *)

\* Buffers that stay in the ring are apart, also when others go up.
LEMMA MoreUp ==
  ASSUME NEW g, Apart(g), buf'[g] = buf[g], Once(up'[g]),
         \A r \in Rings : \A i \in Slots(r) : ~InStack(up'[g], buf[g][r][i])
  PROVE  Apart(g)'
<1>1. \A r, q \in Rings : \A i \in Slots(r), j \in Slots(q) :
        buf'[g][r][i] = buf'[g][q][j] => r = q /\ i = j
  BY SMTT(30) DEF Apart
<1>2. \A r \in Rings : \A i \in Slots(r) : ~InStack(up'[g], buf'[g][r][i])
  BY Zenon
<1> QED
  BY <1>1, <1>2, Zenon DEF Apart

\* Buffers that do not move stay apart.
LEMMA StaysApart == ASSUME NEW g, Apart(g), buf'[g] = buf[g], up'[g] = up[g] PROVE Apart(g)'
<1>1. Once(up'[g]) /\ \A r \in Rings : \A i \in Slots(r) : ~InStack(up'[g], buf[g][r][i])
  BY Zenon DEF Apart
<1> QED
  BY <1>1, MoreUp, Zenon

\* Frames stay fresh when others leave and buffers move that are not theirs.
LEMMA StaysFresh ==
  ASSUME NEW g, Fresh(g),
         \A r \in Rings : \A i \in Slots(r) : Waits(g, r, i, "whole")' =>
           /\ Waits(g, r, i, "whole") /\ rx'[g][r][i] = rx[g][r][i]
           /\ ~InRing(buf'[g], New(rx[g][r][i])) /\ ~InStack(up'[g], New(rx[g][r][i]))
  PROVE  Fresh(g)'
<1> SUFFICES ASSUME NEW r \in Rings, NEW i \in Slots(r), Waits(g, r, i, "whole")'
             PROVE  /\ ~InRing(buf'[g], New(rx'[g][r][i])) /\ ~InStack(up'[g], New(rx'[g][r][i]))
                    /\ \A q \in Rings : \A j \in Slots(q) :
                         Waits(g, q, j, "whole")' /\ rx'[g][q][j].of = rx'[g][r][i].of => q = r /\ j = i
  BY Zenon DEF Fresh
<1>1. /\ Waits(g, r, i, "whole") /\ rx'[g][r][i] = rx[g][r][i]
      /\ ~InRing(buf'[g], New(rx[g][r][i])) /\ ~InStack(up'[g], New(rx[g][r][i]))
  BY Zenon
<1>2. ASSUME NEW q \in Rings, NEW j \in Slots(q), Waits(g, q, j, "whole")', rx'[g][q][j].of = rx'[g][r][i].of
      PROVE  q = r /\ j = i
  <2>1. Waits(g, q, j, "whole") /\ rx[g][q][j].of = rx[g][r][i].of
    BY <1>1, <1>2, Zenon
  <2> QED BY <1>1, <2>1, OneWhole, Zenon
<1> QED
  BY <1>1, <1>2, Zenon

\* The same for jumbo frames, of which the one in jumboFrame may go up.
LEMMA StaysFreshJumbo ==
  ASSUME NEW g, FreshJumbo(g),
         jumbo'[g] # <<>> => /\ jumbo[g] # <<>> /\ jumbo'[g][1] = jumbo[g][1]
                             /\ \A n : InStack(up'[g], Jumbo(n)) => InStack(up[g], Jumbo(n)),
         \A n : InStack(up'[g], Jumbo(n)) => InStack(up[g], Jumbo(n)) \/ (jumbo[g] # <<>> /\ n = jumbo[g][1].of),
         \A r \in Rings : \A i \in Slots(r) : Waits(g, r, i, "first")' =>
           Waits(g, r, i, "first") /\ rx'[g][r][i] = rx[g][r][i]
  PROVE  FreshJumbo(g)'
<1>1. jumbo'[g] # <<>> => ~InStack(up'[g], Jumbo(jumbo'[g][1].of))
  <2>1. jumbo[g] # <<>> => ~InStack(up[g], Jumbo(jumbo[g][1].of))
    BY Zenon DEF FreshJumbo
  <2> QED BY <2>1, SMTT(30)
<1>2. ASSUME NEW r \in Rings, NEW i \in Slots(r), Waits(g, r, i, "first")'
      PROVE  /\ ~InStack(up'[g], Jumbo(rx'[g][r][i].of))
             /\ jumbo'[g] # <<>> => jumbo'[g][1].of # rx'[g][r][i].of
             /\ \A q \in Rings : \A j \in Slots(q) :
                  Waits(g, q, j, "first")' /\ rx'[g][q][j].of = rx'[g][r][i].of => q = r /\ j = i
  <2>1. Waits(g, r, i, "first") /\ rx'[g][r][i] = rx[g][r][i]
    BY <1>2, Zenon
  <2>2. ~InStack(up[g], Jumbo(rx[g][r][i].of)) /\ (jumbo[g] # <<>> => jumbo[g][1].of # rx[g][r][i].of)
    BY <2>1, SMTT(30) DEF FreshJumbo
  <2>3. ASSUME NEW q \in Rings, NEW j \in Slots(q), Waits(g, q, j, "first")', rx'[g][q][j].of = rx'[g][r][i].of
        PROVE  q = r /\ j = i
    <3>1. Waits(g, q, j, "first") /\ rx[g][q][j].of = rx[g][r][i].of
      BY <2>1, <2>3, Zenon
    <3> QED BY <2>1, <3>1, OneFirst, Zenon
  <2> QED BY <2>1, <2>2, <2>3, Zenon
<1> QED
  BY <1>1, <1>2, Zenon DEF FreshJumbo

\* What is good stays so as long as no buffer moves and no frame is added: frames
\* may leave, and a jumbo frame grow or be dropped.
LEMMA Keeps ==
  ASSUME NEW g \in Gmacs, Types, Good(g), buf'[g] = buf[g], up'[g] = up[g],
         nextFrame' \in Nat, nextFrame <= nextFrame',
         \/ jumbo'[g] = <<>>
         \/ jumbo[g] # <<>> /\ jumbo'[g] # <<>> /\ jumbo'[g][1] = jumbo[g][1],
         \A r \in Rings : /\ inframe'[g][r].of < nextFrame'
                          /\ inframe'[g][r] = NoFrame \/ inframe'[g][r].part > 0
                          /\ \A i \in Slots(r) : rx'[g][r][i].of < nextFrame',
         \A r \in Rings : \A i \in Slots(r) : \A kind \in {"whole", "first"} :
           Waits(g, r, i, kind)' => Waits(g, r, i, kind) /\ rx'[g][r][i] = rx[g][r][i]
  PROVE  Good(g)'
<1>1. /\ nextFrame \in Nat /\ jumbo[g] \in Seq(Fragments)
      /\ Apart(g) /\ Numbered(g) /\ Fresh(g) /\ FreshJumbo(g)
  BY Zenon DEF Types, Good
<1>3. Apart(g)'
  BY <1>1, StaysApart, Zenon
<1>4. Numbered(g)'
  <2>1. jumbo'[g] # <<>> => jumbo'[g][1].of < nextFrame'
    <3>1. jumbo[g] # <<>> => jumbo[g][1].of < nextFrame /\ jumbo[g][1].of \in Nat
      BY <1>1, Sequence, Zenon DEF Numbered, Fragments
    <3> QED BY <1>1, <3>1, Less, Zenon
  <2>2. \A n, p \in Nat : n >= nextFrame' =>
          ~InRing(buf[g], <<"new", n, p>>) /\ ~InStack(up[g], <<"new", n, p>>) /\ ~InStack(up[g], Jumbo(n))
    BY <1>1, Larger, Zenon DEF Numbered
  <2> QED BY <2>1, <2>2, Zenon DEF Numbered
<1>5. Fresh(g)'
  <2>1. ASSUME NEW r \in Rings, NEW i \in Slots(r), Waits(g, r, i, "whole")'
        PROVE  /\ Waits(g, r, i, "whole") /\ rx'[g][r][i] = rx[g][r][i]
               /\ ~InRing(buf'[g], New(rx[g][r][i])) /\ ~InStack(up'[g], New(rx[g][r][i]))
    BY <1>1, <2>1, NewWhole, Zenon
  <2> QED BY <1>1, <2>1, StaysFresh, Zenon
<1>6. FreshJumbo(g)'
  BY <1>1, StaysFreshJumbo, Zenon
<1> QED
  BY <1>3, <1>4, <1>5, <1>6, Zenon DEF Good

\* The same for a step that is not the arrival of a frame.
LEMMA KeepsOn ==
  ASSUME NEW g \in Gmacs, Kept, buf'[g] = buf[g], up'[g] = up[g], UNCHANGED nextFrame,
         \/ jumbo'[g] = <<>>
         \/ jumbo[g] # <<>> /\ jumbo'[g] # <<>> /\ jumbo'[g][1] = jumbo[g][1],
         \A r \in Rings : inframe'[g][r] = inframe[g][r] \/ inframe'[g][r] = NoFrame,
         \A r \in Rings : \A i \in Slots(r) : rx'[g][r][i] = rx[g][r][i] \/ rx'[g][r][i] = NoFrame,
         \A r \in Rings : \A i \in Slots(r) : \A kind \in {"whole", "first"} :
           Waits(g, r, i, kind)' => Waits(g, r, i, kind) /\ rx'[g][r][i] = rx[g][r][i]
  PROVE  Good(g)'
<1>1. Types /\ Good(g) /\ nextFrame \in Nat \ {0}
  BY Zenon DEF Kept, Types
<1>2. nextFrame' \in Nat /\ nextFrame <= nextFrame' /\ NoFrame.of < nextFrame'
  BY <1>1, After, Nothing, Zenon
<1>3. \A r \in Rings : /\ inframe[g][r].of < nextFrame
                       /\ inframe[g][r] = NoFrame \/ inframe[g][r].part > 0
                       /\ \A i \in Slots(r) : rx[g][r][i].of < nextFrame
  BY <1>1, Zenon DEF Good, Numbered
<1>4. \A r \in Rings : /\ inframe'[g][r].of < nextFrame'
                       /\ inframe'[g][r] = NoFrame \/ inframe'[g][r].part > 0
                       /\ \A i \in Slots(r) : rx'[g][r][i].of < nextFrame'
  BY <1>2, <1>3, Zenon
<1> QED
  BY <1>1, <1>2, <1>4, Keeps, Zenon

\* In particular if none of this changes and a descriptor that is held stays so.
LEMMA Still ==
  ASSUME NEW g \in Gmacs, Types, Good(g), rx'[g] = rx[g], buf'[g] = buf[g], up'[g] = up[g],
         jumbo'[g] = jumbo[g], inframe'[g] = inframe[g],
         nextFrame' \in Nat, nextFrame <= nextFrame',
         pc[g] = "give" => /\ pc'[g] = "give" /\ ring_num'[g] = ring_num[g]
                           /\ rxtail'[g] = rxtail[g]
  PROVE  Good(g)'
<1>1. \A r \in Rings : \A i \in Slots(r) : rx[g][r][i] \in Fragments
  BY Value, Zenon DEF Types
<1>2. \A r \in Rings : /\ inframe'[g][r].of < nextFrame'
                       /\ inframe'[g][r] = NoFrame \/ inframe'[g][r].part > 0
                       /\ \A i \in Slots(r) : rx'[g][r][i].of < nextFrame'
  <2> SUFFICES ASSUME NEW r \in Rings
               PROVE  /\ inframe[g][r].of < nextFrame'
                      /\ inframe[g][r] = NoFrame \/ inframe[g][r].part > 0
                      /\ \A i \in Slots(r) : rx[g][r][i].of < nextFrame'
    BY Zenon
  <2>1. /\ inframe[g][r].of < nextFrame
        /\ inframe[g][r] = NoFrame \/ inframe[g][r].part > 0
        /\ \A i \in Slots(r) : rx[g][r][i].of < nextFrame
    BY Zenon DEF Good, Numbered
  <2>2. inframe[g][r] \in Fragments /\ nextFrame \in Nat
    BY Zenon DEF Types
  <2>3. inframe[g][r].of \in Nat /\ \A i \in Slots(r) : rx[g][r][i].of \in Nat
    BY <1>1, <2>2, Zenon DEF Fragments
  <2> QED BY <2>1, <2>2, <2>3, Less, Zenon
<1>3. \A r \in Rings : \A i \in Slots(r) : \A kind \in {"whole", "first"} :
        Waits(g, r, i, kind)' => Waits(g, r, i, kind) /\ rx'[g][r][i] = rx[g][r][i]
  BY Zenon DEF Waits, Held
<1> QED
  BY <1>2, <1>3, Keeps, Zenon

\* Steps that change neither frames nor buffers.
LEMMA Quiet ==
  ASSUME Kept, UNCHANGED <<rx, buf, up, jumbo, inframe, cdo, nextFrame>>,
         Index(tail'), DOMAIN pc' = Gmacs, idx' \in [Gmacs -> Nat], ring_num' \in [Gmacs -> Rings],
         DOMAIN rxtail' = Gmacs, \A g \in Gmacs : rxtail'[g] \in Slots(ring_num'[g]),
         \A g \in Gmacs : pc[g] = "give" => /\ pc'[g] = "give" /\ ring_num'[g] = ring_num[g]
                                            /\ rxtail'[g] = rxtail[g]
  PROVE  Kept'
<1>1. Types'
  BY Zenon DEF Kept, Types
<1>2. ASSUME NEW g \in Gmacs PROVE Good(g)'
  <2>1. Types /\ Good(g) /\ nextFrame' \in Nat /\ nextFrame <= nextFrame'
    BY After, Zenon DEF Kept, Types
  <2> QED BY <2>1, Still, Zenon
<1> QED
  BY <1>1, <1>2, Zenon DEF Kept

\* Most of them leave the indices alone as well.
LEMMA Quieter ==
  ASSUME Kept, UNCHANGED <<rx, buf, up, jumbo, inframe, cdo, nextFrame, tail, idx, ring_num, rxtail>>,
         \/ UNCHANGED pc
         \/ \E g \in Gmacs : pc[g] # "give" /\ \E place \in {"out", "ring", "loop", "desc"} : Goto(g, place)
  PROVE  Kept'
<1>1. /\ Index(tail') /\ idx' \in [Gmacs -> Nat] /\ ring_num' \in [Gmacs -> Rings]
      /\ DOMAIN rxtail' = Gmacs /\ \A g \in Gmacs : rxtail'[g] \in Slots(ring_num'[g])
      /\ DOMAIN pc = Gmacs
  BY Zenon DEF Kept, Types
<1>2. DOMAIN pc' = Gmacs /\ \A g \in Gmacs : pc[g] = "give" => pc'[g] = "give"
  BY <1>1, Zenon DEF Goto
<1> QED
  BY <1>1, <1>2, Quiet, Zenon

\* A break out of the loop over a ring, which saves the tail.
LEMMA EndRingStep ==
  ASSUME Kept, NEW g \in Gmacs, pc[g] # "give", EndRing(g),
         UNCHANGED <<rx, buf, up, jumbo, inframe, cdo, nextFrame, ring_num, rxtail>>
  PROVE  Kept'
<1>1. /\ Index(tail) /\ idx \in [Gmacs -> Nat] /\ ring_num \in [Gmacs -> Rings]
      /\ DOMAIN rxtail = Gmacs /\ \A h \in Gmacs : rxtail[h] \in Slots(ring_num[h])
      /\ DOMAIN pc = Gmacs
  BY Zenon DEF Kept, Types
<1>2. Index(tail')
  <2>1. ring_num[g] \in Rings /\ rxtail[g] \in Slots(ring_num[g])
    BY <1>1, Zenon
  <2> QED BY <1>1, <2>1, Move, Zenon DEF EndRing
<1>3. idx' \in [Gmacs -> Nat]
  BY <1>1, SMTT(30) DEF EndRing
<1>4. DOMAIN pc' = Gmacs /\ \A h \in Gmacs : pc[h] = "give" => pc'[h] = "give"
  BY <1>1, Zenon DEF EndRing, Goto
<1> QED
  BY <1>1, <1>2, <1>3, <1>4, Quiet, Zenon

\* The interrupt, the poll between frames, and most of closing and opening.
LEMMA QuietActions ==
  ASSUME Kept, NEW g \in Gmacs,
         \/ Interrupt(g) \/ PollClosed(g) \/ ClearBackup(g) \/ ClearIsr1(g) \/ LoopGoesOn(g)
         \/ Repoll(g) \/ PollDone(g) \/ Close(g) \/ NapiDisable(g) \/ OpenDone(g)
         \/ PauseTimer \/ UNCHANGED vars
  PROVE  Kept'
<1>1. UNCHANGED <<rx, buf, up, jumbo, inframe, cdo, nextFrame, tail, idx, ring_num, rxtail>>
  BY Zenon DEF Interrupt, PollClosed, ClearBackup, ClearIsr1, LoopGoesOn, Repoll, PollDone, Close, NapiDisable,
     OpenDone, PauseTimer, vars, engine, local
<1>2. \/ UNCHANGED pc
      \/ pc[g] # "give" /\ \E place \in {"out", "ring", "loop", "desc"} : Goto(g, place)
  BY Zenon DEF Interrupt, PollClosed, ClearBackup, ClearIsr1, LoopGoesOn, Repoll, PollDone, Close, NapiDisable,
     OpenDone, PauseTimer, vars, Goto
<1> QED
  BY <1>1, <1>2, Quieter, Zenon

\* The five ways to break out of the loop over a ring.
LEMMA Breaks ==
  ASSUME Kept, NEW g \in Gmacs,
         \/ LoopEnds(g) \/ LoopPauses(g) \/ LoopQuits(g) \/ DescOwned(g)
         \/ HandleNoMemory(g) /\ PauseEnabled
  PROVE  Kept'
<1>1. UNCHANGED <<rx, buf, up, jumbo, inframe, cdo, nextFrame, ring_num, rxtail>>
  BY Zenon DEF LoopEnds, LoopPauses, LoopQuits, DescOwned, HandleNoMemory, engine
<1>2. pc[g] # "give" /\ EndRing(g)
  BY Zenon DEF LoopEnds, LoopPauses, LoopQuits, DescOwned, HandleNoMemory
<1> QED
  BY <1>1, <1>2, EndRingStep, Zenon

\* The poll begins, goes to a ring, and the close resets the indices beside it.
LEMMA IndexActions ==
  ASSUME Kept, Polling, NEW g \in Gmacs, PollBegin(g) \/ StartRing(g) \/ StopHw(g) PROVE Kept'
<1>1. /\ Index(tail) /\ idx \in [Gmacs -> Nat] /\ ring_num \in [Gmacs -> Rings]
      /\ DOMAIN rxtail = Gmacs /\ \A h \in Gmacs : rxtail[h] \in Slots(ring_num[h])
      /\ DOMAIN pc = Gmacs
  BY Zenon DEF Kept, Types
<1>2. CASE PollBegin(g)
  <2>0. pc[g] # "give"
    BY <1>2, Zenon DEF PollBegin, Polling
  <2>1. /\ UNCHANGED <<rx, buf, up, jumbo, inframe, cdo, nextFrame, tail, ring_num, rxtail>>
        /\ idx' = [idx EXCEPT ![g] = 0] /\ Goto(g, "backup")
    BY <1>2, Zenon DEF PollBegin, engine
  <2>2. idx' \in [Gmacs -> Nat]
    BY <1>1, <2>1, Zenon
  <2>3. DOMAIN pc' = Gmacs /\ \A h \in Gmacs : pc[h] = "give" => pc'[h] = "give"
    BY <1>1, <2>0, <2>1, Zenon DEF Goto
  <2> QED BY <1>1, <2>1, <2>2, <2>3, Quiet, Zenon
<1>3. CASE StartRing(g)
  <2>1. PICK i \in ToDo(g) :
        /\ idx' = [idx EXCEPT ![g] = i] /\ ring_num' = [ring_num EXCEPT ![g] = pri_map(i)]
        /\ rxtail' = [rxtail EXCEPT ![g] = tail[g][pri_map(i)]]
        /\ Goto(g, IF tail[g][pri_map(i)] = cdo[g][pri_map(i)] THEN "clear" ELSE "loop")
    BY <1>3, Zenon DEF StartRing
  <2> DEFINE r == pri_map(i)
  <2>0. /\ pc[g] = "ring"
        /\ UNCHANGED <<rx, buf, up, jumbo, inframe, cdo, nextFrame, tail>>
    BY <1>3, Zenon DEF StartRing, engine
  <2>2. i \in Nat /\ r \in Rings
    <3>1. idx[g] \in Nat
      BY <1>1, Zenon
    <3> QED BY <3>1, NextRing, Zenon
  <2> HIDE DEF r
  <2>3. tail[g][r] \in Slots(r)
    BY <1>1, <2>2, Zenon DEF Index
  <2>4. idx' \in [Gmacs -> Nat] /\ ring_num' \in [Gmacs -> Rings]
    BY <1>1, <2>1, <2>2, Zenon DEF r
  <2>5. DOMAIN rxtail' = Gmacs /\ \A h \in Gmacs : rxtail'[h] \in Slots(ring_num'[h])
    <3>1. ring_num'[g] = r /\ rxtail'[g] = tail[g][r] /\ DOMAIN rxtail' = Gmacs
      BY <1>1, <2>1, Zenon DEF r
    <3>2. \A h \in Gmacs \ {g} : ring_num'[h] = ring_num[h] /\ rxtail'[h] = rxtail[h]
      BY <1>1, <2>1, Zenon
    <3> QED BY <1>1, <2>3, <3>1, <3>2, Zenon
  <2>6. /\ DOMAIN pc' = Gmacs
        /\ \A h \in Gmacs : pc[h] = "give" => /\ pc'[h] = "give" /\ ring_num'[h] = ring_num[h]
                                              /\ rxtail'[h] = rxtail[h]
    BY <1>1, <2>0, <2>1, Zenon DEF Goto
  <2> QED BY <1>1, <2>0, <2>4, <2>5, <2>6, Quiet, Zenon
<1>4. CASE StopHw(g)
  <2>1. /\ UNCHANGED <<rx, buf, up, jumbo, inframe, cdo, nextFrame, idx, ring_num, rxtail, pc>>
        /\ tail' = [tail EXCEPT ![g] = [r \in Rings |-> 0]]
    BY <1>4, Zenon DEF StopHw, local
  <2>2. Index(tail')
    BY <1>1, <2>1, Reset, Zenon
  <2> QED BY <1>1, <2>1, <2>2, Quiet, Zenon
<1> QED
  BY <1>2, <1>3, <1>4, Zenon

\* A step of one GMAC leaves the others as they are, but for the number of frames.
LEMMA Elsewhere ==
  ASSUME Kept, NEW g \in Gmacs, Types', Good(g)', nextFrame <= nextFrame',
         \A h \in Gmacs \ {g} :
           /\ rx'[h] = rx[h] /\ buf'[h] = buf[h] /\ up'[h] = up[h] /\ jumbo'[h] = jumbo[h]
           /\ inframe'[h] = inframe[h] /\ pc'[h] = pc[h] /\ ring_num'[h] = ring_num[h]
           /\ rxtail'[h] = rxtail[h]
  PROVE  Kept'
<1>1. Types /\ nextFrame' \in Nat
  BY Zenon DEF Kept, Types
<1>2. ASSUME NEW h \in Gmacs \ {g} PROVE Good(h)'
  <2>1. Good(h)
    BY Zenon DEF Kept
  <2> QED BY <1>1, <2>1, Still, Zenon
<1> QED
  BY <1>2, Zenon DEF Kept

\* The same for a step that is not the arrival of a frame.
LEMMA Alone ==
  ASSUME Kept, NEW g \in Gmacs, Types', Good(g)', UNCHANGED nextFrame,
         \A h \in Gmacs \ {g} :
           /\ rx'[h] = rx[h] /\ buf'[h] = buf[h] /\ up'[h] = up[h] /\ jumbo'[h] = jumbo[h]
           /\ inframe'[h] = inframe[h] /\ pc'[h] = pc[h] /\ ring_num'[h] = ring_num[h]
           /\ rxtail'[h] = rxtail[h]
  PROVE  Kept'
<1>1. nextFrame \in Nat \ {0}
  BY Zenon DEF Kept, Types
<1>2. nextFrame <= nextFrame'
  BY <1>1, After, Zenon
<1> QED
  BY <1>2, Elsewhere, Zenon

\* What Good says of the numbers of a GMAC's frames.
LEMMA Numbers ==
  ASSUME Kept, NEW g \in Gmacs
  PROVE  /\ Types /\ Good(g) /\ nextFrame \in Nat \ {0}
         /\ \A r \in Rings : /\ inframe[g][r].of < nextFrame /\ inframe[g][r] \in Fragments
                             /\ inframe[g][r] = NoFrame \/ inframe[g][r].part > 0
                             /\ \A i \in Slots(r) : rx[g][r][i].of < nextFrame
         /\ NoFrame \in Fragments /\ NoFrame.of < nextFrame /\ NoFrame.kind = "none"
<1>1. Types /\ Good(g) /\ nextFrame \in Nat \ {0}
  BY Zenon DEF Kept, Types
<1>2. \A r \in Rings : inframe[g][r] \in Fragments
  BY <1>1, Zenon DEF Types
<1>3. NoFrame \in Fragments /\ NoFrame.of < nextFrame /\ NoFrame.kind = "none"
  BY <1>1, After, Nothing, Zenon
<1> QED
  BY <1>1, <1>2, <1>3, Zenon DEF Good, Numbered

\* re8670_init_hw: the engine starts from the first descriptor.
LEMMA InitHwStep == ASSUME Kept, NEW g \in Gmacs, InitHw(g) PROVE Kept'
<1>1. /\ cdo' = [cdo EXCEPT ![g] = [r \in Rings |-> 0]]
      /\ inframe' = [inframe EXCEPT ![g] = [r \in Rings |-> NoFrame]]
      /\ UNCHANGED <<rx, buf, up, jumbo, nextFrame, tail, idx, ring_num, rxtail, pc>>
  BY Zenon DEF InitHw, local
<1>2. Types'
  <2>1. Index(cdo')
    BY <1>1, Reset, Zenon DEF Kept, Types
  <2>2. inframe' \in [Gmacs -> [Rings -> Fragments]]
    BY <1>1, Numbers, Zenon DEF Kept, Types
  <2> QED BY <1>1, <2>1, <2>2, Zenon DEF Kept, Types
<1>3. inframe'[g] = [r \in Rings |-> NoFrame] /\ \A h \in Gmacs \ {g} : inframe'[h] = inframe[h]
  BY <1>1, Zenon DEF Kept, Types
<1>4. \A r \in Rings : \A i \in Slots(r) : \A kind \in {"whole", "first"} :
        Waits(g, r, i, kind)' => Waits(g, r, i, kind)
  BY <1>1, Zenon DEF Waits, Held
<1>5. \/ jumbo'[g] = <<>>
      \/ jumbo[g] # <<>> /\ jumbo'[g] # <<>> /\ jumbo'[g][1] = jumbo[g][1]
  BY <1>1, Zenon
<1>6. Good(g)'
  BY <1>1, <1>3, <1>4, <1>5, KeepsOn, ZenonT(60)
<1> QED
  BY <1>1, <1>2, <1>3, <1>6, Alone, Zenon

\* re8670_init_trx_cdo and re8670_refill_rx_desc: all frames are dropped, and
\* the descriptors keep their buffers.
LEMMA RefillStep == ASSUME Kept, NEW g \in Gmacs, Refill(g) PROVE Kept'
<1> DEFINE e == [r \in Rings |-> [i \in Slots(r) |-> NoFrame]]
<1>1. /\ tail' = [tail EXCEPT ![g] = [r \in Rings |-> 0]]
      /\ rx' = [rx EXCEPT ![g] = e]
      /\ UNCHANGED <<buf, up, jumbo, inframe, cdo, nextFrame, idx, ring_num, rxtail, pc>>
  BY Zenon DEF Refill, engine, local
<1>2. rx'[g] = e /\ \A h \in Gmacs \ {g} : rx'[h] = rx[h]
  BY <1>1, Zenon DEF Kept, Types, Shape
<1>3. Types'
  <2>1. Index(tail')
    BY <1>1, Reset, Zenon DEF Kept, Types
  <2>2. DOMAIN rx' = Gmacs /\ DOMAIN e = Rings /\ \A r \in Rings : e[r] \in [Slots(r) -> Fragments]
    BY <1>1, Numbers, Zenon DEF Kept, Types, Shape
  <2>3. Shape(rx', Fragments)
    BY <1>2, <2>2, Zenon DEF Kept, Types, Shape
  <2> QED BY <1>1, <2>1, <2>3, Zenon DEF Kept, Types
<1>4. ASSUME NEW r \in Rings, NEW i \in Slots(r) PROVE rx'[g][r][i] = NoFrame
  <2>1. e[r] = [j \in Slots(r) |-> NoFrame]
    BY Zenon
  <2> QED BY <1>2, <2>1, Zenon
<1> HIDE DEF e
<1>5. \A r \in Rings : \A i \in Slots(r) : \A kind \in {"whole", "first"} : ~Waits(g, r, i, kind)'
  BY <1>4, Numbers, Zenon DEF Waits
<1>6. \/ jumbo'[g] = <<>>
      \/ jumbo[g] # <<>> /\ jumbo'[g] # <<>> /\ jumbo'[g][1] = jumbo[g][1]
  BY <1>1, Zenon
<1>7. Good(g)'
  BY <1>1, <1>4, <1>5, <1>6, KeepsOn, Zenon
<1> QED
  BY <1>1, <1>2, <1>3, <1>7, Alone, Zenon

\* The engine finds no descriptor and drops the frame.
LEMMA NoDescriptorStep ==
  ASSUME Kept, NEW g \in Gmacs, NEW r \in Rings, HwNoDescriptor(g, r) PROVE Kept'
<1>1. /\ inframe' = [inframe EXCEPT ![g][r] = NoFrame]
      /\ nextFrame' = nextFrame \/ nextFrame' = nextFrame + 1
      /\ UNCHANGED <<rx, buf, up, jumbo, cdo, tail, idx, ring_num, rxtail, pc>>
  BY Zenon DEF HwNoDescriptor, local
<1>2. nextFrame \in Nat \ {0} /\ nextFrame' \in Nat \ {0} /\ nextFrame <= nextFrame'
  BY <1>1, Numbers, After, Zenon
<1>3. /\ inframe'[g][r] = NoFrame /\ \A q \in Rings \ {r} : inframe'[g][q] = inframe[g][q]
      /\ \A h \in Gmacs \ {g} : inframe'[h] = inframe[h]
      /\ inframe' \in [Gmacs -> [Rings -> Fragments]]
  BY <1>1, Numbers, Zenon DEF Kept, Types
<1>4. Types'
  BY <1>1, <1>2, <1>3, Zenon DEF Kept, Types
<1>5. \A q \in Rings : \A i \in Slots(q) : \A kind \in {"whole", "first"} :
        Waits(g, q, i, kind)' => Waits(g, q, i, kind)
  BY <1>1, Zenon DEF Waits, Held
<1>6. \/ jumbo'[g] = <<>>
      \/ jumbo[g] # <<>> /\ jumbo'[g] # <<>> /\ jumbo'[g][1] = jumbo[g][1]
  BY <1>1, Zenon
<1>7. \A q \in Rings : /\ inframe'[g][q].of < nextFrame'
                       /\ inframe'[g][q] = NoFrame \/ inframe'[g][q].part > 0
                       /\ \A i \in Slots(q) : rx'[g][q][i].of < nextFrame'
  <2>1. \A q \in Rings : \A i \in Slots(q) : rx[g][q][i] \in Fragments
    BY Zenon DEF Kept, Types, Shape
  <2>2. \A q \in Rings : /\ inframe'[g][q].of < nextFrame /\ inframe'[g][q] \in Fragments
                         /\ inframe'[g][q] = NoFrame \/ inframe'[g][q].part > 0
                         /\ \A i \in Slots(q) : rx'[g][q][i].of < nextFrame /\ rx'[g][q][i] \in Fragments
    BY <1>1, <1>3, <2>1, Numbers, Zenon
  <2>3. \A f \in Fragments : f.of < nextFrame => f.of < nextFrame'
    BY <1>2, Less, Zenon DEF Fragments
  <2> QED BY <2>2, <2>3, Zenon
<1>8. Good(g)'
  BY <1>1, <1>2, <1>5, <1>6, <1>7, Numbers, Keeps, Zenon
<1> QED
  BY <1>1, <1>2, <1>3, <1>4, <1>8, Elsewhere, Zenon

-----------------------------------------------------------------------------
(* Steps that take a frame, give its descriptor back or add one.           *)

\* What the handling of a descriptor knows of it, and what it does at least.
LEMMA Taken ==
  ASSUME Kept, NEW g \in Gmacs, pc[g] = "desc", Handled(g)
  PROVE  /\ ring_num[g] \in Rings /\ rxtail[g] \in Slots(ring_num[g]) /\ Desc(g) \in Fragments
         /\ UNCHANGED <<rx, inframe, cdo, tail, idx, ring_num, rxtail, nextFrame>>
         /\ DOMAIN pc' = Gmacs /\ \A h \in Gmacs \ {g} : pc'[h] = pc[h]
         /\ \A r \in Rings : \A i \in Slots(r) : \A kind \in {"whole", "first"} :
              /\ Waits(g, r, i, kind)' => Waits(g, r, i, kind) /\ (r # ring_num[g] \/ i # rxtail[g])
              /\ r = ring_num[g] /\ i = rxtail[g] /\ Desc(g).kind = kind => Waits(g, r, i, kind)
<1>1. ring_num[g] \in Rings /\ rxtail[g] \in Slots(ring_num[g]) /\ Shape(rx, Fragments) /\ DOMAIN pc = Gmacs
  BY Zenon DEF Kept, Types
<1>2. Desc(g) \in Fragments
  BY <1>1, Zenon DEF Desc, Shape
<1>3. UNCHANGED <<rx, inframe, cdo, tail, idx, ring_num, rxtail, nextFrame>> /\ Goto(g, "give")
  BY Zenon DEF Handled, engine
<1>4. DOMAIN pc' = Gmacs /\ pc'[g] = "give" /\ \A h \in Gmacs \ {g} : pc'[h] = pc[h]
  BY <1>1, <1>3, Zenon DEF Goto
<1>5. ASSUME NEW r \in Rings, NEW i \in Slots(r), NEW kind \in {"whole", "first"}
      PROVE  /\ Waits(g, r, i, kind)' => Waits(g, r, i, kind) /\ (r # ring_num[g] \/ i # rxtail[g])
             /\ r = ring_num[g] /\ i = rxtail[g] /\ Desc(g).kind = kind => Waits(g, r, i, kind)
  BY <1>3, <1>4, Zenon DEF Waits, Held, Desc
<1> QED
  BY <1>1, <1>2, <1>3, <1>4, <1>5, Zenon

\* A fragment that is dropped, or added to its jumbo frame.
LEMMA Dropped ==
  ASSUME Kept, NEW g \in Gmacs, pc[g] = "desc", Handled(g), UNCHANGED <<buf, up>>,
         jumbo' \in [Gmacs -> Seq(Fragments)], \A h \in Gmacs \ {g} : jumbo'[h] = jumbo[h],
         \/ jumbo'[g] = <<>>
         \/ jumbo[g] # <<>> /\ jumbo'[g] # <<>> /\ jumbo'[g][1] = jumbo[g][1]
  PROVE  Kept'
<1>1. Types'
  <2>1. /\ UNCHANGED <<rx, inframe, cdo, tail, idx, ring_num, rxtail, nextFrame>> /\ DOMAIN pc' = Gmacs
    BY Taken, Zenon
  <2> QED BY <2>1, Zenon DEF Kept, Types
<1>2. \A r \in Rings : \A i \in Slots(r) : \A kind \in {"whole", "first"} :
        Waits(g, r, i, kind)' => Waits(g, r, i, kind) /\ rx'[g][r][i] = rx[g][r][i]
  <2>1. rx' = rx
    BY Taken, Zenon
  <2>2. ASSUME NEW r \in Rings, NEW i \in Slots(r), NEW kind \in {"whole", "first"}, Waits(g, r, i, kind)'
        PROVE  Waits(g, r, i, kind)
    <3>1. \A q \in Rings : \A j \in Slots(q) : \A k \in {"whole", "first"} :
            /\ Waits(g, q, j, k)' => Waits(g, q, j, k) /\ (q # ring_num[g] \/ j # rxtail[g])
            /\ q = ring_num[g] /\ j = rxtail[g] /\ Desc(g).kind = k => Waits(g, q, j, k)
      BY Taken, Zenon
    <3> QED BY <2>2, <3>1, Zenon
  <2> QED BY <2>1, <2>2, Zenon
<1>3. UNCHANGED <<rx, inframe, ring_num, rxtail, nextFrame>> /\ \A h \in Gmacs \ {g} : pc'[h] = pc[h]
  BY Taken, Zenon
<1>4. Good(g)'
  BY <1>2, <1>3, KeepsOn, Zenon
<1> QED
  BY <1>1, <1>3, <1>4, Alone, Zenon

\* The jumbo frame is flushed, or left as it is.
LEMMA Flushed ==
  ASSUME Kept, NEW g \in Gmacs, pc[g] = "desc", Handled(g), UNCHANGED <<buf, up>>,
         jumbo' = jumbo \/ jumbo' = [jumbo EXCEPT ![g] = <<>>]
  PROVE  Kept'
<1>1. jumbo \in [Gmacs -> Seq(Fragments)]
  BY Zenon DEF Kept, Types
<1>2. <<>> \in Seq(Fragments)
  BY Sequence, Zenon
<1>3. CASE jumbo' = jumbo
  BY <1>1, <1>3, Dropped, Zenon
<1>4. CASE jumbo' = [jumbo EXCEPT ![g] = <<>>]
  <2>1. jumbo' \in [Gmacs -> Seq(Fragments)]
    BY <1>1, <1>2, <1>4, Zenon
  <2>2. jumbo'[g] = <<>> /\ \A h \in Gmacs \ {g} : jumbo'[h] = jumbo[h]
    BY <1>1, <1>4, Zenon
  <2> QED BY <2>1, <2>2, Dropped, Zenon
<1> QED
  BY <1>3, <1>4, Zenon

\* A DMA or CRC error.
LEMMA BadStep == ASSUME Kept, NEW g \in Gmacs, HandleBad(g) PROVE Kept'
<1>1. /\ pc[g] = "desc" /\ Handled(g) /\ UNCHANGED <<buf, up>>
      /\ jumbo' = [jumbo EXCEPT ![g] = <<>>]
  BY Zenon DEF HandleBad, AfterError
<1> QED
  BY <1>1, Flushed, Zenon

\* No memory for a new buffer, and the frame is dropped.
LEMMA NoMemoryStep == ASSUME Kept, NEW g \in Gmacs, HandleNoMemory(g), ~PauseEnabled PROVE Kept'
<1>1. pc[g] = "desc" /\ Handled(g) /\ UNCHANGED <<buf, up>> /\ jumbo' = jumbo
  BY Zenon DEF HandleNoMemory
<1> QED
  BY <1>1, Flushed, Zenon

\* No memory for a jumbo frame.
LEMMA NoJumboStep == ASSUME Kept, NEW g \in Gmacs, HandleFirst(g, FALSE) PROVE Kept'
<1>1. /\ pc[g] = "desc" /\ Handled(g) /\ UNCHANGED <<buf, up>>
      /\ jumbo' = [jumbo EXCEPT ![g] = <<>>]
  BY Zenon DEF HandleFirst
<1> QED
  BY <1>1, Flushed, Zenon

\* The first fragment of a jumbo frame, whose number no jumbo frame had before.
LEMMA FirstStep == ASSUME Kept, NEW g \in Gmacs, HandleFirst(g, TRUE) PROVE Kept'
<1> DEFINE f == Desc(g)
           r == ring_num[g]
           i == rxtail[g]
<1>1. /\ pc[g] = "desc" /\ f.kind = "first" /\ Handled(g) /\ UNCHANGED <<buf, up>>
      /\ jumbo' = [jumbo EXCEPT ![g] = <<f>>]
  BY Zenon DEF HandleFirst
<1>2. /\ r \in Rings /\ i \in Slots(r) /\ f \in Fragments /\ f = rx[g][r][i]
      /\ UNCHANGED <<rx, inframe, ring_num, rxtail, nextFrame>>
      /\ \A h \in Gmacs \ {g} : pc'[h] = pc[h]
  BY <1>1, Taken, Zenon DEF Desc
<1>3. /\ Waits(g, r, i, "first")
      /\ \A q \in Rings : \A j \in Slots(q) : \A kind \in {"whole", "first"} :
           Waits(g, q, j, kind)' => Waits(g, q, j, kind) /\ (q # r \/ j # i)
  BY <1>1, Taken, ZenonT(30)
<1>4. /\ jumbo' \in [Gmacs -> Seq(Fragments)] /\ jumbo'[g] = <<f>> /\ jumbo'[g][1] = f
      /\ \A h \in Gmacs \ {g} : jumbo'[h] = jumbo[h]
  <2>1. jumbo \in [Gmacs -> Seq(Fragments)]
    BY Zenon DEF Kept, Types
  <2>2. <<f>> \in Seq(Fragments) /\ <<f>>[1] = f
    BY <1>2, Sequence, Zenon
  <2> QED BY <1>1, <2>1, <2>2, Zenon
<1>5. Types'
  BY <1>1, <1>4, Taken, ZenonT(30) DEF Kept, Types
<1> HIDE DEF f, r, i
<1>6. Apart(g) /\ Numbered(g) /\ Fresh(g) /\ FreshJumbo(g)
  BY Zenon DEF Kept, Good
<1>7. Apart(g)'
  BY <1>1, <1>6, StaysApart, Zenon
<1>8. Numbered(g)'
  BY <1>1, <1>2, <1>4, <1>6, Zenon DEF Numbered
<1>9. Fresh(g)'
  <2>1. ASSUME NEW q \in Rings, NEW j \in Slots(q), Waits(g, q, j, "whole")'
        PROVE  /\ Waits(g, q, j, "whole") /\ rx'[g][q][j] = rx[g][q][j]
               /\ ~InRing(buf'[g], New(rx[g][q][j])) /\ ~InStack(up'[g], New(rx[g][q][j]))
    BY <1>1, <1>2, <1>3, <1>6, <2>1, NewWhole, Zenon
  <2> QED BY <1>6, <2>1, StaysFresh, Zenon
<1>10. FreshJumbo(g)'
  <2>1. /\ UNCHANGED <<rx, up>> /\ f = rx[g][r][i] /\ r \in Rings /\ i \in Slots(r)
        /\ Waits(g, r, i, "first") /\ jumbo'[g] = <<f>> /\ jumbo'[g][1] = f
        /\ \A q \in Rings : \A j \in Slots(q) :
             Waits(g, q, j, "first")' => Waits(g, q, j, "first") /\ (q # r \/ j # i)
    BY <1>1, <1>2, <1>3, <1>4, Zenon
  <2>2. ~InStack(up[g], Jumbo(f.of))
    BY <1>6, <2>1, NewFirst, Zenon
  <2>3. ASSUME NEW q \in Rings, NEW j \in Slots(q), Waits(g, q, j, "first")'
        PROVE  /\ ~InStack(up'[g], Jumbo(rx'[g][q][j].of)) /\ jumbo'[g][1].of # rx'[g][q][j].of
               /\ \A p \in Rings : \A k \in Slots(p) :
                    Waits(g, p, k, "first")' /\ rx'[g][p][k].of = rx'[g][q][j].of => p = q /\ k = j
    <3>1. Waits(g, q, j, "first") /\ (q # r \/ j # i)
      BY <2>1, <2>3, Zenon
    <3>2. ~InStack(up[g], Jumbo(rx[g][q][j].of)) /\ f.of # rx[g][q][j].of
      BY <1>6, <2>1, <3>1, NewFirst, OneFirst, Zenon
    <3>3. ASSUME NEW p \in Rings, NEW k \in Slots(p), Waits(g, p, k, "first")', rx'[g][p][k].of = rx'[g][q][j].of
          PROVE  p = q /\ k = j
      <4>1. Waits(g, p, k, "first") /\ rx[g][p][k].of = rx[g][q][j].of
        BY <2>1, <3>3, Zenon
      <4> QED BY <1>6, <3>1, <4>1, OneFirst, Zenon
    <3> QED BY <2>1, <3>2, <3>3, Zenon
  <2>4. ~InStack(up'[g], Jumbo(jumbo'[g][1].of))
    BY <2>1, <2>2, Zenon
  <2> QED BY <2>3, <2>4, Zenon DEF FreshJumbo
<1>11. Good(g)'
  BY <1>7, <1>8, <1>9, <1>10, Zenon DEF Good
<1> QED
  BY <1>1, <1>2, <1>4, <1>5, <1>11, Alone, Zenon

\* A jumbo frame that is not complete, does not fit, or was never begun.
LEMMA MoreStep ==
  ASSUME Kept, NEW g \in Gmacs, HandleMore(g),
         ~(jumbo[g] # <<>> /\ Len(Append(jumbo[g], Desc(g))) < JUMBO_FRAGS /\ Desc(g).kind = "last")
  PROVE  Kept'
<1> DEFINE w == Append(jumbo[g], Desc(g))
<1>1. /\ pc[g] = "desc" /\ Handled(g) /\ UNCHANGED buf
      /\ jumbo' = [jumbo EXCEPT ![g] = <<>>] \/ (jumbo[g] # <<>> /\ jumbo' = [jumbo EXCEPT ![g] = w])
      /\ up' = [up EXCEPT ![g] = up[g]]
  BY Zenon DEF HandleMore
<1>2. jumbo \in [Gmacs -> Seq(Fragments)] /\ <<>> \in Seq(Fragments) /\ up \in [Gmacs -> Seq(Passed)]
  BY Sequence, Zenon DEF Kept, Types
<1>3. Desc(g) \in Fragments
  BY <1>1, Taken, Zenon
<1>4. w \in Seq(Fragments) /\ w # <<>> /\ (jumbo[g] # <<>> => w[1] = jumbo[g][1])
  <2>1. jumbo[g] \in Seq(Fragments)
    BY <1>2, Zenon
  <2> QED BY <1>3, <2>1, Longer, ZenonT(30)
<1> HIDE DEF w
<1>5. UNCHANGED up
  BY <1>1, <1>2, Zenon
<1>6. /\ jumbo' \in [Gmacs -> Seq(Fragments)] /\ \A h \in Gmacs \ {g} : jumbo'[h] = jumbo[h]
      /\ jumbo'[g] = <<>> \/ (jumbo[g] # <<>> /\ jumbo'[g] = w)
  BY <1>1, <1>2, <1>4, Zenon
<1> QED
  BY <1>1, <1>4, <1>5, <1>6, Dropped, Zenon

\* The last fragment of a jumbo frame: it goes up in a buffer of its own, under a
\* number that no other one has.
LEMMA LastStep ==
  ASSUME Kept, NEW g \in Gmacs, HandleMore(g),
         jumbo[g] # <<>>, Len(Append(jumbo[g], Desc(g))) < JUMBO_FRAGS, Desc(g).kind = "last"
  PROVE  Kept'
<1> DEFINE w == Append(jumbo[g], Desc(g))
           n == jumbo[g][1].of
           e == [ring |-> ring_num[g], frags |-> w, buf |-> <<"jumbo", w[1].of, 1>>]
<1>1. /\ pc[g] = "desc" /\ Handled(g) /\ UNCHANGED buf
      /\ jumbo' = [jumbo EXCEPT ![g] = <<>>] /\ up' = [up EXCEPT ![g] = Append(up[g], e)]
  BY Zenon DEF HandleMore
<1>2. jumbo \in [Gmacs -> Seq(Fragments)] /\ <<>> \in Seq(Fragments) /\ up \in [Gmacs -> Seq(Passed)]
  BY Sequence, Zenon DEF Kept, Types
<1>3. /\ Desc(g) \in Fragments /\ ring_num[g] \in Rings
      /\ UNCHANGED <<rx, inframe, ring_num, rxtail, nextFrame>>
      /\ \A h \in Gmacs \ {g} : pc'[h] = pc[h]
      /\ \A r \in Rings : \A i \in Slots(r) : \A kind \in {"whole", "first"} :
           Waits(g, r, i, kind)' => Waits(g, r, i, kind)
  BY <1>1, Taken, Zenon
<1>4. w \in Seq(Fragments) /\ w[1] = jumbo[g][1] /\ n \in Nat
  <2>1. jumbo[g] \in Seq(Fragments)
    BY <1>2, Zenon
  <2>2. w \in Seq(Fragments) /\ w[1] = jumbo[g][1] /\ jumbo[g][1] \in Fragments
    BY <1>3, <2>1, Longer, Zenon
  <2> QED BY <2>2, Zenon DEF Fragments
<1>5. e \in Passed /\ e.buf = Jumbo(n)
  <2> HIDE DEF w
  <2> QED BY <1>3, <1>4, Zenon DEF Passed, Jumbo
<1> HIDE DEF w, n, e
<1>6. /\ jumbo' \in [Gmacs -> Seq(Fragments)] /\ jumbo'[g] = <<>>
      /\ \A h \in Gmacs \ {g} : jumbo'[h] = jumbo[h] /\ up'[h] = up[h]
      /\ up'[g] = Append(up[g], e) /\ up[g] \in Seq(Passed)
  BY <1>1, <1>2, Zenon
<1>7. /\ up'[g] \in Seq(Passed)
      /\ \A b : InStack(up'[g], b) <=> InStack(up[g], b) \/ b = Jumbo(n)
      /\ Once(up[g]) /\ ~InStack(up[g], Jumbo(n)) => Once(up'[g])
  <2>1. up[g] \in Seq(Passed) /\ e \in Passed /\ up'[g] = Append(up[g], e)
    BY <1>5, <1>6, Zenon
  <2>2. up'[g] \in Seq(Passed)
    BY <2>1, GoesUp, Zenon
  <2>3. \A b : InStack(up'[g], b) <=> InStack(up[g], b) \/ b = e.buf
    BY <2>1, GoesUp, Zenon
  <2>4. Once(up[g]) /\ ~InStack(up[g], e.buf) => Once(up'[g])
    BY <2>1, GoesUp, Zenon
  <2> QED BY <1>5, <2>2, <2>3, <2>4, Zenon
<1>8. up' \in [Gmacs -> Seq(Passed)]
  BY <1>1, <1>2, <1>6, <1>7, Zenon
<1>9. Types'
  BY <1>1, <1>6, <1>8, Taken, ZenonT(30) DEF Kept, Types
<1>10. /\ Apart(g) /\ Numbered(g) /\ Fresh(g) /\ FreshJumbo(g)
       /\ \A r \in Rings : \A i \in Slots(r) : buf[g][r][i] \in Buffers
  BY Zenon DEF Kept, Good, Types, Shape
<1>11. /\ \A b \in Buffers : b # Jumbo(n)
       /\ \A c, p : <<"new", c, p>> # Jumbo(n)
       /\ \A m : Jumbo(m) = Jumbo(n) => m = n
  BY Names, Zenon
<1>12. Apart(g)'
  <2>1. ~InStack(up[g], Jumbo(n))
    BY <1>10, Zenon DEF FreshJumbo, n
  <2>2. ASSUME NEW q \in Rings, NEW j \in Slots(q) PROVE ~InStack(up'[g], buf[g][q][j])
    <3>1. ~InStack(up[g], buf[g][q][j])
      BY <1>10, Zenon DEF Apart
    <3>2. buf[g][q][j] # Jumbo(n)
      BY <1>10, <1>11, Zenon
    <3> QED BY <1>7, <3>1, <3>2, Zenon
  <2>3. buf' = buf /\ Once(up'[g])
    BY <1>1, <1>7, <1>10, <2>1, Zenon DEF Apart
  <2> QED BY <1>10, <2>2, <2>3, MoreUp, Zenon
<1>13. Numbered(g)'
  <2>1. n < nextFrame
    BY <1>10, Zenon DEF Numbered, n
  <2>2. n \in Nat /\ nextFrame \in Nat
    BY <1>4, Numbers, Zenon
  <2>3. \A m \in Nat : m >= nextFrame => m # n
    BY <2>1, <2>2, Unused, Zenon
  <2>4. /\ UNCHANGED <<buf, rx, inframe, nextFrame>> /\ jumbo'[g] = <<>>
        /\ \A b : InStack(up'[g], b) <=> InStack(up[g], b) \/ b = Jumbo(n)
        /\ \A c, p : <<"new", c, p>> # Jumbo(n)
        /\ \A m \in Nat : m >= nextFrame => Jumbo(m) # Jumbo(n)
    BY <1>1, <1>3, <1>6, <1>7, <1>11, <2>3, Zenon
  <2>5. \A m, p \in Nat : m >= nextFrame =>
          ~InRing(buf[g], <<"new", m, p>>) /\ ~InStack(up'[g], <<"new", m, p>>) /\ ~InStack(up'[g], Jumbo(m))
    BY <1>10, <2>4, Zenon DEF Numbered
  <2> QED BY <1>10, <2>4, <2>5, Zenon DEF Numbered
<1>14. Fresh(g)'
  <2>1. ASSUME NEW q \in Rings, NEW j \in Slots(q), Waits(g, q, j, "whole")'
        PROVE  /\ Waits(g, q, j, "whole") /\ rx'[g][q][j] = rx[g][q][j]
               /\ ~InRing(buf'[g], New(rx[g][q][j])) /\ ~InStack(up'[g], New(rx[g][q][j]))
    <3>1. Waits(g, q, j, "whole") /\ rx' = rx /\ buf' = buf
      BY <1>1, <1>3, <2>1, Zenon
    <3>2. ~InRing(buf[g], New(rx[g][q][j])) /\ ~InStack(up[g], New(rx[g][q][j]))
      BY <1>10, <3>1, NewWhole, Zenon
    <3>3. New(rx[g][q][j]) # Jumbo(n)
      BY <1>11, Zenon DEF New
    <3> QED BY <1>7, <3>1, <3>2, <3>3, Zenon
  <2> QED BY <1>10, <2>1, StaysFresh, Zenon
<1>15. FreshJumbo(g)'
  <2>1. FreshJumbo(g) /\ jumbo'[g] = <<>>
    BY <1>6, <1>10, Zenon
  <2>2. \A m : InStack(up'[g], Jumbo(m)) => InStack(up[g], Jumbo(m)) \/ (jumbo[g] # <<>> /\ m = jumbo[g][1].of)
    BY <1>7, <1>11, Zenon DEF n
  <2>3. \A q \in Rings : \A j \in Slots(q) : Waits(g, q, j, "first")' =>
          Waits(g, q, j, "first") /\ rx'[g][q][j] = rx[g][q][j]
    BY <1>3, Zenon
  <2> QED BY <2>1, <2>2, <2>3, StaysFreshJumbo, Zenon
<1>16. nextFrame' = nextFrame /\ Good(g)'
  BY <1>3, <1>12, <1>13, <1>14, <1>15, Zenon DEF Good
<1> QED
  BY <1>1, <1>3, <1>6, <1>9, <1>16, Alone, Zenon

\* A whole frame goes up in the buffer of its descriptor, which gets one that is
\* nowhere else.
LEMMA WholeStep == ASSUME Kept, NEW g \in Gmacs, HandleWhole(g) PROVE Kept'
<1> DEFINE f == Desc(g)
           r == ring_num[g]
           i == rxtail[g]
           b0 == buf[g][r][i]
           e == [ring |-> r, frags |-> <<f>>, buf |-> b0]
<1>1. /\ pc[g] = "desc" /\ f.kind = "whole" /\ Handled(g) /\ UNCHANGED jumbo
      /\ up' = [up EXCEPT ![g] = Append(up[g], e)]
      /\ buf' = [buf EXCEPT ![g][r][i] = New(f)]
  BY Zenon DEF HandleWhole, NewBuffer, New
<1>2. /\ r \in Rings /\ i \in Slots(r) /\ f \in Fragments /\ f = rx[g][r][i]
      /\ UNCHANGED <<rx, inframe, ring_num, rxtail, nextFrame>>
      /\ \A h \in Gmacs \ {g} : pc'[h] = pc[h]
  BY <1>1, Taken, Zenon DEF Desc
<1>3. /\ Waits(g, r, i, "whole")
      /\ \A q \in Rings : \A j \in Slots(q) : \A kind \in {"whole", "first"} :
           Waits(g, q, j, kind)' => Waits(g, q, j, kind) /\ (q # r \/ j # i)
  BY <1>1, Taken, Zenon
<1>4. Shape(buf, Buffers) /\ up \in [Gmacs -> Seq(Passed)]
  BY Zenon DEF Kept, Types
<1>5. New(f) \in Buffers
  BY <1>2, Zenon DEF New, Buffers, Fragments
<1>6. b0 \in Buffers /\ e \in Passed /\ e.buf = b0
  <2>1. b0 \in Buffers
    BY <1>2, <1>4, Value, Zenon
  <2>2. <<f>> \in Seq(Fragments)
    BY <1>2, Sequence, Zenon
  <2> HIDE DEF b0, f, r
  <2> QED BY <1>2, <2>1, <2>2, Zenon DEF Passed
<1> HIDE DEF f, r, i, e
<1>7. /\ Shape(buf', Buffers) /\ buf'[g][r][i] = New(f)
      /\ \A h \in Gmacs \ {g} : buf'[h] = buf[h]
      /\ \A q \in Rings : \A j \in Slots(q) : q # r \/ j # i => buf'[g][q][j] = buf[g][q][j]
  <2>1. /\ Shape(buf, Buffers) /\ r \in Rings /\ i \in Slots(r) /\ New(f) \in Buffers
        /\ buf' = Put(buf, g, r, i, New(f))
    BY <1>1, <1>2, <1>4, <1>5, Zenon DEF Put
  <2> HIDE DEF b0
  <2>2. Changed(buf', buf, Buffers, g, r, i, New(f))
    BY <2>1, Write, Zenon
  <2> QED BY <2>2, Zenon DEF Changed
<1>8. /\ up' \in [Gmacs -> Seq(Passed)] /\ \A h \in Gmacs \ {g} : up'[h] = up[h]
      /\ \A b : InStack(up'[g], b) <=> InStack(up[g], b) \/ b = b0
      /\ Once(up[g]) /\ ~InStack(up[g], b0) => Once(up'[g])
  <2>1. /\ up[g] \in Seq(Passed) /\ e \in Passed /\ up'[g] = Append(up[g], e)
        /\ \A h \in Gmacs \ {g} : up'[h] = up[h]
    BY <1>1, <1>4, <1>6, Zenon
  <2>2. up'[g] \in Seq(Passed)
    BY <2>1, GoesUp, Zenon
  <2>3. \A b : InStack(up'[g], b) <=> InStack(up[g], b) \/ b = e.buf
    BY <2>1, GoesUp, Zenon
  <2>4. Once(up[g]) /\ ~InStack(up[g], e.buf) => Once(up'[g])
    BY <2>1, GoesUp, Zenon
  <2>5. up' \in [Gmacs -> Seq(Passed)]
    BY <1>1, <1>4, <2>1, <2>2, Zenon
  <2> HIDE DEF b0
  <2> QED BY <1>6, <2>1, <2>3, <2>4, <2>5, Zenon
<1>9. Types'
  <2>1. /\ UNCHANGED <<rx, inframe, cdo, tail, idx, ring_num, rxtail, nextFrame>> /\ DOMAIN pc' = Gmacs
    BY <1>1, Taken, Zenon
  <2> QED BY <1>1, <1>7, <1>8, <2>1, Zenon DEF Kept, Types
<1>10. Apart(g) /\ Numbered(g) /\ Fresh(g) /\ FreshJumbo(g)
  BY Zenon DEF Kept, Good
<1>11. ~InRing(buf[g], New(f)) /\ ~InStack(up[g], New(f)) /\ InRing(buf[g], b0) /\ New(f) # b0
  <2>1. ~InRing(buf[g], New(f)) /\ ~InStack(up[g], New(f))
    BY <1>2, <1>3, <1>10, Zenon DEF Fresh
  <2>2. InRing(buf[g], b0)
    BY <1>2, Zenon DEF InRing
  <2> QED BY <2>1, <2>2, Zenon
<1>12. \A b : InRing(buf'[g], b) => InRing(buf[g], b) \/ b = New(f)
  BY <1>7, Zenon DEF InRing
<1>13. Apart(g)'
  <2>0. \A p, q \in Rings : \A j \in Slots(p), k \in Slots(q) :
          buf[g][p][j] = buf[g][q][k] => p = q /\ j = k
    <3>1. Apart(g)
      BY <1>10, Zenon
    <3> QED BY <3>1, OneBuffer, Zenon
  <2>1. \A q \in Rings : \A j \in Slots(q) : q # r \/ j # i =>
          buf'[g][q][j] # b0 /\ buf'[g][q][j] # New(f) /\ ~InStack(up[g], buf'[g][q][j])
    <3> SUFFICES ASSUME NEW q \in Rings, NEW j \in Slots(q), q # r \/ j # i
                 PROVE  buf'[g][q][j] # b0 /\ buf'[g][q][j] # New(f) /\ ~InStack(up[g], buf'[g][q][j])
      BY Zenon
    <3>1. buf'[g][q][j] = buf[g][q][j]
      BY <1>7, Zenon
    <3>2. buf[g][q][j] # New(f)
      BY <1>11, Zenon DEF InRing
    <3>3. buf[g][q][j] # b0 /\ ~InStack(up[g], buf[g][q][j])
      <4>1. ASSUME buf[g][q][j] = buf[g][r][i] PROVE FALSE
        <5>1. r \in Rings /\ i \in Slots(r)
          BY <1>2, Zenon
        <5>2. buf[g][q][j] = buf[g][r][i] => q = r /\ j = i
          BY <2>0, <5>1, Zenon
        <5> QED BY <4>1, <5>2, Zenon
      <4> QED BY <1>10, <4>1, Zenon DEF Apart
    <3> QED BY <3>1, <3>2, <3>3, Zenon
  <2>2. \A p, q \in Rings : \A j \in Slots(p), k \in Slots(q) :
          buf'[g][p][j] = buf'[g][q][k] => p = q /\ j = k
    <3> SUFFICES ASSUME NEW p \in Rings, NEW q \in Rings, NEW j \in Slots(p), NEW k \in Slots(q),
                        buf'[g][p][j] = buf'[g][q][k]
                 PROVE  p = q /\ j = k
      BY Zenon
    <3>1. CASE (p # r \/ j # i) /\ (q # r \/ k # i)
      <4>1. buf'[g][p][j] = buf[g][p][j] /\ buf'[g][q][k] = buf[g][q][k]
        BY <1>7, <3>1, Zenon
      <4>2. buf[g][p][j] = buf[g][q][k] => p = q /\ j = k
        BY <2>0, Zenon
      <4> QED BY <4>1, <4>2, Zenon
    <3>2. CASE p = r /\ j = i
      BY <1>7, <2>1, <3>2, Zenon
    <3>3. CASE q = r /\ k = i
      <4>1. buf'[g][p][j] = New(f)
        BY <1>7, <3>3, Zenon
      <4> QED BY <2>1, <3>3, <4>1, Zenon
    <3> QED BY <3>1, <3>2, <3>3, Zenon
  <2>3. \A q \in Rings : \A j \in Slots(q) : ~InStack(up'[g], buf'[g][q][j])
    <3> SUFFICES ASSUME NEW q \in Rings, NEW j \in Slots(q) PROVE ~InStack(up'[g], buf'[g][q][j])
      BY Zenon
    <3>1. CASE q # r \/ j # i
      BY <1>8, <2>1, <3>1, Zenon
    <3>2. CASE q = r /\ j = i
      BY <1>7, <1>8, <1>11, <3>2, Zenon
    <3> QED BY <3>1, <3>2, Zenon
  <2>4. ~InStack(up[g], b0)
    BY <1>2, <1>10, Zenon DEF Apart
  <2> QED BY <1>8, <1>10, <2>2, <2>3, <2>4, Zenon DEF Apart
<1> HIDE DEF b0
<1>14. \A n : Jumbo(n) # b0
  BY <1>6, Names, Zenon
<1>15. Numbered(g)'
  <2>1. f.of < nextFrame /\ f.of \in Nat
    BY <1>2, <1>10, Zenon DEF Numbered, Fragments
  <2>2. ASSUME NEW n \in Nat, NEW p \in Nat, n >= nextFrame
        PROVE  /\ ~InRing(buf'[g], <<"new", n, p>>) /\ ~InStack(up'[g], <<"new", n, p>>)
               /\ ~InStack(up'[g], Jumbo(n))
    <3>1. ~InRing(buf[g], <<"new", n, p>>) /\ ~InStack(up[g], <<"new", n, p>>) /\ ~InStack(up[g], Jumbo(n))
      BY <2>2, <1>10, Zenon DEF Numbered
    <3>2. <<"new", n, p>> # New(f)
      <4>1. nextFrame \in Nat
        BY Numbers, Zenon
      <4>2. n # f.of
        BY <2>1, <2>2, <4>1, Unused, Zenon
      <4> QED BY <4>2, Zenon DEF New
    <3>3. <<"new", n, p>> # b0
      BY <1>11, <3>1, Zenon
    <3> QED BY <1>8, <1>12, <1>14, <3>1, <3>2, <3>3, Zenon
  <2>3. \A q \in Rings : /\ inframe[g][q].of < nextFrame
                         /\ inframe[g][q] = NoFrame \/ inframe[g][q].part > 0
                         /\ \A j \in Slots(q) : rx[g][q][j].of < nextFrame
    BY <1>10, Zenon DEF Numbered
  <2>4. jumbo[g] # <<>> => jumbo[g][1].of < nextFrame
    BY <1>10, Zenon DEF Numbered
  <2> QED BY <1>1, <1>2, <2>2, <2>3, <2>4, Zenon DEF Numbered
<1>16. Fresh(g)'
  <2>1. ASSUME NEW q \in Rings, NEW j \in Slots(q), Waits(g, q, j, "whole")'
        PROVE  /\ Waits(g, q, j, "whole") /\ rx'[g][q][j] = rx[g][q][j]
               /\ ~InRing(buf'[g], New(rx[g][q][j])) /\ ~InStack(up'[g], New(rx[g][q][j]))
    <3>1. Waits(g, q, j, "whole") /\ (q # r \/ j # i) /\ rx' = rx
      BY <1>2, <1>3, <2>1, Zenon
    <3>2. rx[g][q][j].of # f.of
      BY <1>2, <1>3, <1>10, <3>1, OneWhole, Zenon
    <3>3. ~InRing(buf[g], New(rx[g][q][j])) /\ ~InStack(up[g], New(rx[g][q][j]))
      BY <1>10, <3>1, NewWhole, Zenon
    <3>4. New(rx[g][q][j]) # New(f)
      BY <3>2, Zenon DEF New
    <3>5. New(rx[g][q][j]) # b0
      BY <1>11, <3>3, Zenon
    <3> QED BY <1>8, <1>12, <3>1, <3>3, <3>4, <3>5, Zenon
  <2> QED BY <1>10, <2>1, StaysFresh, Zenon
<1>17. FreshJumbo(g)'
  <2>1. /\ FreshJumbo(g) /\ jumbo' = jumbo
        /\ \A n : InStack(up'[g], Jumbo(n)) => InStack(up[g], Jumbo(n))
    BY <1>1, <1>8, <1>10, <1>14, Zenon
  <2>2. \A q \in Rings : \A j \in Slots(q) : Waits(g, q, j, "first")' =>
          Waits(g, q, j, "first") /\ rx'[g][q][j] = rx[g][q][j]
    BY <1>2, <1>3, Zenon
  <2> QED BY <2>1, <2>2, StaysFreshJumbo, Zenon
<1>18. Good(g)'
  BY <1>13, <1>15, <1>16, <1>17, Zenon DEF Good
<1> QED
  BY <1>1, <1>2, <1>7, <1>8, <1>9, <1>18, Alone, Zenon

\* rx_next: the descriptor goes back to the engine, and its frame is gone.
LEMMA GiveBackStep == ASSUME Kept, NEW g \in Gmacs, GiveBack(g) PROVE Kept'
<1> DEFINE r == ring_num[g]
           i == rxtail[g]
<1>1. /\ pc[g] = "give" /\ rx' = Put(rx, g, r, i, NoFrame)
      /\ rxtail' = [rxtail EXCEPT ![g] = NEXT_RX(i, r)]
      /\ \/ tail' = [tail EXCEPT ![g][r] = NEXT_RX(i, r)] /\ Goto(g, "repoll")
         \/ tail' = tail /\ Goto(g, "loop")
      /\ UNCHANGED <<buf, up, jumbo, inframe, cdo, nextFrame, idx, ring_num>>
  BY Zenon DEF GiveBack, SavedTail, Put, engine
<1>2. /\ r \in Rings /\ i \in Slots(r) /\ Shape(rx, Fragments) /\ Index(tail)
      /\ DOMAIN pc = Gmacs /\ DOMAIN rxtail = Gmacs
      /\ \A h \in Gmacs : rxtail[h] \in Slots(ring_num[h])
  BY Zenon DEF Kept, Types
<1>3. NEXT_RX(i, r) \in Slots(r)
  BY <1>2, NextInRing, Zenon
<1>4. NoFrame \in Fragments /\ NoFrame.kind = "none" /\ Types
  BY Nothing, Zenon DEF Kept
<1> HIDE DEF i
<1>5. /\ Shape(rx', Fragments) /\ rx'[g][r][i] = NoFrame
      /\ \A h \in Gmacs \ {g} : rx'[h] = rx[h]
      /\ \A q \in Rings : \A j \in Slots(q) : q # r \/ j # i => rx'[g][q][j] = rx[g][q][j]
  <2>1. /\ Shape(rx, Fragments) /\ r \in Rings /\ i \in Slots(r) /\ NoFrame \in Fragments
        /\ rx' = Put(rx, g, r, i, NoFrame)
    BY <1>1, <1>2, <1>4, Zenon
  <2> HIDE DEF r
  <2>2. Changed(rx', rx, Fragments, g, r, i, NoFrame)
    BY <2>1, Write, Zenon
  <2> QED BY <2>2, Zenon DEF Changed
<1>6. Index(tail')
  <2>1. CASE tail' = tail
    BY <1>2, <2>1, Zenon
  <2>2. CASE tail' = [tail EXCEPT ![g][r] = NEXT_RX(i, r)]
    <3> HIDE DEF r
    <3> QED BY <1>2, <1>3, <2>2, Move, Zenon
  <2> QED BY <1>1, <2>1, <2>2, Zenon
<1>7. /\ DOMAIN rxtail' = Gmacs /\ \A h \in Gmacs \ {g} : rxtail'[h] = rxtail[h]
      /\ rxtail'[g] = NEXT_RX(i, r)
  BY <1>1, <1>2, Zenon
<1>8. DOMAIN pc' = Gmacs /\ pc'[g] # "give" /\ \A h \in Gmacs \ {g} : pc'[h] = pc[h]
  BY <1>1, <1>2, Zenon DEF Goto
<1>9. Types'
  <2>1. \A h \in Gmacs : rxtail'[h] \in Slots(ring_num'[h])
    BY <1>1, <1>2, <1>3, <1>7, Zenon
  <2> QED BY <1>1, <1>4, <1>5, <1>6, <1>7, <1>8, <2>1, Zenon DEF Types
<1>10. \A q \in Rings : \A j \in Slots(q) : \A kind \in {"whole", "first"} :
         Waits(g, q, j, kind)' => Waits(g, q, j, kind) /\ rx'[g][q][j] = rx[g][q][j]
  <2> SUFFICES ASSUME NEW q \in Rings, NEW j \in Slots(q), NEW kind \in {"whole", "first"},
                      Waits(g, q, j, kind)'
               PROVE  Waits(g, q, j, kind) /\ rx'[g][q][j] = rx[g][q][j]
    BY Zenon
  <2>1. rx'[g][q][j].kind = kind
    BY Zenon DEF Waits
  <2>2. q # r \/ j # i
    BY <1>4, <1>5, <2>1, Zenon
  <2>3. rx'[g][q][j] = rx[g][q][j]
    BY <1>5, <2>2, Zenon
  <2> QED BY <2>1, <2>2, <2>3, Zenon DEF Waits, Held, i
<1>11. \A q \in Rings : \A j \in Slots(q) : rx'[g][q][j] = rx[g][q][j] \/ rx'[g][q][j] = NoFrame
  BY <1>5, Zenon
<1>12. Good(g)'
  <2>1. /\ buf'[g] = buf[g] /\ up'[g] = up[g] /\ jumbo'[g] = jumbo[g] /\ inframe'[g] = inframe[g]
        /\ nextFrame' = nextFrame
    BY <1>1, Zenon
  <2> QED BY <1>10, <1>11, <2>1, KeepsOn, Zenon
<1> QED
  BY <1>1, <1>5, <1>7, <1>8, <1>9, <1>12, Alone, Zenon

\* The fragment with which the engine fills a descriptor.
Filled(g, r, kind) == [of |-> Arriving(g, r).of, part |-> Arriving(g, r).part, kind |-> kind]

\* A fragment that arrives: only the first of a frame can be taken as a whole frame
\* or as the beginning of a jumbo frame, and it has a number of its own.
LEMMA Arrives ==
  ASSUME Kept, NEW g \in Gmacs, NEW r \in Rings, NEW kind \in Kinds, NEW ends, HwReceive(g, r, kind, ends)
  PROVE  /\ Filled(g, r, kind) \in Fragments /\ Filled(g, r, kind).part > 0 /\ Filled(g, r, kind).kind = kind
         /\ Filled(g, r, kind).of < nextFrame' /\ nextFrame' \in Nat \ {0} /\ nextFrame <= nextFrame'
         /\ kind \in {"whole", "first"} => Filled(g, r, kind).of = nextFrame
<1>0. /\ Filled(g, r, kind) = [of |-> Arriving(g, r).of, part |-> Arriving(g, r).part, kind |-> kind]
      /\ Filled(g, r, kind).of = Arriving(g, r).of /\ Filled(g, r, kind).part = Arriving(g, r).part
      /\ Filled(g, r, kind).kind = kind
  BY Zenon DEF Filled
<1>1. /\ inframe[g][r] \in Fragments /\ inframe[g][r].of < nextFrame /\ nextFrame \in Nat \ {0}
      /\ inframe[g][r] = NoFrame \/ inframe[g][r].part > 0
  BY Numbers, Zenon
<1>2. /\ kind \in (IF Arriving(g, r).part = 1 THEN {"whole", "first"} ELSE {"mid", "last"}) \cup {"bad"}
      /\ nextFrame' = IF Arriving(g, r).part = 1 THEN nextFrame + 1 ELSE nextFrame
  BY Zenon DEF HwReceive
<1>3. CASE inframe[g][r] = NoFrame
  <2>1. Arriving(g, r).of = nextFrame /\ Arriving(g, r).part = 1
    BY <1>3, Zenon DEF Arriving
  <2>2. nextFrame' = nextFrame + 1
    BY <1>2, <2>1, Zenon
  <2> QED BY <1>0, <1>1, <2>1, <2>2, After, One, Zenon DEF Fragments
<1>4. CASE inframe[g][r] # NoFrame
  <2>1. Arriving(g, r).of = inframe[g][r].of /\ Arriving(g, r).part = inframe[g][r].part + 1
    BY <1>4, Zenon DEF Arriving
  <2>2. inframe[g][r].of \in Nat /\ inframe[g][r].part \in Nat /\ inframe[g][r].part > 0
    BY <1>1, <1>4, Zenon DEF Fragments
  <2>3. Arriving(g, r).part \in Nat /\ Arriving(g, r).part > 0 /\ Arriving(g, r).part # 1
    BY <2>1, <2>2, Later, Zenon
  <2>4. nextFrame' = nextFrame /\ kind \notin {"whole", "first"}
    BY <1>2, <2>3, Zenon
  <2>5. nextFrame <= nextFrame'
    BY <1>1, <2>4, After, Zenon
  <2> QED BY <1>0, <1>1, <2>1, <2>2, <2>3, <2>4, <2>5, Zenon DEF Fragments
<1> QED
  BY <1>3, <1>4, Zenon

\* The engine fills a descriptor.
LEMMA ReceiveStep ==
  ASSUME Kept, NEW g \in Gmacs, NEW r \in Rings, NEW kind \in Kinds, NEW ends, HwReceive(g, r, kind, ends)
  PROVE  Kept'
<1> DEFINE c == cdo[g][r]
           f == Filled(g, r, kind)
           v == IF ends THEN NoFrame ELSE f
<1>1. /\ rx' = Put(rx, g, r, c, f) /\ cdo' = [cdo EXCEPT ![g][r] = NEXT_RX(cdo[g][r], r)]
      /\ inframe' = [inframe EXCEPT ![g][r] = v]
      /\ UNCHANGED <<buf, up, jumbo, tail, idx, ring_num, rxtail, pc>>
  BY Zenon DEF HwReceive, Put, Filled, local
<1>2. /\ f \in Fragments /\ f.part > 0 /\ f.kind = kind /\ f.of < nextFrame'
      /\ nextFrame' \in Nat \ {0} /\ nextFrame <= nextFrame'
      /\ kind \in {"whole", "first"} => f.of = nextFrame
  BY Arrives, Zenon
<1> HIDE DEF f
<1>3. /\ Types /\ Good(g) /\ NoFrame \in Fragments /\ NoFrame.of < nextFrame /\ nextFrame \in Nat \ {0}
      /\ \A q \in Rings : /\ inframe[g][q].of < nextFrame /\ inframe[g][q] \in Fragments
                          /\ inframe[g][q] = NoFrame \/ inframe[g][q].part > 0
                          /\ \A j \in Slots(q) : rx[g][q][j].of < nextFrame
  BY Numbers, Zenon
<1>4. /\ v \in Fragments /\ v.of < nextFrame' /\ (v = NoFrame \/ v.part > 0)
  <2>1. NoFrame.of < nextFrame'
    BY <1>2, After, Nothing, Zenon
  <2> QED BY <1>2, <1>3, <2>1, Zenon
<1> HIDE DEF v
<1>5. Shape(rx, Fragments) /\ Index(cdo) /\ c \in Slots(r)
  BY <1>3, Zenon DEF Types, Index
<1> HIDE DEF c
<1>6. /\ Shape(rx', Fragments) /\ rx'[g][r][c] = f
      /\ \A h \in Gmacs \ {g} : rx'[h] = rx[h]
      /\ \A q \in Rings : \A j \in Slots(q) : q # r \/ j # c => rx'[g][q][j] = rx[g][q][j]
  <2>1. Shape(rx, Fragments) /\ c \in Slots(r) /\ f \in Fragments /\ rx' = Put(rx, g, r, c, f)
    BY <1>1, <1>2, <1>5, Zenon
  <2>2. Changed(rx', rx, Fragments, g, r, c, f)
    BY <2>1, Write, Zenon
  <2> QED BY <2>2, Zenon DEF Changed
<1>7. Index(cdo')
  <2>1. NEXT_RX(cdo[g][r], r) \in Slots(r)
    BY <1>5, NextInRing, Zenon DEF c
  <2> QED BY <1>1, <1>5, <2>1, Move, Zenon
<1>8. /\ inframe' \in [Gmacs -> [Rings -> Fragments]] /\ \A h \in Gmacs \ {g} : inframe'[h] = inframe[h]
      /\ inframe'[g][r] = v /\ \A q \in Rings \ {r} : inframe'[g][q] = inframe[g][q]
  <2>1. inframe \in [Gmacs -> [Rings -> Fragments]]
    BY <1>3, Zenon DEF Types
  <2> QED BY <1>1, <1>4, <2>1, Zenon
<1>9. Types'
  BY <1>1, <1>2, <1>3, <1>6, <1>7, <1>8, Zenon DEF Types
<1>10. Apart(g) /\ Numbered(g) /\ Fresh(g) /\ FreshJumbo(g)
  BY <1>3, Zenon DEF Good
<1>11. Apart(g)'
  BY <1>1, <1>10, StaysApart, Zenon
<1>12. Numbered(g)'
  <2>1. \A q \in Rings : \A j \in Slots(q) : rx'[g][q][j].of < nextFrame'
    <3> SUFFICES ASSUME NEW q \in Rings, NEW j \in Slots(q) PROVE rx'[g][q][j].of < nextFrame'
      BY Zenon
    <3>1. CASE q = r /\ j = c
      BY <1>2, <1>6, <3>1, Zenon
    <3>2. CASE q # r \/ j # c
      <4>1. rx[g][q][j] \in Fragments /\ rx'[g][q][j] = rx[g][q][j] /\ rx[g][q][j].of < nextFrame
        BY <1>3, <1>5, <1>6, <3>2, Value, Zenon
      <4>2. rx[g][q][j].of \in Nat /\ nextFrame \in Nat /\ nextFrame' \in Nat /\ nextFrame <= nextFrame'
        BY <1>2, <1>3, <4>1, Zenon DEF Fragments
      <4> QED BY <4>1, <4>2, Less, Zenon
    <3> QED BY <3>1, <3>2, Zenon
  <2>2. \A q \in Rings : /\ inframe'[g][q].of < nextFrame'
                         /\ inframe'[g][q] = NoFrame \/ inframe'[g][q].part > 0
    <3> SUFFICES ASSUME NEW q \in Rings
                 PROVE  /\ inframe'[g][q].of < nextFrame'
                        /\ inframe'[g][q] = NoFrame \/ inframe'[g][q].part > 0
      BY Zenon
    <3>1. CASE q = r
      BY <1>4, <1>8, <3>1, Zenon
    <3>2. CASE q # r
      <4>1. /\ inframe'[g][q] = inframe[g][q] /\ inframe[g][q].of < nextFrame /\ inframe[g][q].of \in Nat
            /\ inframe[g][q] = NoFrame \/ inframe[g][q].part > 0
        BY <1>3, <1>8, <3>2, Zenon DEF Fragments
      <4>2. nextFrame \in Nat /\ nextFrame' \in Nat /\ nextFrame <= nextFrame'
        BY <1>2, <1>3, Zenon
      <4> QED BY <4>1, <4>2, Less, Zenon
    <3> QED BY <3>1, <3>2, Zenon
  <2>3. jumbo[g] # <<>> => jumbo[g][1].of < nextFrame'
    <3>1. jumbo[g] # <<>> => jumbo[g][1].of < nextFrame /\ jumbo[g][1] \in Fragments
      <4>1. jumbo[g] \in Seq(Fragments)
        BY <1>3, Zenon DEF Types
      <4>2. jumbo[g] # <<>> => jumbo[g][1] \in Fragments
        BY <4>1, Sequence, Zenon
      <4> QED BY <1>10, <4>2, Zenon DEF Numbered
    <3>2. jumbo[g] # <<>> => jumbo[g][1].of \in Nat
      BY <3>1, Zenon DEF Fragments
    <3>3. nextFrame \in Nat /\ nextFrame' \in Nat /\ nextFrame <= nextFrame'
      BY <1>2, <1>3, Zenon
    <3> QED BY <3>1, <3>2, <3>3, Less, Zenon
  <2>4. \A n, p \in Nat : n >= nextFrame' =>
          ~InRing(buf[g], <<"new", n, p>>) /\ ~InStack(up[g], <<"new", n, p>>) /\ ~InStack(up[g], Jumbo(n))
    <3>1. \A n \in Nat : n >= nextFrame' => n >= nextFrame
      BY <1>2, <1>3, Larger, Zenon
    <3> QED BY <1>10, <3>1, Zenon DEF Numbered
  <2> QED BY <1>1, <2>1, <2>2, <2>3, <2>4, Zenon DEF Numbered
<1>13. ASSUME NEW q \in Rings, NEW j \in Slots(q), NEW k \in {"whole", "first"}, Waits(g, q, j, k)'
       PROVE  /\ (q # r \/ j # c) => Waits(g, q, j, k) /\ rx'[g][q][j] = rx[g][q][j]
                                     /\ rx'[g][q][j].of # nextFrame
              /\ (q = r /\ j = c) => rx'[g][q][j] = f /\ f.of = nextFrame
  <2>1. rx'[g][q][j].kind = k
    BY <1>13, Zenon DEF Waits
  <2>2. rx[g][q][j].of # nextFrame
    <3>1. rx[g][q][j] \in Fragments
      BY <1>5, Value, Zenon
    <3>2. rx[g][q][j].of \in Nat /\ rx[g][q][j].of < nextFrame /\ nextFrame \in Nat
      BY <1>3, <3>1, Zenon DEF Fragments
    <3> QED BY <3>2, Unused, Zenon
  <2>3. CASE q # r \/ j # c
    <3>1. rx'[g][q][j] = rx[g][q][j]
      BY <1>6, <2>3, Zenon
    <3>2. Waits(g, q, j, k)
      BY <1>1, <1>13, <3>1, Zenon DEF Waits, Held
    <3> QED BY <2>2, <2>3, <3>1, <3>2, Zenon
  <2>4. CASE q = r /\ j = c
    BY <1>2, <1>6, <2>1, <2>4, Zenon
  <2> QED BY <2>3, <2>4, Zenon
<1>14. /\ ~InRing(buf[g], New(f)) \/ f.of # nextFrame
       /\ ~InStack(up[g], New(f)) \/ f.of # nextFrame
       /\ ~InStack(up[g], Jumbo(nextFrame))
       /\ jumbo[g] # <<>> => jumbo[g][1].of # nextFrame
  <2>1. /\ \A p \in Nat : ~InRing(buf[g], <<"new", nextFrame, p>>) /\ ~InStack(up[g], <<"new", nextFrame, p>>)
        /\ ~InStack(up[g], Jumbo(nextFrame))
    <3>1. \A n, p \in Nat : n >= nextFrame =>
            ~InRing(buf[g], <<"new", n, p>>) /\ ~InStack(up[g], <<"new", n, p>>) /\ ~InStack(up[g], Jumbo(n))
      BY <1>10, Zenon DEF Numbered
    <3>2. nextFrame \in Nat /\ nextFrame >= nextFrame /\ 1 \in Nat
      BY <1>3, After, Zenon
    <3> QED BY <3>1, <3>2, Zenon
  <2>2. f.part \in Nat
    BY <1>2, Zenon DEF Fragments
  <2>3. jumbo[g] # <<>> => jumbo[g][1].of # nextFrame
    <3>1. jumbo[g] # <<>> => jumbo[g][1].of < nextFrame
      BY <1>10, Zenon DEF Numbered
    <3>2. jumbo[g] \in Seq(Fragments) /\ nextFrame \in Nat
      BY <1>3, Zenon DEF Types
    <3>3. jumbo[g] # <<>> => jumbo[g][1].of \in Nat
      BY <3>2, Sequence, Zenon DEF Fragments
    <3> QED BY <3>1, <3>2, <3>3, Unused, Zenon
  <2> QED BY <2>1, <2>2, <2>3, Zenon DEF New
<1>15. Fresh(g)'
  <2> SUFFICES ASSUME NEW q \in Rings, NEW j \in Slots(q), Waits(g, q, j, "whole")'
               PROVE  /\ ~InRing(buf[g], New(rx'[g][q][j])) /\ ~InStack(up[g], New(rx'[g][q][j]))
                      /\ \A p \in Rings : \A k \in Slots(p) :
                           Waits(g, p, k, "whole")' /\ rx'[g][p][k].of = rx'[g][q][j].of => p = q /\ k = j
    BY <1>1, ZenonT(30) DEF Fresh
  <2>1. CASE q = r /\ j = c
    <3>1. rx'[g][q][j] = f /\ f.of = nextFrame
      BY <1>13, <2>1, Zenon
    <3>2. ASSUME NEW p \in Rings, NEW k \in Slots(p), Waits(g, p, k, "whole")', rx'[g][p][k].of = rx'[g][q][j].of
          PROVE  p = q /\ k = j
      BY <1>13, <2>1, <3>1, <3>2, Zenon
    <3> QED BY <1>14, <3>1, <3>2, Zenon
  <2>2. CASE q # r \/ j # c
    <3>1. Waits(g, q, j, "whole") /\ rx'[g][q][j] = rx[g][q][j] /\ rx'[g][q][j].of # nextFrame
      BY <1>13, <2>2, Zenon
    <3>2. ASSUME NEW p \in Rings, NEW k \in Slots(p), Waits(g, p, k, "whole")', rx'[g][p][k].of = rx'[g][q][j].of
          PROVE  p = q /\ k = j
      <4>1. Waits(g, p, k, "whole") /\ rx'[g][p][k] = rx[g][p][k]
        BY <1>13, <3>1, <3>2, Zenon
      <4> QED BY <1>10, <3>1, <3>2, <4>1, OneWhole, Zenon
    <3>3. ~InRing(buf[g], New(rx[g][q][j])) /\ ~InStack(up[g], New(rx[g][q][j]))
      BY <1>10, <3>1, NewWhole, Zenon
    <3> QED BY <3>1, <3>2, <3>3, Zenon
  <2> QED BY <2>1, <2>2, Zenon
<1>16. FreshJumbo(g)'
  <2>0. jumbo'[g] # <<>> => ~InStack(up'[g], Jumbo(jumbo'[g][1].of))
    BY <1>1, <1>10, Zenon DEF FreshJumbo
  <2> SUFFICES ASSUME NEW q \in Rings, NEW j \in Slots(q), Waits(g, q, j, "first")'
               PROVE  /\ ~InStack(up'[g], Jumbo(rx'[g][q][j].of))
                      /\ jumbo'[g] # <<>> => jumbo'[g][1].of # rx'[g][q][j].of
                      /\ \A p \in Rings : \A k \in Slots(p) :
                           Waits(g, p, k, "first")' /\ rx'[g][p][k].of = rx'[g][q][j].of => p = q /\ k = j
    BY <2>0, Zenon DEF FreshJumbo
  <2>1. CASE q = r /\ j = c
    <3>1. rx'[g][q][j] = f /\ f.of = nextFrame
      BY <1>13, <2>1, Zenon
    <3>2. ASSUME NEW p \in Rings, NEW k \in Slots(p), Waits(g, p, k, "first")', rx'[g][p][k].of = rx'[g][q][j].of
          PROVE  p = q /\ k = j
      BY <1>13, <2>1, <3>1, <3>2, Zenon
    <3> QED BY <1>1, <1>14, <3>1, <3>2, Zenon
  <2>2. CASE q # r \/ j # c
    <3>1. Waits(g, q, j, "first") /\ rx'[g][q][j] = rx[g][q][j] /\ rx'[g][q][j].of # nextFrame
      BY <1>13, <2>2, Zenon
    <3>2. ASSUME NEW p \in Rings, NEW k \in Slots(p), Waits(g, p, k, "first")', rx'[g][p][k].of = rx'[g][q][j].of
          PROVE  p = q /\ k = j
      <4>1. Waits(g, p, k, "first") /\ rx'[g][p][k] = rx[g][p][k]
        BY <1>13, <3>1, <3>2, Zenon
      <4> QED BY <1>10, <3>1, <3>2, <4>1, OneFirst, Zenon
    <3>3. ~InStack(up[g], Jumbo(rx[g][q][j].of)) /\ (jumbo[g] # <<>> => jumbo[g][1].of # rx[g][q][j].of)
      BY <1>10, <3>1, NewFirst, Zenon
    <3> QED BY <1>1, <3>1, <3>2, <3>3, Zenon
  <2> QED BY <2>1, <2>2, Zenon
<1>17. \A h \in Gmacs \ {g} :
         /\ rx'[h] = rx[h] /\ buf'[h] = buf[h] /\ up'[h] = up[h] /\ jumbo'[h] = jumbo[h]
         /\ inframe'[h] = inframe[h] /\ pc'[h] = pc[h] /\ ring_num'[h] = ring_num[h]
         /\ rxtail'[h] = rxtail[h]
  BY <1>1, <1>6, <1>8, Zenon
<1>18. Good(g)'
  BY <1>11, <1>12, <1>15, <1>16, Zenon DEF Good
<1> QED
  BY <1>2, <1>9, <1>17, <1>18, Elsewhere, Zenon

-----------------------------------------------------------------------------
(* The theorem.                                                            *)

\* A poll is not scheduled while it runs.
LEMMA PollingStep == ASSUME Polling, [Next]_vars PROVE Polling'
<1>1. CASE UNCHANGED <<napi, pc>>
  BY <1>1, Zenon DEF Polling
<1>2. ASSUME NEW g \in Gmacs, UNCHANGED pc, napi[g] # "polling", NEW s, napi' = [napi EXCEPT ![g] = s]
      PROVE  Polling'
  BY <1>2, Zenon DEF Polling
<1>3. ASSUME NEW g \in Gmacs, UNCHANGED napi, pc[g] # "out", NEW place, Goto(g, place)
      PROVE  Polling'
  BY <1>3, Zenon DEF Polling, Goto
<1>4. ASSUME NEW g \in Gmacs, NEW s, NEW place, napi' = [napi EXCEPT ![g] = s], Goto(g, place),
             s = "polling" \/ place = "out"
      PROVE  Polling'
  BY <1>4, Zenon DEF Polling, Goto
<1>5. ASSUME NEW g \in Gmacs, Hardware(g) PROVE UNCHANGED <<napi, pc>>
  BY <1>5, ZenonT(60) DEF Hardware, HwNoDescriptor, HwReceive
<1>6. ASSUME NEW g \in Gmacs, Admin(g) PROVE UNCHANGED <<napi, pc>>
  BY <1>6, Zenon DEF Admin, Close, StopHw, NapiDisable, InitHw, Refill, OpenDone
<1>7. PauseTimer \/ UNCHANGED vars => UNCHANGED <<napi, pc>>
  BY Zenon DEF PauseTimer, vars
<1>8. ASSUME NEW g \in Gmacs, Interrupt(g) PROVE Polling'
  <2>1. UNCHANGED pc /\ napi[g] # "polling" /\ napi' = [napi EXCEPT ![g] = "scheduled"]
    BY <1>8, Zenon DEF Interrupt
  <2> QED BY <1>2, <2>1, Zenon
<1>9. ASSUME NEW g \in Gmacs, Poll(g) PROVE Polling'
  <2>1. CASE PollClosed(g)
    <3>1. UNCHANGED pc /\ napi[g] # "polling" /\ napi' = [napi EXCEPT ![g] = "idle"]
      BY <2>1, Zenon DEF PollClosed
    <3> QED BY <1>2, <3>1, Zenon
  <2>2. CASE PollBegin(g) \/ Repoll(g) \/ PollDone(g)
    <3>1. \/ napi' = [napi EXCEPT ![g] = "polling"] /\ Goto(g, "backup")
          \/ napi' = [napi EXCEPT ![g] = "scheduled"] /\ Goto(g, "out")
          \/ napi' = [napi EXCEPT ![g] = "idle"] /\ Goto(g, "out")
      BY <2>2, Zenon DEF PollBegin, Repoll, PollDone
    <3> QED BY <1>4, <3>1, Zenon
  <2>3. CASE \/ ClearBackup(g) \/ StartRing(g) \/ ClearIsr1(g) \/ LoopEnds(g) \/ LoopPauses(g)
             \/ LoopQuits(g) \/ LoopGoesOn(g) \/ DescOwned(g)
    <3>1. UNCHANGED napi /\ pc[g] # "out" /\ \E place : Goto(g, place)
      BY <2>3, Zenon DEF ClearBackup, StartRing, ClearIsr1, LoopEnds, LoopPauses, LoopQuits, LoopGoesOn, DescOwned, EndRing
    <3> QED BY <1>3, <3>1, Zenon
  <2>4. CASE \/ HandleBad(g) \/ HandleWhole(g) \/ HandleNoMemory(g) \/ HandleMore(g)
             \/ (\E mem \in BOOLEAN : HandleFirst(g, mem)) \/ GiveBack(g)
    <3>1. UNCHANGED napi /\ pc[g] # "out" /\ \E place : Goto(g, place)
      BY <2>4, Zenon DEF HandleBad, HandleWhole, HandleNoMemory, HandleMore, HandleFirst, GiveBack, Handled, EndRing
    <3> QED BY <1>3, <3>1, Zenon
  <2> QED BY <1>9, <2>1, <2>2, <2>3, <2>4, Zenon DEF Poll
<1> QED
  BY <1>1, <1>5, <1>6, <1>7, <1>8, <1>9, Zenon DEF Next

\* Every step keeps the buffers apart.
LEMMA KeptStep == ASSUME Polling, Kept, [Next]_vars PROVE Kept'
<1>1. ASSUME NEW g \in Gmacs, Hardware(g) PROVE Kept'
  <2>1. ASSUME NEW r \in Rings, HwNoDescriptor(g, r) PROVE Kept'
    BY <2>1, NoDescriptorStep, Zenon
  <2>2. ASSUME NEW r \in Rings, NEW kind \in {"whole", "bad", "first", "mid", "last"}, NEW ends \in BOOLEAN,
               HwReceive(g, r, kind, ends)
        PROVE  Kept'
    <3>1. kind \in Kinds
      BY Zenon DEF Kinds
    <3> QED BY <2>2, <3>1, ReceiveStep, Zenon
  <2> QED BY <1>1, <2>1, <2>2, Zenon DEF Hardware
<1>2. ASSUME NEW g \in Gmacs, Interrupt(g) PROVE Kept'
  BY <1>2, QuietActions, Zenon
<1>3. ASSUME NEW g \in Gmacs, Poll(g) PROVE Kept'
  <2>1. CASE PollClosed(g) \/ ClearBackup(g) \/ ClearIsr1(g) \/ LoopGoesOn(g) \/ Repoll(g) \/ PollDone(g)
    BY <2>1, QuietActions, Zenon
  <2>2. CASE PollBegin(g) \/ StartRing(g)
    BY <2>2, IndexActions, Zenon
  <2>3. CASE LoopEnds(g) \/ LoopPauses(g) \/ LoopQuits(g) \/ DescOwned(g)
    BY <2>3, Breaks, Zenon
  <2>4. CASE HandleBad(g)
    BY <2>4, BadStep, Zenon
  <2>5. CASE HandleNoMemory(g)
    BY <2>5, NoMemoryStep, Breaks, Zenon
  <2>6. ASSUME NEW mem \in BOOLEAN, HandleFirst(g, mem) PROVE Kept'
    <3>1. CASE mem = TRUE
      BY <2>6, <3>1, FirstStep, Zenon
    <3>2. CASE mem = FALSE
      BY <2>6, <3>2, NoJumboStep, Zenon
    <3> QED BY <3>1, <3>2, Zenon
  <2>7. CASE HandleMore(g)
    BY <2>7, MoreStep, LastStep, Zenon
  <2>8. CASE HandleWhole(g)
    BY <2>8, WholeStep, Zenon
  <2>9. CASE GiveBack(g)
    BY <2>9, GiveBackStep, Zenon
  <2> QED BY <1>3, <2>1, <2>2, <2>3, <2>4, <2>5, <2>6, <2>7, <2>8, <2>9, Zenon DEF Poll
<1>4. ASSUME NEW g \in Gmacs, Admin(g) PROVE Kept'
  <2>1. CASE Close(g) \/ NapiDisable(g) \/ OpenDone(g)
    BY <2>1, QuietActions, Zenon
  <2>2. CASE StopHw(g)
    BY <2>2, IndexActions, Zenon
  <2>3. CASE InitHw(g)
    BY <2>3, InitHwStep, Zenon
  <2>4. CASE Refill(g)
    BY <2>4, RefillStep, Zenon
  <2> QED BY <1>4, <2>1, <2>2, <2>3, <2>4, Zenon DEF Admin
<1>5. CASE PauseTimer \/ UNCHANGED vars
  <2>1. UNCHANGED <<rx, buf, up, jumbo, inframe, cdo, nextFrame, tail, idx, ring_num, rxtail, pc>>
    BY <1>5, Zenon DEF PauseTimer, vars, engine, local
  <2> QED BY <2>1, Quieter, Zenon
<1> QED
  BY <1>1, <1>2, <1>3, <1>4, <1>5, Zenon DEF Next

\* Buffers that are apart are not shared.
LEMMA KeptNotShared == Kept => BuffersNotShared
<1> SUFFICES ASSUME Kept, NEW g \in Gmacs
             PROVE  /\ \A k \in 1 .. Len(up[g]), r \in Rings : \A i \in Slots(r) :
                         buf[g][r][i] # up[g][k].buf
                    /\ \A j, k \in 1 .. Len(up[g]) : up[g][j].buf = up[g][k].buf => j = k
  BY Zenon DEF BuffersNotShared
<1>1. Apart(g)
  BY Zenon DEF Kept, Good
<1> QED
  BY <1>1, Zenon DEF Apart, InStack, Once

\* The engine never writes into a buffer that the stack has, and none goes up
\* twice: a fresh buffer replaces each one that goes up (re8670_getAlloc), under
\* the loop of re8670_rx, re8670_stop_hw beside it, and re8670_open after it.
THEOREM BuffersNotSharedHolds == Spec => []BuffersNotShared
<1>1. Polling /\ Kept /\ [Next]_vars => (Polling /\ Kept)'
  BY PollingStep, KeptStep, Zenon
<1> QED
  BY Initially, <1>1, KeptNotShared, PTL DEF Spec

-----------------------------------------------------------------------------
(* The types of the variables that the proof above does not speak of.      *)

Places == {"out", "backup", "ring", "clear", "loop", "desc", "give", "repoll"}

\* Where the loop over one ring is.
InLoop == {"clear", "loop", "desc", "give"}

\* Interrupts, the work of a poll and its place.
Registers ==
    /\ isr1 \in [Gmacs -> SUBSET Rings] /\ rdu \in [Gmacs -> SUBSET Rings]
    /\ seen \in [Gmacs -> SUBSET Rings] /\ work \in [Gmacs -> SUBSET Rings]
    /\ rx_ring_backup \in SUBSET Rings
    /\ sw \in [Gmacs -> BOOLEAN] /\ mask \in [Gmacs -> BOOLEAN] /\ hwOn \in [Gmacs -> BOOLEAN]

Control == pc \in [Gmacs -> Places] /\ napi \in [Gmacs -> {"idle", "scheduled", "polling"}]

\* Frames have numbers up to the bound, and the jumbo frame fits in its buffer.
Arrived == Shape(rx, Fragment) /\ inframe \in [Gmacs -> [Rings -> Fragment]]
Fits == \A g \in Gmacs : Len(jumbo[g]) < JUMBO_FRAGS

\* A place of the poll.
LEMMA GotoPlace ==
  ASSUME Control, NEW g \in Gmacs, NEW place \in Places, Goto(g, place)
  PROVE  pc' \in [Gmacs -> Places]
  BY Zenon DEF Control, Goto

\* The poll goes from place to place, and NAPI is in one of its states.
LEMMA ControlStep == ASSUME Control, [Next]_vars PROVE Control'
<1>1. CASE UNCHANGED <<napi, pc>>
  BY <1>1, Zenon DEF Control
<1>2. ASSUME NEW g \in Gmacs, \/ UNCHANGED pc
                              \/ \E place \in Places : Goto(g, place),
             \/ UNCHANGED napi
             \/ \E s \in {"idle", "scheduled", "polling"} : napi' = [napi EXCEPT ![g] = s]
      PROVE  Control'
  <2>1. pc' \in [Gmacs -> Places]
    BY <1>2, GotoPlace, Zenon DEF Control
  <2>2. napi' \in [Gmacs -> {"idle", "scheduled", "polling"}]
    BY <1>2, Zenon DEF Control
  <2> QED BY <2>1, <2>2, Zenon DEF Control
<1>3. ASSUME NEW g \in Gmacs, Hardware(g) PROVE UNCHANGED <<napi, pc>>
  BY <1>3, ZenonT(60) DEF Hardware, HwNoDescriptor, HwReceive
<1>4. ASSUME NEW g \in Gmacs, Admin(g) PROVE UNCHANGED <<napi, pc>>
  BY <1>4, Zenon DEF Admin, Close, StopHw, NapiDisable, InitHw, Refill, OpenDone
<1>5. PauseTimer \/ UNCHANGED vars => UNCHANGED <<napi, pc>>
  BY Zenon DEF PauseTimer, vars
<1>6. ASSUME NEW g \in Gmacs, Interrupt(g) PROVE Control'
  <2>1. UNCHANGED pc /\ napi' = [napi EXCEPT ![g] = "scheduled"]
    BY <1>6, Zenon DEF Interrupt
  <2> QED BY <1>2, <2>1, Zenon
<1>7. ASSUME NEW g \in Gmacs, Poll(g) PROVE Control'
  <2>1. CASE PollClosed(g) \/ PollBegin(g) \/ Repoll(g) \/ PollDone(g)
    <3>1. \/ UNCHANGED pc /\ napi' = [napi EXCEPT ![g] = "idle"]
          \/ napi' = [napi EXCEPT ![g] = "polling"] /\ Goto(g, "backup")
          \/ napi' = [napi EXCEPT ![g] = "scheduled"] /\ Goto(g, "out")
          \/ napi' = [napi EXCEPT ![g] = "idle"] /\ Goto(g, "out")
      BY <2>1, Zenon DEF PollClosed, PollBegin, Repoll, PollDone
    <3> QED BY <1>2, <3>1, Zenon DEF Places
  <2>2. CASE \/ ClearBackup(g) \/ ClearIsr1(g) \/ LoopEnds(g) \/ LoopPauses(g)
             \/ LoopQuits(g) \/ LoopGoesOn(g) \/ DescOwned(g)
    <3>1. UNCHANGED napi /\ \E place \in {"ring", "loop", "desc"} : Goto(g, place)
      BY <2>2, Zenon DEF ClearBackup, ClearIsr1, LoopEnds, LoopPauses, LoopQuits, LoopGoesOn, DescOwned, EndRing
    <3> QED BY <1>2, <3>1, Zenon DEF Places
  <2>3. CASE StartRing(g)
    <3>1. UNCHANGED napi /\ \E place \in {"clear", "loop"} : Goto(g, place)
      BY <2>3, Zenon DEF StartRing
    <3> QED BY <1>2, <3>1, Zenon DEF Places
  <2>4. CASE \/ HandleBad(g) \/ HandleWhole(g) \/ HandleNoMemory(g) \/ HandleMore(g)
             \/ (\E mem \in BOOLEAN : HandleFirst(g, mem)) \/ GiveBack(g)
    <3>1. UNCHANGED napi /\ \E place \in {"give", "ring", "loop", "repoll"} : Goto(g, place)
      BY <2>4, Zenon DEF HandleBad, HandleWhole, HandleNoMemory, HandleMore, HandleFirst, GiveBack, Handled, EndRing
    <3> QED BY <1>2, <3>1, Zenon DEF Places
  <2> QED BY <1>7, <2>1, <2>2, <2>3, <2>4, Zenon DEF Poll
<1> QED
  BY <1>1, <1>3, <1>4, <1>5, <1>6, <1>7, Zenon DEF Next

\* All bits of the registers are those of rings, and so is the work of a poll.
LEMMA RegistersStep == ASSUME Types, Registers, [Next]_vars PROVE Registers'
<1> USE DEF Registers
<1>1. ASSUME NEW g \in Gmacs, Hardware(g) PROVE Registers'
  <2>1. ASSUME NEW r \in Rings, HwNoDescriptor(g, r) PROVE Registers'
    <3>1. /\ rdu' = [rdu EXCEPT ![g] = @ \cup {r}]
          /\ UNCHANGED <<isr1, seen, work, rx_ring_backup, sw, mask, hwOn>>
      BY <2>1, Zenon DEF HwNoDescriptor, local
    <3> QED BY <3>1, Zenon
  <2>2. ASSUME NEW r \in Rings, NEW kind, NEW ends, HwReceive(g, r, kind, ends) PROVE Registers'
    <3>1. /\ isr1' = [isr1 EXCEPT ![g] = @ \cup {r}]
          /\ UNCHANGED <<rdu, seen, work, rx_ring_backup, sw, mask, hwOn>>
      BY <2>2, Zenon DEF HwReceive, local
    <3> QED BY <3>1, Zenon
  <2> QED BY <1>1, <2>1, <2>2, Zenon DEF Hardware
<1>2. ASSUME NEW g \in Gmacs PROVE Pending(g) \in SUBSET Rings
  BY Zenon DEF Pending
<1>3. ASSUME NEW g \in Gmacs, Interrupt(g) PROVE Registers'
  <2>1. /\ seen' = [seen EXCEPT ![g] = Pending(g)] /\ mask' = [mask EXCEPT ![g] = TRUE]
        /\ rdu' = [rdu EXCEPT ![g] = {}] /\ sw' = [sw EXCEPT ![g] = FALSE]
        /\ UNCHANGED <<isr1, work, rx_ring_backup, hwOn>>
    BY <1>3, Zenon DEF Interrupt, engine, local
  <2> QED BY <1>2, <2>1, Zenon
<1>4. ASSUME NEW g \in Gmacs, Poll(g) PROVE Registers'
  <2>1. CASE PollClosed(g)
    <3>1. mask' = [mask EXCEPT ![g] = FALSE] /\ UNCHANGED <<isr1, rdu, seen, work, rx_ring_backup, sw, hwOn>>
      BY <2>1, Zenon DEF PollClosed, engine, local
    <3> QED BY <3>1, Zenon
  <2>2. CASE PollBegin(g)
    <3>1. /\ work' = [work EXCEPT ![g] = seen[g] \cup rx_ring_backup] /\ seen' = [seen EXCEPT ![g] = {}]
          /\ UNCHANGED <<isr1, rdu, rx_ring_backup, sw, mask, hwOn>>
      BY <2>2, Zenon DEF PollBegin, engine, irq
    <3> QED BY <3>1, Zenon
  <2>3. CASE ClearBackup(g)
    <3>1. rx_ring_backup' = {} /\ UNCHANGED <<isr1, rdu, seen, work, sw, mask, hwOn>>
      BY <2>3, Zenon DEF ClearBackup, engine, irq, local
    <3> QED BY <3>1, Zenon
  <2>4. CASE StartRing(g)
    <3>1. (\E r : work' = [work EXCEPT ![g] = @ \ {r}]) /\ UNCHANGED <<isr1, rdu, seen, rx_ring_backup, sw, mask, hwOn>>
      BY <2>4, Zenon DEF StartRing, engine, irq
    <3> QED BY <3>1, Zenon
  <2>5. CASE ClearIsr1(g)
    <3>1. /\ isr1' = [isr1 EXCEPT ![g] = @ \ {ring_num[g]}]
          /\ UNCHANGED <<rdu, seen, work, rx_ring_backup, sw, mask, hwOn>>
      BY <2>5, Zenon DEF ClearIsr1, engine, local
    <3> QED BY <3>1, Zenon
  <2>6. CASE LoopQuits(g)
    <3>1. /\ work' = [work EXCEPT ![g] = @ \cup {ring_num[g]}] /\ rx_ring_backup' = {ring_num[g]} \cup work[g]
          /\ UNCHANGED <<isr1, rdu, seen, sw, mask, hwOn>>
      BY <2>6, Zenon DEF LoopQuits, engine, irq
    <3>2. ring_num[g] \in Rings
      BY Zenon DEF Types
    <3> QED BY <3>1, <3>2, Zenon
  <2>7. CASE Repoll(g)
    <3>1. seen' = [seen EXCEPT ![g] = Pending(g)] /\ UNCHANGED <<isr1, rdu, work, rx_ring_backup, sw, mask, hwOn>>
      BY <2>7, Zenon DEF Repoll, engine, irq, local
    <3> QED BY <1>2, <3>1, Zenon
  <2>8. CASE PollDone(g)
    <3>1. mask' = [mask EXCEPT ![g] = FALSE] /\ UNCHANGED <<isr1, rdu, seen, work, rx_ring_backup, sw, hwOn>>
      BY <2>8, Zenon DEF PollDone, Isr1AtEnd, engine, local
    <3> QED BY <3>1, Zenon
  <2>9. CASE LoopEnds(g) \/ LoopPauses(g) \/ LoopGoesOn(g) \/ DescOwned(g)
    <3>1. UNCHANGED <<isr1, rdu, seen, work, rx_ring_backup, sw, mask, hwOn>>
      BY <2>9, Zenon DEF LoopEnds, LoopPauses, LoopGoesOn, DescOwned, engine, irq
    <3> QED BY <3>1, Zenon
  <2>10. CASE \/ HandleBad(g) \/ HandleWhole(g) \/ HandleNoMemory(g) \/ HandleMore(g)
              \/ (\E mem \in BOOLEAN : HandleFirst(g, mem)) \/ GiveBack(g)
    <3>1. UNCHANGED <<isr1, rdu, seen, work, rx_ring_backup, sw, mask, hwOn>>
      BY <2>10, Zenon DEF HandleBad, HandleWhole, HandleNoMemory, HandleMore, HandleFirst, GiveBack, Handled, engine, irq
    <3> QED BY <3>1, Zenon
  <2> QED BY <1>4, <2>1, <2>2, <2>3, <2>4, <2>5, <2>6, <2>7, <2>8, <2>9, <2>10, Zenon DEF Poll
<1>5. ASSUME NEW g \in Gmacs, Admin(g) PROVE Registers'
  <2>1. CASE Close(g) \/ NapiDisable(g) \/ Refill(g) \/ OpenDone(g)
    <3>1. UNCHANGED <<isr1, rdu, seen, work, rx_ring_backup, sw, mask, hwOn>>
      BY <2>1, Zenon DEF Close, NapiDisable, Refill, OpenDone, engine, irq, local
    <3> QED BY <3>1, Zenon
  <2>2. CASE StopHw(g)
    <3>1. /\ hwOn' = [hwOn EXCEPT ![g] = FALSE] /\ mask' = [mask EXCEPT ![g] = TRUE]
          /\ isr1' = [isr1 EXCEPT ![g] = {}] /\ rdu' = [rdu EXCEPT ![g] = {}] /\ sw' = [sw EXCEPT ![g] = FALSE]
          /\ UNCHANGED <<seen, work, rx_ring_backup>>
      BY <2>2, Zenon DEF StopHw, local
    <3> QED BY <3>1, Zenon
  <2>3. CASE InitHw(g)
    <3>1. /\ hwOn' = [hwOn EXCEPT ![g] = TRUE] /\ mask' = [mask EXCEPT ![g] = FALSE]
          /\ UNCHANGED <<isr1, rdu, sw, seen, work, rx_ring_backup>>
      BY <2>3, Zenon DEF InitHw, local
    <3> QED BY <3>1, Zenon
  <2> QED BY <1>5, <2>1, <2>2, <2>3, Zenon DEF Admin
<1>6. CASE PauseTimer
  <2>1. /\ sw' = [g \in Gmacs |-> sw[g] \/ (g \in paused /\ g \in {0, 1} /\ hwOn[g])]
        /\ UNCHANGED <<isr1, rdu, mask, hwOn, seen, work, rx_ring_backup>>
    BY <1>6, Zenon DEF PauseTimer, engine, local
  <2>2. sw' \in [Gmacs -> BOOLEAN]
    BY <2>1, Zenon
  <2> QED BY <2>1, <2>2, Zenon
<1>7. CASE UNCHANGED vars
  BY <1>7, Zenon DEF vars, engine, irq, local
<1> QED
  BY <1>1, <1>3, <1>4, <1>5, <1>6, <1>7, Zenon DEF Next

\* A poll has some of its budget left as long as it goes on, and the loop over the
\* rings is at one of them while the loop over a ring runs.
Counter(g) ==
    /\ ring_num[g] \in Rings /\ idx[g] \in 0 .. NR /\ cnt[g] \in 0 .. BUDGET
    /\ left[g] \in 0 .. RING[ring_num[g]]
    /\ pc[g] \in InLoop => idx[g] \in 0 .. NR - 1
    /\ pc[g] \in InLoop \cup {"backup", "ring"} => cnt[g] \in 0 .. BUDGET - 1

Counting ==
    /\ DOMAIN pc = Gmacs /\ ring_num \in [Gmacs -> Rings] /\ idx \in [Gmacs -> Nat]
    /\ cnt \in [Gmacs -> Nat] /\ left \in [Gmacs -> Nat]
    /\ \A g \in Gmacs : Counter(g)

\* A step of the poll of one GMAC.
LEMMA CountsAlone ==
  ASSUME Counting, NEW g \in Gmacs, NEW p, NEW q, NEW i, NEW c, NEW n,
         pc' = [pc EXCEPT ![g] = p], ring_num' = [ring_num EXCEPT ![g] = q], idx' = [idx EXCEPT ![g] = i],
         cnt' = [cnt EXCEPT ![g] = c], left' = [left EXCEPT ![g] = n],
         q \in Rings, i \in 0 .. NR, c \in 0 .. BUDGET, n \in 0 .. RING[q],
         p \in InLoop => i \in 0 .. NR - 1,
         p \in InLoop \cup {"backup", "ring"} => c \in 0 .. BUDGET - 1
  PROVE  Counting'
<1>0. i \in Nat /\ c \in Nat /\ n \in Nat
  BY NicRxAssumption, SMT
<1>1. /\ DOMAIN pc' = Gmacs /\ ring_num' \in [Gmacs -> Rings] /\ idx' \in [Gmacs -> Nat]
      /\ cnt' \in [Gmacs -> Nat] /\ left' \in [Gmacs -> Nat]
      /\ pc'[g] = p /\ ring_num'[g] = q /\ idx'[g] = i /\ cnt'[g] = c /\ left'[g] = n
      /\ \A h \in Gmacs \ {g} : /\ pc'[h] = pc[h] /\ ring_num'[h] = ring_num[h] /\ idx'[h] = idx[h]
                                /\ cnt'[h] = cnt[h] /\ left'[h] = left[h]
  BY <1>0, Zenon DEF Counting
<1>2. Counter(g)'
  BY <1>1, Zenon DEF Counter
<1>3. ASSUME NEW h \in Gmacs \ {g} PROVE Counter(h)'
  <2>1. Counter(h)
    BY Zenon DEF Counting
  <2> QED BY <1>1, <2>1, Zenon DEF Counter
<1> QED
  BY <1>1, <1>2, <1>3, Zenon DEF Counting

\* It leaves what it does not name.
LEMMA CountsAt ==
  ASSUME Counting, NEW g \in Gmacs
  PROVE  /\ Counter(g)
         /\ UNCHANGED ring_num => ring_num' = [ring_num EXCEPT ![g] = ring_num[g]]
         /\ UNCHANGED idx => idx' = [idx EXCEPT ![g] = idx[g]]
         /\ UNCHANGED cnt => cnt' = [cnt EXCEPT ![g] = cnt[g]]
         /\ UNCHANGED left => left' = [left EXCEPT ![g] = left[g]]
  BY Zenon DEF Counting

\* The loops of the poll count within their bounds.
LEMMA CountingStep == ASSUME Types, Counting, [Next]_vars PROVE Counting'
<1>1. CASE UNCHANGED <<pc, ring_num, idx, cnt, left>>
  BY <1>1, Zenon DEF Counting, Counter
<1>2. ASSUME NEW g \in Gmacs, Hardware(g) PROVE UNCHANGED <<pc, ring_num, idx, cnt, left>>
  BY <1>2, ZenonT(60) DEF Hardware, HwNoDescriptor, HwReceive, local
<1>3. ASSUME NEW g \in Gmacs, Admin(g) \/ Interrupt(g) \/ PollClosed(g)
      PROVE  UNCHANGED <<pc, ring_num, idx, cnt, left>>
  BY <1>3, Zenon DEF Admin, Close, StopHw, NapiDisable, InitHw, Refill, OpenDone, Interrupt, PollClosed, local
<1>4. PauseTimer \/ UNCHANGED vars => UNCHANGED <<pc, ring_num, idx, cnt, left>>
  BY Zenon DEF PauseTimer, vars, local
<1>5. ASSUME NEW g \in Gmacs, Poll(g) PROVE Counting'
  <2>0. Counter(g)
    BY CountsAt, Zenon
  <2>1. CASE PollClosed(g)
    BY <1>1, <1>3, <2>1, Zenon
  <2>2. CASE PollBegin(g)
    <3>1. /\ Goto(g, "backup") /\ idx' = [idx EXCEPT ![g] = 0] /\ cnt' = [cnt EXCEPT ![g] = 0]
          /\ UNCHANGED <<ring_num, left>>
      BY <2>2, Zenon DEF PollBegin
    <3>2. 0 \in 0 .. NR /\ 0 \in 0 .. BUDGET /\ 0 \in 0 .. BUDGET - 1
      BY NicRxAssumption, SMT
    <3>3. ring_num[g] \in Rings /\ left[g] \in 0 .. RING[ring_num[g]]
      BY <2>0, Zenon DEF Counter
    <3>4. /\ pc' = [pc EXCEPT ![g] = "backup"]
          /\ ring_num' = [ring_num EXCEPT ![g] = ring_num[g]] /\ left' = [left EXCEPT ![g] = left[g]]
      BY <3>1, CountsAt, Zenon DEF Goto
    <3> QED BY <3>1, <3>2, <3>3, <3>4, CountsAlone, Zenon DEF InLoop
  <2>3. CASE ClearBackup(g)
    <3>1. pc[g] = "backup" /\ Goto(g, "ring") /\ UNCHANGED <<idx, cnt, ring_num, left>>
      BY <2>3, Zenon DEF ClearBackup, local
    <3>2. ring_num[g] \in Rings /\ left[g] \in 0 .. RING[ring_num[g]] /\ idx[g] \in 0 .. NR /\ cnt[g] \in 0 .. BUDGET
      BY <2>0, Zenon DEF Counter
    <3>3. cnt[g] \in 0 .. BUDGET - 1
      BY <2>0, <3>1, Zenon DEF Counter
    <3>4. /\ pc' = [pc EXCEPT ![g] = "ring"]
          /\ ring_num' = [ring_num EXCEPT ![g] = ring_num[g]] /\ left' = [left EXCEPT ![g] = left[g]]
          /\ idx' = [idx EXCEPT ![g] = idx[g]] /\ cnt' = [cnt EXCEPT ![g] = cnt[g]]
      BY <3>1, CountsAt, Zenon DEF Goto
    <3> QED BY <3>2, <3>3, <3>4, CountsAlone, Zenon DEF InLoop
  <2>4. CASE StartRing(g)
    <3>1. PICK i \in ToDo(g) : /\ idx' = [idx EXCEPT ![g] = i] /\ ring_num' = [ring_num EXCEPT ![g] = pri_map(i)]
                               /\ left' = [left EXCEPT ![g] = RING[pri_map(i)]]
      BY <2>4, Zenon DEF StartRing
    <3>2. PICK place \in {"clear", "loop"} : Goto(g, place)
      BY <2>4, Zenon DEF StartRing
    <3>3. pc[g] = "ring" /\ UNCHANGED cnt
      BY <2>4, Zenon DEF StartRing
    <3>4. i \in 0 .. NR - 1 /\ i \in 0 .. NR
      BY <2>0, NicRxAssumption, SMT DEF ToDo, Counter
    <3>5. pri_map(i) \in Rings
      BY <2>0, NextRing, Zenon DEF Types
    <3>6. RING[pri_map(i)] \in 0 .. RING[pri_map(i)]
      BY <3>5, NicRxAssumption, SMT
    <3>7. cnt[g] \in 0 .. BUDGET /\ cnt[g] \in 0 .. BUDGET - 1
      BY <2>0, <3>3, Zenon DEF Counter
    <3>8. pc' = [pc EXCEPT ![g] = place] /\ cnt' = [cnt EXCEPT ![g] = cnt[g]]
      BY <3>2, <3>3, CountsAt, Zenon DEF Goto
    <3> QED BY <3>1, <3>4, <3>5, <3>6, <3>7, <3>8, CountsAlone, Zenon
  <2>5. CASE ClearIsr1(g) \/ LoopGoesOn(g)
    <3>1. PICK place \in {"loop", "desc"} : Goto(g, place)
      BY <2>5, Zenon DEF ClearIsr1, LoopGoesOn
    <3>2. /\ pc[g] \in InLoop /\ UNCHANGED <<idx, cnt, ring_num>>
          /\ UNCHANGED left \/ (left[g] > 0 /\ left' = [left EXCEPT ![g] = @ - 1])
      BY <2>5, Zenon DEF ClearIsr1, LoopGoesOn, local, InLoop
    <3>3. ring_num[g] \in Rings /\ left[g] \in 0 .. RING[ring_num[g]]
      BY <2>0, Zenon DEF Counter
    <3>4. PICK n \in 0 .. RING[ring_num[g]] : left' = [left EXCEPT ![g] = n]
      <4>1. CASE UNCHANGED left
        BY <3>3, <4>1, CountsAt, Zenon
      <4>2. CASE left[g] > 0 /\ left' = [left EXCEPT ![g] = left[g] - 1]
        <5>1. left[g] - 1 \in 0 .. RING[ring_num[g]]
          BY <3>3, <4>2, NicRxAssumption, SMT
        <5> QED BY <4>2, <5>1, Zenon
      <4> QED BY <3>2, <4>1, <4>2, Zenon
    <3>5. /\ idx[g] \in 0 .. NR /\ idx[g] \in 0 .. NR - 1 /\ cnt[g] \in 0 .. BUDGET /\ cnt[g] \in 0 .. BUDGET - 1
      BY <2>0, <3>2, Zenon DEF Counter
    <3>6. /\ pc' = [pc EXCEPT ![g] = place] /\ cnt' = [cnt EXCEPT ![g] = cnt[g]] /\ idx' = [idx EXCEPT ![g] = idx[g]]
          /\ ring_num' = [ring_num EXCEPT ![g] = ring_num[g]]
      BY <3>1, <3>2, CountsAt, Zenon DEF Goto
    <3> QED BY <3>3, <3>4, <3>5, <3>6, CountsAlone, Zenon
  <2>6. CASE LoopEnds(g) \/ LoopPauses(g) \/ LoopQuits(g) \/ DescOwned(g) \/ (HandleNoMemory(g) /\ PauseEnabled)
    <3>1. pc[g] \in InLoop /\ EndRing(g) /\ UNCHANGED <<cnt, ring_num, left>>
      BY <2>6, Zenon DEF LoopEnds, LoopPauses, LoopQuits, DescOwned, HandleNoMemory, InLoop
    <3>2. idx[g] \in 0 .. NR - 1
      BY <2>0, <3>1, Zenon DEF Counter
    <3>3. idx[g] + 1 \in 0 .. NR
      BY <3>2, NicRxAssumption, SMT
    <3>4. idx' = [idx EXCEPT ![g] = idx[g] + 1] /\ pc' = [pc EXCEPT ![g] = "ring"]
      BY <3>1, Zenon DEF EndRing, Goto
    <3>5. /\ ring_num[g] \in Rings /\ left[g] \in 0 .. RING[ring_num[g]]
          /\ cnt[g] \in 0 .. BUDGET /\ cnt[g] \in 0 .. BUDGET - 1
      BY <2>0, <3>1, Zenon DEF Counter
    <3>6. /\ ring_num' = [ring_num EXCEPT ![g] = ring_num[g]] /\ left' = [left EXCEPT ![g] = left[g]]
          /\ cnt' = [cnt EXCEPT ![g] = cnt[g]]
      BY <3>1, CountsAt, Zenon
    <3> QED BY <3>3, <3>4, <3>5, <3>6, CountsAlone, Zenon DEF InLoop
  <2>7. CASE \/ HandleBad(g) \/ HandleWhole(g) \/ (HandleNoMemory(g) /\ ~PauseEnabled) \/ HandleMore(g)
             \/ (\E mem \in BOOLEAN : HandleFirst(g, mem))
    <3>1. pc[g] = "desc" /\ Handled(g)
      BY <2>7, Zenon DEF HandleBad, HandleWhole, HandleNoMemory, HandleMore, HandleFirst
    <3>2. pc' = [pc EXCEPT ![g] = "give"] /\ UNCHANGED <<idx, cnt, ring_num, left>>
      BY <3>1, Zenon DEF Handled, Goto
    <3>3. ring_num[g] \in Rings /\ left[g] \in 0 .. RING[ring_num[g]] /\ idx[g] \in 0 .. NR /\ cnt[g] \in 0 .. BUDGET
      BY <2>0, Zenon DEF Counter
    <3>4. idx[g] \in 0 .. NR - 1 /\ cnt[g] \in 0 .. BUDGET - 1
      BY <2>0, <3>1, Zenon DEF Counter, InLoop
    <3>5. /\ pc' = [pc EXCEPT ![g] = "give"]
          /\ ring_num' = [ring_num EXCEPT ![g] = ring_num[g]] /\ left' = [left EXCEPT ![g] = left[g]]
          /\ idx' = [idx EXCEPT ![g] = idx[g]] /\ cnt' = [cnt EXCEPT ![g] = cnt[g]]
      BY <3>2, CountsAt, Zenon
    <3> QED BY <3>3, <3>4, <3>5, CountsAlone, Zenon
  <2>8. CASE GiveBack(g)
    <3>1. /\ pc[g] = "give" /\ UNCHANGED <<idx, ring_num, left>>
          /\ cnt' = [cnt EXCEPT ![g] = cnt[g] + 1]
          /\ \/ pc' = [pc EXCEPT ![g] = "repoll"]
             \/ ~(cnt[g] + 1 >= BUDGET) /\ pc' = [pc EXCEPT ![g] = "loop"]
      BY <2>8, Zenon DEF GiveBack, Goto
    <3>2. cnt[g] \in 0 .. BUDGET - 1
      BY <2>0, <3>1, Zenon DEF Counter, InLoop
    <3>3. cnt[g] + 1 \in 0 .. BUDGET /\ (~(cnt[g] + 1 >= BUDGET) => cnt[g] + 1 \in 0 .. BUDGET - 1)
      BY <3>2, NicRxAssumption, SMT
    <3>4. ring_num[g] \in Rings /\ idx[g] \in 0 .. NR /\ idx[g] \in 0 .. NR - 1 /\ left[g] \in 0 .. RING[ring_num[g]]
      BY <2>0, <3>1, Zenon DEF Counter, InLoop
    <3>5. PICK place : /\ pc' = [pc EXCEPT ![g] = place]
                       /\ place = "repoll" \/ (place = "loop" /\ cnt[g] + 1 \in 0 .. BUDGET - 1)
      BY <3>1, <3>3, Zenon
    <3>6. /\ ring_num' = [ring_num EXCEPT ![g] = ring_num[g]] /\ left' = [left EXCEPT ![g] = left[g]]
          /\ idx' = [idx EXCEPT ![g] = idx[g]] /\ cnt' = [cnt EXCEPT ![g] = cnt[g] + 1]
      BY <3>1, CountsAt, Zenon
    <3>7. place \in InLoop \cup {"backup", "ring"} => cnt[g] + 1 \in 0 .. BUDGET - 1
      BY <3>5, Zenon DEF InLoop
    <3> QED BY <3>3, <3>4, <3>5, <3>6, <3>7, CountsAlone, Zenon
  <2>9. CASE Repoll(g) \/ PollDone(g)
    <3>1. pc' = [pc EXCEPT ![g] = "out"] /\ UNCHANGED <<idx, cnt, ring_num, left>>
      BY <2>9, Zenon DEF Repoll, PollDone, Goto, local
    <3>2. ring_num[g] \in Rings /\ left[g] \in 0 .. RING[ring_num[g]] /\ idx[g] \in 0 .. NR /\ cnt[g] \in 0 .. BUDGET
      BY <2>0, Zenon DEF Counter
    <3>3. /\ pc' = [pc EXCEPT ![g] = "out"]
          /\ ring_num' = [ring_num EXCEPT ![g] = ring_num[g]] /\ left' = [left EXCEPT ![g] = left[g]]
          /\ idx' = [idx EXCEPT ![g] = idx[g]] /\ cnt' = [cnt EXCEPT ![g] = cnt[g]]
      BY <3>1, CountsAt, Zenon
    <3>4. "out" \notin InLoop \cup {"backup", "ring"}
      BY Zenon DEF InLoop
    <3> QED BY <3>2, <3>3, <3>4, CountsAlone, Zenon
  <2>10. CASE HandleNoMemory(g)
    BY <2>6, <2>7, <2>10, Zenon
  <2> QED BY <1>5, <2>1, <2>2, <2>3, <2>4, <2>5, <2>6, <2>7, <2>8, <2>9, <2>10, Zenon DEF Poll
<1> QED
  BY <1>1, <1>2, <1>3, <1>4, <1>5, Zenon DEF Next

\* No frame, as a fragment.
LEMMA NothingArrived == NoFrame \in Fragment
<1>1. 0 \in 0 .. MaxFrames /\ 0 \in Nat
  BY NicRxAssumption, SMT
<1> QED
  BY <1>1, Zenon DEF NoFrame, Fragment, Kinds

\* The engine numbers frames up to the bound.
LEMMA FilledArrives ==
  ASSUME Kept, NEW g \in Gmacs, NEW r \in Rings, NEW kind \in Kinds, NEW ends, HwReceive(g, r, kind, ends)
  PROVE  Filled(g, r, kind) \in Fragment
<1>1. Filled(g, r, kind) \in Fragments
  BY Arrives, Zenon
<1>2. Arriving(g, r).of \in Frames /\ Filled(g, r, kind).of = Arriving(g, r).of
  BY Zenon DEF HwReceive, Filled
<1>3. Filled(g, r, kind).of \in 0 .. MaxFrames
  BY <1>2, NicRxAssumption, SMT DEF Frames
<1> QED
  BY <1>1, <1>3, Zenon DEF Fragments, Fragment

\* What is in the descriptors and in the engine's hands are fragments of frames
\* within the bound.
LEMMA ArrivedStep == ASSUME Kept, Arrived, [Next]_vars PROVE Arrived'
<1>1. CASE UNCHANGED <<rx, inframe>>
  BY <1>1, Zenon DEF Arrived
<1>2. ASSUME NEW g \in Gmacs, Hardware(g) PROVE Arrived'
  <2>1. ASSUME NEW r \in Rings, HwNoDescriptor(g, r) PROVE Arrived'
    <3>1. UNCHANGED rx /\ inframe' = [inframe EXCEPT ![g][r] = NoFrame]
      BY <2>1, Zenon DEF HwNoDescriptor
    <3> QED BY <3>1, NothingArrived, Zenon DEF Arrived
  <2>2. ASSUME NEW r \in Rings, NEW kind \in {"whole", "bad", "first", "mid", "last"}, NEW ends \in BOOLEAN,
               HwReceive(g, r, kind, ends)
        PROVE  Arrived'
    <3>1. kind \in Kinds
      BY Zenon DEF Kinds
    <3>2. Filled(g, r, kind) \in Fragment
      BY <2>2, <3>1, FilledArrives, Zenon
    <3>3. /\ rx' = Put(rx, g, r, cdo[g][r], Filled(g, r, kind))
          /\ inframe' = [inframe EXCEPT ![g][r] = IF ends THEN NoFrame ELSE Filled(g, r, kind)]
      BY <2>2, Zenon DEF HwReceive, Put, Filled
    <3>4. cdo[g][r] \in Slots(r)
      BY Zenon DEF Kept, Types, Index
    <3>5. Shape(rx', Fragment)
      BY <3>2, <3>3, <3>4, Write, Zenon DEF Arrived, Changed
    <3>6. inframe' \in [Gmacs -> [Rings -> Fragment]]
      BY <3>2, <3>3, NothingArrived, Zenon DEF Arrived
    <3> QED BY <3>5, <3>6, Zenon DEF Arrived
  <2> QED BY <1>2, <2>1, <2>2, Zenon DEF Hardware
<1>3. ASSUME NEW g \in Gmacs, GiveBack(g) PROVE Arrived'
  <2>1. rx' = Put(rx, g, ring_num[g], rxtail[g], NoFrame) /\ UNCHANGED inframe
    BY <1>3, Zenon DEF GiveBack, Put, engine
  <2>2. ring_num[g] \in Rings /\ rxtail[g] \in Slots(ring_num[g])
    BY Zenon DEF Kept, Types
  <2>3. Shape(rx', Fragment)
    BY <2>1, <2>2, NothingArrived, Write, Zenon DEF Arrived, Changed
  <2> QED BY <2>1, <2>3, Zenon DEF Arrived
<1>4. ASSUME NEW g \in Gmacs, InitHw(g) PROVE Arrived'
  <2>1. UNCHANGED rx /\ inframe' = [inframe EXCEPT ![g] = [r \in Rings |-> NoFrame]]
    BY <1>4, Zenon DEF InitHw
  <2> QED BY <2>1, NothingArrived, Zenon DEF Arrived
<1>5. ASSUME NEW g \in Gmacs, Refill(g) PROVE Arrived'
  <2>1. UNCHANGED inframe /\ rx' = [rx EXCEPT ![g] = [r \in Rings |-> [i \in Slots(r) |-> NoFrame]]]
    BY <1>5, Zenon DEF Refill, engine
  <2>2. Shape(rx', Fragment)
    BY <2>1, NothingArrived, Zenon DEF Arrived, Shape
  <2> QED BY <2>1, <2>2, Zenon DEF Arrived
<1>6. ASSUME NEW g \in Gmacs, Poll(g), ~GiveBack(g) PROVE UNCHANGED <<rx, inframe>>
  <2>1. CASE \/ PollClosed(g) \/ PollBegin(g) \/ ClearBackup(g) \/ StartRing(g) \/ ClearIsr1(g)
             \/ LoopEnds(g) \/ LoopPauses(g) \/ LoopQuits(g) \/ LoopGoesOn(g) \/ DescOwned(g) \/ Repoll(g) \/ PollDone(g)
    BY <2>1, Zenon DEF PollClosed, PollBegin, ClearBackup, StartRing, ClearIsr1, LoopEnds, LoopPauses,
       LoopQuits, LoopGoesOn, DescOwned, Repoll, PollDone, engine
  <2>2. CASE \/ HandleBad(g) \/ HandleWhole(g) \/ HandleNoMemory(g) \/ HandleMore(g)
             \/ \E mem \in BOOLEAN : HandleFirst(g, mem)
    BY <2>2, Zenon DEF HandleBad, HandleWhole, HandleNoMemory, HandleMore, HandleFirst, Handled, engine
  <2> QED BY <1>6, <2>1, <2>2, Zenon DEF Poll
<1>7. ASSUME NEW g \in Gmacs, Interrupt(g) \/ Close(g) \/ StopHw(g) \/ NapiDisable(g) \/ OpenDone(g)
      PROVE  UNCHANGED <<rx, inframe>>
  BY <1>7, Zenon DEF Interrupt, Close, StopHw, NapiDisable, OpenDone, engine
<1>8. PauseTimer \/ UNCHANGED vars => UNCHANGED <<rx, inframe>>
  BY Zenon DEF PauseTimer, vars, engine
<1> QED
  BY <1>1, <1>2, <1>3, <1>4, <1>5, <1>6, <1>7, <1>8, Zenon DEF Next, Admin

\* The length of the jumbo frame after a fragment.
LEMMA Lengths ==
  /\ Len(<<>>) < JUMBO_FRAGS
  /\ \A f : Len(<<f>>) < JUMBO_FRAGS
  BY NicRxAssumption, SMT

\* The jumbo frame stays within its buffer.
LEMMA FitsStep == ASSUME Kept, Fits, [Next]_vars PROVE Fits'
<1>0. jumbo \in [Gmacs -> Seq(Fragments)]
  BY Zenon DEF Kept, Types
<1>1. CASE UNCHANGED jumbo
  BY <1>1, Zenon DEF Fits
<1>2. ASSUME NEW g \in Gmacs, NEW s, jumbo' = [jumbo EXCEPT ![g] = s], Len(s) < JUMBO_FRAGS PROVE Fits'
  <2>1. jumbo'[g] = s /\ \A h \in Gmacs \ {g} : jumbo'[h] = jumbo[h]
    BY <1>0, <1>2, Zenon
  <2> QED BY <1>2, <2>1, Zenon DEF Fits
<1>3. ASSUME NEW g \in Gmacs, Hardware(g) PROVE UNCHANGED jumbo
  BY <1>3, ZenonT(60) DEF Hardware, HwNoDescriptor, HwReceive
<1>4. ASSUME NEW g \in Gmacs, Admin(g) \/ Interrupt(g) PROVE UNCHANGED jumbo
  BY <1>4, Zenon DEF Admin, Close, StopHw, NapiDisable, InitHw, Refill, OpenDone, Interrupt
<1>5. PauseTimer \/ UNCHANGED vars => UNCHANGED jumbo
  BY Zenon DEF PauseTimer, vars
<1>6. ASSUME NEW g \in Gmacs, Poll(g) PROVE Fits'
  <2>1. CASE \/ PollClosed(g) \/ PollBegin(g) \/ ClearBackup(g) \/ StartRing(g) \/ ClearIsr1(g)
             \/ LoopEnds(g) \/ LoopPauses(g) \/ LoopQuits(g) \/ LoopGoesOn(g) \/ DescOwned(g) \/ Repoll(g) \/ PollDone(g)
             \/ HandleWhole(g) \/ HandleNoMemory(g) \/ GiveBack(g)
    <3>1. UNCHANGED jumbo
      BY <2>1, Zenon DEF PollClosed, PollBegin, ClearBackup, StartRing, ClearIsr1, LoopEnds, LoopPauses,
         LoopQuits, LoopGoesOn, DescOwned, Repoll, PollDone, HandleWhole, HandleNoMemory, GiveBack
    <3> QED BY <1>1, <3>1, Zenon
  <2>2. CASE HandleBad(g)
    <3>1. jumbo' = [jumbo EXCEPT ![g] = <<>>]
      BY <2>2, Zenon DEF HandleBad, AfterError
    <3> QED BY <1>2, <3>1, Lengths, Zenon
  <2>3. CASE \E mem \in BOOLEAN : HandleFirst(g, mem)
    <3>1. \/ jumbo' = [jumbo EXCEPT ![g] = <<>>]
          \/ jumbo' = [jumbo EXCEPT ![g] = <<Desc(g)>>]
      BY <2>3, Zenon DEF HandleFirst
    <3> QED BY <1>2, <3>1, Lengths, Zenon
  <2>4. CASE HandleMore(g)
    <3>1. \/ jumbo' = [jumbo EXCEPT ![g] = <<>>]
          \/ /\ jumbo' = [jumbo EXCEPT ![g] = Append(jumbo[g], Desc(g))]
             /\ Len(Append(jumbo[g], Desc(g))) < JUMBO_FRAGS
      BY <2>4, Zenon DEF HandleMore
    <3> QED BY <1>2, <3>1, Lengths, Zenon
  <2> QED BY <1>6, <2>1, <2>2, <2>3, <2>4, Zenon DEF Poll
<1> QED
  BY <1>1, <1>3, <1>4, <1>5, <1>6, Zenon DEF Next

TInv == Polling /\ Kept /\ Control /\ Registers /\ Counting /\ Arrived /\ Fits

\* All of this holds of the opened devices.
LEMMA InitTInv == Init => TInv
<1> SUFFICES ASSUME Init PROVE TInv
  BY Zenon
<1>1. Polling /\ Kept
  BY Initially, Zenon
<1>2. Control
  BY Zenon DEF Init, Control, Places
<1>3. Registers
  BY Zenon DEF Init, Registers
<1>4. Counting
  <2>1. 0 \in 0 .. NR /\ 0 \in 0 .. BUDGET /\ 0 \in Nat /\ 0 \in Rings /\ 0 \in 0 .. RING[0]
    BY NicRxAssumption, SMT DEF Rings
  <2>2. "out" \notin InLoop \cup {"backup", "ring"}
    BY Zenon DEF InLoop
  <2> QED BY <2>1, <2>2, Zenon DEF Init, Counting, Counter
<1>5. Arrived
  BY NothingArrived, Zenon DEF Init, Arrived, Shape
<1>6. Fits
  BY Lengths, Zenon DEF Init, Fits
<1> QED
  BY <1>1, <1>2, <1>3, <1>4, <1>5, <1>6, Zenon DEF TInv

\* Every step keeps it.
LEMMA StepTInv == TInv /\ [Next]_vars => TInv'
<1> SUFFICES ASSUME TInv, [Next]_vars PROVE TInv'
  BY Zenon
<1>1. Polling /\ Kept /\ Control /\ Registers /\ Counting /\ Arrived /\ Fits /\ Types
  BY Zenon DEF TInv, Kept
<1>2. Polling' /\ Kept'
  BY <1>1, PollingStep, KeptStep, Zenon
<1>3. Control' /\ Registers' /\ Counting'
  BY <1>1, ControlStep, RegistersStep, CountingStep, Zenon
<1>4. Arrived' /\ Fits'
  BY <1>1, ArrivedStep, FitsStep, Zenon
<1> QED
  BY <1>2, <1>3, <1>4, Zenon DEF TInv

\* The variables of the driver and of the engine keep their types: indices stay in
\* their rings (NEXT_RX), the loops of re8670_rx within budget and rx_work, and a
\* jumbo frame within JUMBO_SKB_BUF_SIZE, whatever a close does beside the poll.
THEOREM TypeOKHolds == Spec => []TypeOK
<1>1. ASSUME TInv PROVE TypeOK
  <2> SUFFICES ASSUME NEW g \in Gmacs
               PROVE  /\ \A r \in Rings :
                           /\ rx[g][r] \in [Slots(r) -> Fragment] /\ DOMAIN buf[g][r] = Slots(r)
                           /\ cdo[g][r] \in Slots(r) /\ tail[g][r] \in Slots(r)
                           /\ inframe[g][r] \in Fragment
                      /\ isr1[g] \subseteq Rings /\ rdu[g] \subseteq Rings /\ sw[g] \in BOOLEAN
                      /\ mask[g] \in BOOLEAN /\ hwOn[g] \in BOOLEAN
                      /\ seen[g] \subseteq Rings /\ work[g] \subseteq Rings /\ rx_ring_backup \subseteq Rings
                      /\ napi[g] \in {"idle", "scheduled", "polling"} /\ pc[g] \in Places
                      /\ idx[g] \in 0 .. NR /\ ring_num[g] \in Rings /\ rxtail[g] \in Slots(ring_num[g])
                      /\ left[g] \in 0 .. RING[ring_num[g]] /\ cnt[g] \in 0 .. BUDGET
                      /\ Len(jumbo[g]) < JUMBO_FRAGS
    BY Zenon DEF TypeOK, Places
  <2>1. ASSUME NEW r \in Rings
        PROVE  /\ rx[g][r] \in [Slots(r) -> Fragment] /\ DOMAIN buf[g][r] = Slots(r)
               /\ cdo[g][r] \in Slots(r) /\ tail[g][r] \in Slots(r) /\ inframe[g][r] \in Fragment
    <3>1. buf[g][r] \in [Slots(r) -> Buffers]
      BY <1>1, Zenon DEF TInv, Kept, Types, Shape
    <3>2. rx[g][r] \in [Slots(r) -> Fragment] /\ inframe[g][r] \in Fragment
      BY <1>1, Zenon DEF TInv, Arrived, Shape
    <3>3. cdo[g][r] \in Slots(r) /\ tail[g][r] \in Slots(r)
      BY <1>1, Zenon DEF TInv, Kept, Types, Index
    <3> QED BY <3>1, <3>2, <3>3, Zenon
  <2>2. /\ isr1[g] \subseteq Rings /\ rdu[g] \subseteq Rings /\ sw[g] \in BOOLEAN
        /\ mask[g] \in BOOLEAN /\ hwOn[g] \in BOOLEAN
        /\ seen[g] \subseteq Rings /\ work[g] \subseteq Rings /\ rx_ring_backup \subseteq Rings
    BY <1>1, Zenon DEF TInv, Registers
  <2>3. napi[g] \in {"idle", "scheduled", "polling"} /\ pc[g] \in Places
    BY <1>1, Zenon DEF TInv, Control
  <2>4. Counter(g) /\ rxtail[g] \in Slots(ring_num[g]) /\ Len(jumbo[g]) < JUMBO_FRAGS
    BY <1>1, Zenon DEF TInv, Counting, Kept, Types, Fits
  <2> QED BY <2>1, <2>2, <2>3, <2>4, Zenon DEF Counter
<1> QED
  BY InitTInv, StepTInv, <1>1, PTL DEF Spec

-----------------------------------------------------------------------------
(* A ring as a queue.  The driver is at descriptor a, which it holds if h; *)
(* the engine is at c and in frame f, and frames from m on are still to    *)
(* come.  q is what the descriptors have, u what went up, s the jumbo      *)
(* frame under assembly.                                                   *)

\* How far descriptor i is from a.
Gap(r, a, i) == IF a <= i THEN i - a ELSE i - a + RING[r]

Occupied(r, q) == {i \in Slots(r) : q[i] # NoFrame}
Waiting(r, q, a, h) == {i \in Occupied(r, q) : ~(h /\ i = a)}

Ends(f) == f.kind \in {"whole", "last"}

\* Fragment e came before f, and f may be of the same frame.
Before(e, f) == e.of < f.of \/ (e.of = f.of /\ ~Ends(e))

\* Frame n went up from ring r.
Went(u, r, n) == \E k \in 1 .. Len(u) : u[k].ring = r /\ u[k].frags[1].of = n

\* Frames went up in order.
Ascends(u, r) ==
    \A j, k \in 1 .. Len(u) :
      (j < k /\ u[j].ring = r /\ u[k].ring = r) => u[j].frags[1].of < u[k].frags[1].of

\* The engine has filled what lies before its place, or all descriptors.
Behind(r, q, a, c) ==
    \A i \in Slots(r) : q[i] # NoFrame <=> (Gap(r, a, i) < Gap(r, a, c) \/ (a = c /\ q[c] # NoFrame))

\* Descriptors hold fragments in the order of their arrival.
Sorted(r, q, a) ==
    \A i, j \in Occupied(r, q) :
      Gap(r, a, i) < Gap(r, a, j) => Before(q[i], q[j])

\* They come before what the engine is in and before what is to come.
Oldest(r, q, f, m) ==
    /\ f # NoFrame => f.of < m /\ ~Ends(f)
    /\ \A i \in Occupied(r, q) : q[i].of < m /\ (f # NoFrame => Before(q[i], f))

\* What went up came before what waits.
Done(r, q, a, h, f, u, m) ==
    /\ Ascends(u, r)
    /\ \A n : Went(u, r, n) =>
         /\ n \in Nat /\ n < m /\ (f # NoFrame => n < f.of)
         /\ \A i \in Waiting(r, q, a, h) : n < q[i].of

Fifo(r, q, a, h, c, f, u, m) ==
    /\ q \in [Slots(r) -> Fragments] /\ a \in Slots(r) /\ c \in Slots(r) /\ f \in Fragments
    /\ u \in Seq(Passed) /\ m \in Nat
    /\ h => q[a] # NoFrame
    /\ Behind(r, q, a, c) /\ Sorted(r, q, a) /\ Oldest(r, q, f, m) /\ Done(r, q, a, h, f, u, m)

\* Indices of a ring as numbers.
LEMMA Numerals ==
  ASSUME NEW r \in Rings
  PROVE  /\ RING[r] \in Nat \ {0}
         /\ \A i \in Slots(r) : i \in 0 .. RING[r] - 1 /\ NEXT_RX(i, r) = IF i = RING[r] - 1 THEN 0 ELSE i + 1
<1>1. RING[r] \in Nat \ {0}
  BY NicRxAssumption, Zenon
<1> QED
  BY <1>1, SMTT(30) DEF Slots, NEXT_RX

\* How far two descriptors may be apart.
LEMMA Gaps ==
  ASSUME NEW r \in Rings, NEW a \in Slots(r), NEW i \in Slots(r)
  PROVE  Gap(r, a, i) \in Nat /\ Gap(r, a, i) <= RING[r] - 1
<1>1. RING[r] \in Nat \ {0} /\ a \in 0 .. RING[r] - 1 /\ i \in 0 .. RING[r] - 1
  BY Numerals, Zenon
<1> QED
  BY <1>1, SMTT(30) DEF Gap

\* No two are equally far.
LEMMA GapApart ==
  ASSUME NEW r \in Rings, NEW a \in Slots(r), NEW i \in Slots(r), NEW j \in Slots(r), Gap(r, a, i) = Gap(r, a, j)
  PROVE  i = j
<1>1. RING[r] \in Nat \ {0} /\ a \in 0 .. RING[r] - 1 /\ i \in 0 .. RING[r] - 1 /\ j \in 0 .. RING[r] - 1
  BY Numerals, Zenon
<1> QED
  BY <1>1, SMTT(30) DEF Gap

\* The driver's own is the nearest.
LEMMA GapAhead ==
  ASSUME NEW r \in Rings, NEW a \in Slots(r), NEW i \in Slots(r), i # a
  PROVE  Gap(r, a, a) < Gap(r, a, i)
<1>1. RING[r] \in Nat \ {0} /\ a \in 0 .. RING[r] - 1 /\ i \in 0 .. RING[r] - 1
  BY Numerals, Zenon
<1> QED
  BY <1>1, SMTT(30) DEF Gap

\* The driver goes on.
LEMMA GapOn ==
  ASSUME NEW r \in Rings, NEW a \in Slots(r), NEW i \in Slots(r)
  PROVE  /\ i # a => Gap(r, NEXT_RX(a, r), i) = Gap(r, a, i) - 1
         /\ i = a => Gap(r, NEXT_RX(a, r), i) = RING[r] - 1
<1>1. /\ RING[r] \in Nat \ {0} /\ a \in 0 .. RING[r] - 1 /\ i \in 0 .. RING[r] - 1
      /\ NEXT_RX(a, r) = IF a = RING[r] - 1 THEN 0 ELSE a + 1
  BY Numerals, Zenon
<1> QED
  BY <1>1, SMTT(30) DEF Gap

\* The engine goes on.
LEMMA GapNext ==
  ASSUME NEW r \in Rings, NEW a \in Slots(r), NEW i \in Slots(r)
  PROVE  /\ NEXT_RX(i, r) = a => Gap(r, a, i) = RING[r] - 1
         /\ NEXT_RX(i, r) # a => Gap(r, a, NEXT_RX(i, r)) = Gap(r, a, i) + 1
<1>1. /\ RING[r] \in Nat \ {0} /\ a \in 0 .. RING[r] - 1 /\ i \in 0 .. RING[r] - 1
      /\ NEXT_RX(i, r) = IF i = RING[r] - 1 THEN 0 ELSE i + 1
  BY Numerals, Zenon
<1> QED
  BY <1>1, SMTT(30) DEF Gap

\* No two descriptors have the same next one.
LEMMA NextApart ==
  ASSUME NEW r \in Rings, NEW i \in Slots(r), NEW j \in Slots(r)
  PROVE  NEXT_RX(i, r) = NEXT_RX(j, r) => i = j
<1>1. RING[r] \in Nat \ {0} /\ j \in 0 .. RING[r] - 1 /\ i \in 0 .. RING[r] - 1
  BY Numerals, Zenon
<1>2. (IF i = RING[r] - 1 THEN 0 ELSE i + 1) = (IF j = RING[r] - 1 THEN 0 ELSE j + 1) => i = j
  BY <1>1, SMT
<1>3. NEXT_RX(i, r) = IF i = RING[r] - 1 THEN 0 ELSE i + 1
  BY Numerals, Zenon
<1>4. NEXT_RX(j, r) = IF j = RING[r] - 1 THEN 0 ELSE j + 1
  BY Numerals, Zenon
<1> QED
  BY <1>2, <1>3, <1>4, Zenon

\* A frame of one ring goes up: what it does to the order of each ring.
LEMMA Grows ==
  ASSUME NEW u \in Seq(Passed), NEW e \in Passed, NEW t, t = Append(u, e), NEW r
  PROVE  /\ t \in Seq(Passed)
         /\ e.ring # r /\ Ascends(u, r) => Ascends(t, r)
         /\ e.ring # r => \A n : Went(t, r, n) => Went(u, r, n)
         /\ e.ring = r => \A n : Went(t, r, n) => Went(u, r, n) \/ n = e.frags[1].of
         /\ e.ring = r /\ Ascends(u, r) /\ (\A n : Went(u, r, n) => n < e.frags[1].of) => Ascends(t, r)
<1>1. /\ t \in Seq(Passed) /\ Len(u) \in Nat /\ Len(t) = Len(u) + 1
      /\ \A k \in 1 .. Len(u) : t[k] = u[k]
      /\ t[Len(t)] = e
  BY SMTT(30)
<1>2. \A k \in 1 .. Len(t) : k \in 1 .. Len(u) \/ k = Len(t)
  BY <1>1, SMTT(30)
<1>3. \A j, k \in 1 .. Len(t) : j < k => j \in 1 .. Len(u)
  BY <1>1, SMTT(30)
<1>4. e.ring # r => \A n : Went(t, r, n) => Went(u, r, n)
  BY <1>1, <1>2, Zenon DEF Went
<1>5. e.ring = r => \A n : Went(t, r, n) => Went(u, r, n) \/ n = e.frags[1].of
  BY <1>1, <1>2, Zenon DEF Went
<1>6. ASSUME e.ring # r, Ascends(u, r) PROVE Ascends(t, r)
  <2> SUFFICES ASSUME NEW j \in 1 .. Len(t), NEW k \in 1 .. Len(t), j < k, t[j].ring = r, t[k].ring = r
               PROVE  t[j].frags[1].of < t[k].frags[1].of
    BY Zenon DEF Ascends
  <2>1. j \in 1 .. Len(u) /\ t[j] = u[j]
    BY <1>1, <1>3, Zenon
  <2>2. k \in 1 .. Len(u) /\ t[k] = u[k]
    BY <1>1, <1>2, <1>6, Zenon
  <2> QED BY <1>6, <2>1, <2>2, Zenon DEF Ascends
<1>7. ASSUME e.ring = r, Ascends(u, r), \A n : Went(u, r, n) => n < e.frags[1].of PROVE Ascends(t, r)
  <2> SUFFICES ASSUME NEW j \in 1 .. Len(t), NEW k \in 1 .. Len(t), j < k, t[j].ring = r, t[k].ring = r
               PROVE  t[j].frags[1].of < t[k].frags[1].of
    BY Zenon DEF Ascends
  <2>1. j \in 1 .. Len(u) /\ t[j] = u[j]
    BY <1>1, <1>3, Zenon
  <2>2. CASE k \in 1 .. Len(u)
    BY <1>1, <1>7, <2>1, <2>2, Zenon DEF Ascends
  <2>3. CASE k = Len(t)
    BY <1>1, <1>7, <2>1, <2>3, Zenon DEF Went
  <2> QED BY <1>2, <2>2, <2>3, Zenon
<1> QED
  BY <1>1, <1>4, <1>5, <1>6, <1>7, Zenon

\* The engine fills its descriptor and goes on.
LEMMA FifoFill ==
  ASSUME NEW r \in Rings, NEW q, NEW a, NEW h, NEW c, NEW f, NEW u, NEW m, Fifo(r, q, a, h, c, f, u, m),
         q[c] = NoFrame, NEW e \in Fragments, e # NoFrame,
         f = NoFrame => e.of = m, f # NoFrame => e.of = f.of,
         NEW p \in [Slots(r) -> Fragments], p[c] = e, \A j \in Slots(r) : j # c => p[j] = q[j],
         NEW d \in Fragments, d = NoFrame \/ (d = e /\ ~Ends(e)), NEW n \in Nat, m <= n, e.of < n
  PROVE  Fifo(r, p, a, h, NEXT_RX(c, r), d, u, n)
<1>1. /\ q \in [Slots(r) -> Fragments] /\ a \in Slots(r) /\ c \in Slots(r) /\ f \in Fragments
      /\ u \in Seq(Passed) /\ m \in Nat /\ (h => q[a] # NoFrame)
      /\ Behind(r, q, a, c) /\ Sorted(r, q, a) /\ Oldest(r, q, f, m) /\ Done(r, q, a, h, f, u, m)
  BY Zenon DEF Fifo
<1>2. NEXT_RX(c, r) \in Slots(r)
  BY <1>1, NextInRing, Zenon
<1>3. \A j \in Slots(r) : q[j].of \in Nat /\ q[j] \in Fragments
  BY <1>1, Zenon DEF Fragments
<1>4. e.of \in Nat /\ f.of \in Nat
  BY <1>1, Zenon DEF Fragments
<1>5. \A i \in Occupied(r, p) : i = c \/ (i \in Occupied(r, q) /\ i # c /\ p[i] = q[i])
  BY <1>1, Zenon DEF Occupied
<1>6. /\ Gap(r, a, c) \in Nat /\ RING[r] \in Nat
      /\ NEXT_RX(c, r) = a => Gap(r, a, c) = RING[r] - 1
      /\ NEXT_RX(c, r) # a => Gap(r, a, NEXT_RX(c, r)) = Gap(r, a, c) + 1
      /\ \A i \in Slots(r) : Gap(r, a, i) \in Nat /\ Gap(r, a, i) <= RING[r] - 1 /\ (Gap(r, a, i) = Gap(r, a, c) => i = c)
  <2>1. RING[r] \in Nat
    BY NicRxAssumption, Zenon
  <2>2. \A i \in Slots(r) : Gap(r, a, i) = Gap(r, a, c) => i = c
    BY <1>1, GapApart, Zenon
  <2>3. \A i \in Slots(r) : Gap(r, a, i) \in Nat /\ Gap(r, a, i) <= RING[r] - 1
    BY <1>1, Gaps, Zenon
  <2>4. /\ NEXT_RX(c, r) = a => Gap(r, a, c) = RING[r] - 1
        /\ NEXT_RX(c, r) # a => Gap(r, a, NEXT_RX(c, r)) = Gap(r, a, c) + 1
    BY <1>1, GapNext, Zenon
  <2> QED BY <1>1, <2>1, <2>2, <2>3, <2>4, Zenon
<1>7. \A i \in Slots(r) : q[i] # NoFrame <=> Gap(r, a, i) < Gap(r, a, c)
  BY <1>1, Zenon DEF Behind
<1>8. Behind(r, p, a, NEXT_RX(c, r))
  <2>1. CASE NEXT_RX(c, r) = a
    <3>1. \A i \in Slots(r) : i # c => Gap(r, a, i) < Gap(r, a, c)
      BY <1>6, <2>1, SMT
    <3>2. \A i \in Slots(r) : p[i] # NoFrame
      BY <1>7, <3>1, Zenon
    <3> QED BY <1>1, <2>1, <3>2, Zenon DEF Behind
  <2>2. CASE NEXT_RX(c, r) # a
    <3>1. \A i \in Slots(r) : Gap(r, a, i) < Gap(r, a, c) + 1 <=> i = c \/ Gap(r, a, i) < Gap(r, a, c)
      BY <1>6, SMT
    <3>2. \A i \in Slots(r) : p[i] # NoFrame <=> i = c \/ Gap(r, a, i) < Gap(r, a, c)
      BY <1>7, Zenon
    <3> QED BY <1>6, <2>2, <3>1, <3>2, Zenon DEF Behind
  <2> QED BY <2>1, <2>2, Zenon
<1>9. ASSUME NEW i \in Occupied(r, q) PROVE Before(q[i], e) /\ q[i].of < n
  <2>1. q[i].of < m /\ (f # NoFrame => Before(q[i], f)) /\ q[i].of \in Nat
    BY <1>1, <1>3, Zenon DEF Oldest, Occupied
  <2>2. q[i].of < n
    BY <1>1, <2>1, Less, Zenon
  <2> QED BY <2>1, <2>2, Zenon DEF Before
<1>10. Sorted(r, p, a)
  <2> SUFFICES ASSUME NEW i \in Occupied(r, p), NEW j \in Occupied(r, p), Gap(r, a, i) < Gap(r, a, j)
               PROVE  Before(p[i], p[j])
    BY Zenon DEF Sorted
  <2>1. CASE i = c
    <3>1. j # c /\ j \in Occupied(r, q) /\ j \in Slots(r)
      BY <1>5, <1>6, <2>1, SMT DEF Occupied
    <3>2. Gap(r, a, j) < Gap(r, a, c)
      BY <1>7, <3>1, Zenon DEF Occupied
    <3> QED BY <1>6, <2>1, <3>1, <3>2, SMT
  <2>2. CASE i # c /\ j = c
    BY <1>5, <1>9, <2>2, Zenon
  <2>3. CASE i # c /\ j # c
    BY <1>1, <1>5, <2>3, Zenon DEF Sorted
  <2> QED BY <2>1, <2>2, <2>3, Zenon
<1>11. Oldest(r, p, d, n)
  <2>1. d # NoFrame => d.of < n /\ ~Ends(d) /\ Before(e, d)
    BY Zenon DEF Before
  <2>2. ASSUME NEW i \in Occupied(r, p) PROVE p[i].of < n /\ (d # NoFrame => Before(p[i], d))
    BY <1>5, <1>9, <2>1, Zenon
  <2> QED BY <2>1, <2>2, Zenon DEF Oldest
<1>12. Done(r, p, a, h, d, u, n)
  <2>1. ASSUME NEW k, Went(u, r, k)
        PROVE  k \in Nat /\ k < n /\ k < e.of /\ \A i \in Waiting(r, q, a, h) : k < q[i].of
    <3>1. k \in Nat /\ k < m /\ (f # NoFrame => k < f.of) /\ \A i \in Waiting(r, q, a, h) : k < q[i].of
      BY <1>1, <2>1, Zenon DEF Done
    <3> QED BY <1>1, <3>1, Less, Zenon
  <2>2. \A i \in Waiting(r, p, a, h) : i = c \/ (i \in Waiting(r, q, a, h) /\ p[i] = q[i])
    BY <1>5, Zenon DEF Waiting
  <2>3. d # NoFrame => d = e
    BY Zenon
  <2> QED BY <1>1, <2>1, <2>2, <2>3, Zenon DEF Done
<1>13. h => p[a] # NoFrame
  BY <1>1, Zenon
<1> QED
  BY <1>1, <1>2, <1>8, <1>10, <1>11, <1>12, <1>13, Zenon DEF Fifo

\* The poll takes what its descriptor has, and may send a frame up that ends there.
LEMMA FifoTake ==
  ASSUME NEW r \in Rings, NEW q, NEW a, NEW c, NEW f, NEW u, NEW m, Fifo(r, q, a, FALSE, c, f, u, m),
         q[a] # NoFrame, NEW t,
         \/ t = u
         \/ \E e \in Passed : t = Append(u, e) /\ e.ring = r /\ e.frags[1].of = q[a].of /\ Ends(q[a])
  PROVE  Fifo(r, q, a, TRUE, c, f, t, m)
<1>1. /\ q \in [Slots(r) -> Fragments] /\ a \in Slots(r) /\ c \in Slots(r) /\ f \in Fragments
      /\ u \in Seq(Passed) /\ m \in Nat
      /\ Behind(r, q, a, c) /\ Sorted(r, q, a) /\ Oldest(r, q, f, m) /\ Done(r, q, a, FALSE, f, u, m)
  BY Zenon DEF Fifo
<1>2. \A i : i \in Waiting(r, q, a, TRUE) => i \in Waiting(r, q, a, FALSE) /\ i \in Occupied(r, q) /\ i # a
  BY Zenon DEF Waiting
<1>3. a \in Waiting(r, q, a, FALSE) /\ a \in Occupied(r, q)
  BY <1>1, Zenon DEF Waiting, Occupied
<1>4. CASE t = u
  <2>1. Done(r, q, a, TRUE, f, u, m)
    BY <1>1, <1>2, Zenon DEF Done
  <2> QED BY <1>1, <1>4, <2>1, Zenon DEF Fifo
<1>5. ASSUME NEW e \in Passed, t = Append(u, e), e.ring = r, e.frags[1].of = q[a].of, Ends(q[a])
      PROVE  Fifo(r, q, a, TRUE, c, f, t, m)
  <2>1. \A n : Went(u, r, n) => /\ n \in Nat /\ n < m /\ (f # NoFrame => n < f.of)
                                /\ n < q[a].of /\ \A i \in Waiting(r, q, a, TRUE) : n < q[i].of
    BY <1>1, <1>2, <1>3, Zenon DEF Done
  <2>2. /\ t \in Seq(Passed) /\ Ascends(t, r)
        /\ \A n : Went(t, r, n) => Went(u, r, n) \/ n = q[a].of
    <3>1. Ascends(u, r) /\ \A n : Went(u, r, n) => n < e.frags[1].of
      BY <1>1, <1>5, <2>1, Zenon DEF Done
    <3> QED BY <1>1, <1>5, <3>1, Grows, Zenon
  <2>3. /\ q[a].of \in Nat /\ q[a].of < m /\ (f # NoFrame => q[a].of < f.of)
    BY <1>1, <1>3, <1>5, Zenon DEF Oldest, Before, Fragments
  <2>4. ASSUME NEW i \in Waiting(r, q, a, TRUE) PROVE q[a].of < q[i].of
    <3>1. i \in Slots(r) /\ i \in Occupied(r, q) /\ i # a
      BY <1>2, Zenon DEF Occupied
    <3>2. Gap(r, a, a) < Gap(r, a, i)
      BY <1>1, <3>1, GapAhead, Zenon
    <3> QED BY <1>1, <1>3, <1>5, <3>1, <3>2, Zenon DEF Sorted, Before
  <2>5. Done(r, q, a, TRUE, f, t, m)
    BY <2>1, <2>2, <2>3, <2>4, Zenon DEF Done
  <2> QED BY <1>1, <2>2, <2>5, Zenon DEF Fifo
<1> QED
  BY <1>4, <1>5, Zenon

\* The poll gives its descriptor back and goes on.
LEMMA FifoGive ==
  ASSUME NEW r \in Rings, NEW q, NEW a, NEW c, NEW f, NEW u, NEW m, Fifo(r, q, a, TRUE, c, f, u, m),
         NEW p \in [Slots(r) -> Fragments], p[a] = NoFrame, \A j \in Slots(r) : j # a => p[j] = q[j]
  PROVE  Fifo(r, p, NEXT_RX(a, r), FALSE, c, f, u, m)
<1> DEFINE b == NEXT_RX(a, r)
<1> HIDE DEF b
<1>1. /\ q \in [Slots(r) -> Fragments] /\ a \in Slots(r) /\ c \in Slots(r) /\ f \in Fragments
      /\ u \in Seq(Passed) /\ m \in Nat /\ q[a] # NoFrame
      /\ Behind(r, q, a, c) /\ Sorted(r, q, a) /\ Oldest(r, q, f, m) /\ Done(r, q, a, TRUE, f, u, m)
  BY Zenon DEF Fifo
<1>2. b \in Slots(r)
  BY <1>1, NextInRing, Zenon DEF b
<1>3. \A i \in Occupied(r, p) : i \in Slots(r) /\ i # a /\ i \in Occupied(r, q) /\ p[i] = q[i] /\ i \in Waiting(r, q, a, TRUE)
  BY <1>1, Zenon DEF Occupied, Waiting
<1>4. /\ RING[r] \in Nat /\ Gap(r, b, a) = RING[r] - 1
      /\ \A i \in Slots(r) : Gap(r, a, i) \in Nat /\ Gap(r, a, i) <= RING[r] - 1
      /\ \A i \in Slots(r) : i # a => Gap(r, b, i) = Gap(r, a, i) - 1
  <2>1. RING[r] \in Nat
    BY NicRxAssumption, Zenon
  <2>2. Gap(r, b, a) = RING[r] - 1
    BY <1>1, GapOn, Zenon DEF b
  <2>3. \A i \in Slots(r) : Gap(r, a, i) \in Nat /\ Gap(r, a, i) <= RING[r] - 1
    BY <1>1, Gaps, Zenon
  <2>4. \A i \in Slots(r) : i # a => Gap(r, b, i) = Gap(r, a, i) - 1
    BY <1>1, GapOn, Zenon DEF b
  <2> QED BY <2>1, <2>2, <2>3, <2>4, Zenon
<1>5. Behind(r, p, b, c)
  <2>1. \A i \in Slots(r) : q[i] # NoFrame <=> (Gap(r, a, i) < Gap(r, a, c) \/ (a = c /\ q[c] # NoFrame))
    BY <1>1, Zenon DEF Behind
  <2>2. CASE a = c
    <3>1. \A i \in Slots(r) : p[i] # NoFrame <=> i # a
      BY <1>1, <2>1, <2>2, Zenon
    <3>2. \A i \in Slots(r) : Gap(r, b, i) < Gap(r, b, a) <=> i # a
      BY <1>1, <1>4, SMT
    <3> QED BY <2>2, <3>1, <3>2, Zenon DEF Behind
  <2>3. CASE a # c
    <3>1. ~(Gap(r, a, c) < Gap(r, a, c)) /\ ~(Gap(r, b, a) < Gap(r, b, c))
      BY <1>1, <1>4, <2>3, SMT
    <3>2. q[c] = NoFrame /\ p[c] = NoFrame
      BY <1>1, <2>1, <2>3, <3>1, Zenon
    <3>3. \A i \in Slots(r) : i # a => (Gap(r, b, i) < Gap(r, b, c) <=> Gap(r, a, i) < Gap(r, a, c))
      BY <1>1, <1>4, <2>3, SMT
    <3>4. \A i \in Slots(r) : p[i] # NoFrame <=> Gap(r, b, i) < Gap(r, b, c)
      BY <1>1, <2>1, <2>3, <3>1, <3>3, Zenon
    <3> QED BY <3>2, <3>4, Zenon DEF Behind
  <2> QED BY <2>2, <2>3, Zenon
<1>6. Sorted(r, p, b)
  <2> SUFFICES ASSUME NEW i \in Occupied(r, p), NEW j \in Occupied(r, p), Gap(r, b, i) < Gap(r, b, j)
               PROVE  Before(p[i], p[j])
    BY Zenon DEF Sorted
  <2>1. Gap(r, a, i) < Gap(r, a, j)
    <3>1. i \in Slots(r) /\ j \in Slots(r) /\ i # a /\ j # a
      BY <1>3, Zenon
    <3> QED BY <1>4, <3>1, SMT
  <2> QED BY <1>1, <1>3, <2>1, Zenon DEF Sorted
<1>7. Oldest(r, p, f, m)
  BY <1>1, <1>3, Zenon DEF Oldest
<1>8. Done(r, p, b, FALSE, f, u, m)
  <2>1. \A i \in Waiting(r, p, b, FALSE) : i \in Waiting(r, q, a, TRUE) /\ p[i] = q[i]
    BY <1>3, Zenon DEF Waiting
  <2> QED BY <1>1, <2>1, Zenon DEF Done
<1>9. Fifo(r, p, b, FALSE, c, f, u, m)
  BY <1>1, <1>2, <1>5, <1>6, <1>7, <1>8, Zenon DEF Fifo
<1> QED
  BY <1>9, Zenon DEF b

\* Frames of other rings are numbered, and the rest of a frame is lost.
LEMMA FifoLater ==
  ASSUME NEW r \in Rings, NEW q, NEW a, NEW h, NEW c, NEW f, NEW u, NEW m, Fifo(r, q, a, h, c, f, u, m),
         NEW d, d = f \/ d = NoFrame, NEW n \in Nat, m <= n
  PROVE  Fifo(r, q, a, h, c, d, u, n)
<1>1. /\ q \in [Slots(r) -> Fragments] /\ a \in Slots(r) /\ c \in Slots(r) /\ f \in Fragments
      /\ u \in Seq(Passed) /\ m \in Nat /\ (h => q[a] # NoFrame)
      /\ Behind(r, q, a, c) /\ Sorted(r, q, a) /\ Oldest(r, q, f, m) /\ Done(r, q, a, h, f, u, m)
  BY Zenon DEF Fifo
<1>2. \A k \in Nat : k < m => k < n
  BY <1>1, Less, Zenon
<1>3. /\ f.of \in Nat /\ \A i \in Occupied(r, q) : q[i].of \in Nat
  BY <1>1, Zenon DEF Fragments, Occupied
<1>4. d # NoFrame => d = f
  BY Zenon
<1>5. Oldest(r, q, d, n)
  BY <1>1, <1>2, <1>3, <1>4, Zenon DEF Oldest
<1>6. Done(r, q, a, h, d, u, n)
  BY <1>1, <1>2, <1>4, Zenon DEF Done
<1> QED
  BY <1>1, <1>5, <1>6, Nothing, Zenon DEF Fifo

\* A frame goes up from another ring.
LEMMA FifoOther ==
  ASSUME NEW r \in Rings, NEW q, NEW a, NEW h, NEW c, NEW f, NEW u, NEW m, Fifo(r, q, a, h, c, f, u, m),
         NEW t, t = u \/ \E e \in Passed : t = Append(u, e) /\ e.ring # r
  PROVE  Fifo(r, q, a, h, c, f, t, m)
<1>1. /\ q \in [Slots(r) -> Fragments] /\ a \in Slots(r) /\ c \in Slots(r) /\ f \in Fragments
      /\ u \in Seq(Passed) /\ m \in Nat /\ (h => q[a] # NoFrame)
      /\ Behind(r, q, a, c) /\ Sorted(r, q, a) /\ Oldest(r, q, f, m) /\ Done(r, q, a, h, f, u, m)
  BY Zenon DEF Fifo
<1>2. ASSUME NEW e \in Passed, t = Append(u, e), e.ring # r PROVE Fifo(r, q, a, h, c, f, t, m)
  <2>1. Ascends(u, r)
    BY <1>1, Zenon DEF Done
  <2>2. t \in Seq(Passed) /\ Ascends(t, r) /\ \A n : Went(t, r, n) => Went(u, r, n)
    BY <1>1, <1>2, <2>1, Grows, Zenon
  <2>3. Done(r, q, a, h, f, t, m)
    BY <1>1, <2>2, Zenon DEF Done
  <2> QED BY <1>1, <2>2, <2>3, Zenon DEF Fifo
<1> QED
  BY <1>2, Zenon

-----------------------------------------------------------------------------
(* The fragments of a jumbo frame follow one another, in the ring and in   *)
(* jumboFrame.                                                             *)

\* jumboFrame is empty, or it has the first n fragments of frame o.
Assembled(s, o, n) == s # <<>> => Len(s) = n /\ \A k \in 1 .. Len(s) : s[k].of = o /\ s[k].part = k

\* Fragment f goes on with the frame of e.
GoesOn(e, f) == f.of = e.of /\ f.part = e.part + 1 /\ ~Ends(e)

\* FS is set on first parts, and only there.
Parts(r, q, f) ==
    /\ f # NoFrame => f.part > 0
    /\ \A i \in Occupied(r, q) : /\ q[i].kind \in {"whole", "first"} => q[i].part = 1
                                 /\ q[i].kind \in {"mid", "last"} => q[i].part > 1

\* What comes before a fragment is right before it: in the ring, or in jumboFrame
\* for the driver's own descriptor, and for the engine's when the ring is empty.
Linked(r, q, a, h, c, f, s) ==
    /\ h => Ends(q[a]) \/ Assembled(s, q[a].of, q[a].part)
    /\ (~h /\ q[a] # NoFrame /\ q[a].part > 1) => Assembled(s, q[a].of, q[a].part - 1)
    /\ \A j \in Occupied(r, q) : (j # a /\ q[j].part > 1) =>
         \E i \in Occupied(r, q) : NEXT_RX(i, r) = j /\ GoesOn(q[i], q[j])
    /\ (f # NoFrame /\ q[a] = NoFrame) => Assembled(s, f.of, f.part)
    /\ (f # NoFrame /\ q[a] # NoFrame) => \E i \in Occupied(r, q) : NEXT_RX(i, r) = c /\ q[i] = f

\* A ring without jumbo frames.
Single(r, q, f) == f = NoFrame /\ \A i \in Occupied(r, q) : q[i].kind \in {"whole", "bad"}

\* If the driver's descriptor is empty, the ring is, and both are at one place.
LEMMA Emptied ==
  ASSUME NEW r \in Rings, NEW q, NEW a \in Slots(r), NEW c \in Slots(r), Behind(r, q, a, c), q[a] = NoFrame
  PROVE  a = c /\ \A i \in Slots(r) : q[i] = NoFrame
<1>1. a = c
  <2> SUFFICES ASSUME a # c PROVE FALSE
    BY Zenon
  <2>1. Gap(r, a, a) < Gap(r, a, c)
    BY GapAhead, Zenon
  <2> QED BY <2>1, Zenon DEF Behind
<1>2. ASSUME NEW i \in Slots(r) PROVE ~(Gap(r, a, i) < Gap(r, a, a))
  <2>1. Gap(r, a, i) \in Nat /\ Gap(r, a, a) \in Nat
    BY Gaps, Zenon
  <2>2. CASE i = a
    BY <2>1, <2>2, SMT
  <2>3. CASE i # a
    <3>1. Gap(r, a, a) < Gap(r, a, i)
      BY <2>3, GapAhead, Zenon
    <3> QED BY <2>1, <3>1, SMT
  <2> QED BY <2>2, <2>3, Zenon
<1> QED
  BY <1>1, <1>2, Zenon DEF Behind

\* If they are at one place and it is not empty, the ring is full.
LEMMA Full ==
  ASSUME NEW r, NEW q, NEW a, Behind(r, q, a, a), q[a] # NoFrame PROVE \A i \in Slots(r) : q[i] # NoFrame
  BY Zenon DEF Behind

\* The engine fills its descriptor.
LEMMA LinkFill ==
  ASSUME NEW r \in Rings, NEW q, NEW a, NEW h, NEW c, NEW f, NEW u, NEW m, Fifo(r, q, a, h, c, f, u, m),
         NEW s, Linked(r, q, a, h, c, f, s),
         q[c] = NoFrame, NEW e \in Fragments, e # NoFrame, e.part > 1 => f # NoFrame /\ GoesOn(f, e),
         NEW p, p[c] = e, \A j \in Slots(r) : j # c => p[j] = q[j], NEW d, d = NoFrame \/ d = e
  PROVE  Linked(r, p, a, h, NEXT_RX(c, r), d, s)
<1>1. /\ a \in Slots(r) /\ c \in Slots(r) /\ f \in Fragments /\ (h => q[a] # NoFrame) /\ Behind(r, q, a, c)
  BY Zenon DEF Fifo
<1>2. q[a] = NoFrame => a = c
  BY <1>1, Emptied, SMT
<1>3. p[a] # NoFrame
  BY <1>1, <1>2, Zenon
<1>4. \A i \in Occupied(r, q) : i \in Occupied(r, p) /\ i # c /\ p[i] = q[i]
  BY <1>1, Zenon DEF Occupied
<1>5. h => Ends(p[a]) \/ Assembled(s, p[a].of, p[a].part)
  <2>1. h => a # c /\ p[a] = q[a]
    BY <1>1, Zenon
  <2>2. h => Ends(q[a]) \/ Assembled(s, q[a].of, q[a].part)
    BY Zenon DEF Linked
  <2> QED BY <2>1, <2>2, Zenon
<1>6. ASSUME ~h, p[a].part > 1 PROVE Assembled(s, p[a].of, p[a].part - 1)
  <2>1. CASE a = c
    <3>1. f # NoFrame /\ e.of = f.of /\ e.part = f.part + 1 /\ p[a] = e
      BY <1>1, <1>6, <2>1, Zenon DEF GoesOn
    <3>2. f.part \in Nat
      BY <1>1, Zenon DEF Fragments
    <3>3. e.part - 1 = f.part
      BY <3>1, <3>2, SMT
    <3>4. Assembled(s, f.of, f.part)
      BY <2>1, <3>1, Zenon DEF Linked
    <3> QED BY <3>1, <3>3, <3>4, Zenon
  <2>2. CASE a # c
    <3>1. p[a] = q[a] /\ q[a] # NoFrame
      BY <1>1, <1>2, <2>2, Zenon
    <3> QED BY <1>6, <3>1, Zenon DEF Linked
  <2> QED BY <2>1, <2>2, Zenon
<1>7. ASSUME NEW j \in Occupied(r, p), j # a, p[j].part > 1
      PROVE  \E i \in Occupied(r, p) : NEXT_RX(i, r) = j /\ GoesOn(p[i], p[j])
  <2>1. CASE j = c
    <3>1. f # NoFrame /\ GoesOn(f, e) /\ p[j] = e /\ q[a] # NoFrame
      BY <1>2, <1>7, <2>1, Zenon
    <3>2. PICK i \in Occupied(r, q) : NEXT_RX(i, r) = c /\ q[i] = f
      BY <3>1, Zenon DEF Linked
    <3> QED BY <1>4, <2>1, <3>1, <3>2, Zenon
  <2>2. CASE j # c
    <3>1. j \in Occupied(r, q) /\ p[j] = q[j]
      BY <2>2, Zenon DEF Occupied
    <3>2. PICK i \in Occupied(r, q) : NEXT_RX(i, r) = j /\ GoesOn(q[i], q[j])
      BY <1>7, <3>1, Zenon DEF Linked
    <3> QED BY <1>4, <3>1, <3>2, Zenon
  <2> QED BY <2>1, <2>2, Zenon
<1>8. d # NoFrame => \E i \in Occupied(r, p) : NEXT_RX(i, r) = NEXT_RX(c, r) /\ p[i] = d
  BY <1>1, Zenon DEF Occupied
<1> QED
  BY <1>3, <1>5, <1>6, <1>7, <1>8, Zenon DEF Linked

\* The poll takes a fragment, into jumboFrame unless a frame ends with it.
LEMMA LinkTake ==
  ASSUME NEW r, NEW q, NEW a, NEW c, NEW f, NEW s, Linked(r, q, a, FALSE, c, f, s), q[a] # NoFrame,
         NEW t, Ends(q[a]) \/ Assembled(t, q[a].of, q[a].part)
  PROVE  Linked(r, q, a, TRUE, c, f, t)
  BY Zenon DEF Linked

\* The poll goes on: the next fragment is that of the same frame, or a first one.
LEMMA LinkGive ==
  ASSUME NEW r \in Rings, NEW q, NEW a, NEW c, NEW f, NEW u, NEW m, Fifo(r, q, a, TRUE, c, f, u, m),
         NEW s, Linked(r, q, a, TRUE, c, f, s),
         NEW p \in [Slots(r) -> Fragments], p[a] = NoFrame, \A j \in Slots(r) : j # a => p[j] = q[j]
  PROVE  Linked(r, p, NEXT_RX(a, r), FALSE, c, f, s)
<1> DEFINE b == NEXT_RX(a, r)
<1>1. /\ q \in [Slots(r) -> Fragments] /\ a \in Slots(r) /\ c \in Slots(r) /\ q[a] # NoFrame /\ Oldest(r, q, f, m)
  BY Zenon DEF Fifo
<1>2. b \in Slots(r) /\ Behind(r, p, b, c)
  <2>1. Fifo(r, p, b, FALSE, c, f, u, m)
    BY FifoGive, Zenon
  <2> QED BY <2>1, Zenon DEF Fifo
<1>3. \A i \in Occupied(r, q) : i \in Slots(r) /\ (i # a => i \in Occupied(r, p) /\ p[i] = q[i])
  BY <1>1, Zenon DEF Occupied
<1>4. \A i \in Occupied(r, p) : i \in Slots(r) /\ i # a /\ i \in Occupied(r, q) /\ p[i] = q[i]
  BY <1>1, Zenon DEF Occupied
<1>5. \A i \in Slots(r) : NEXT_RX(i, r) = b => i = a
  BY <1>1, NextApart, Zenon
<1> HIDE DEF b
<1>6. ASSUME p[b] # NoFrame, p[b].part > 1 PROVE Assembled(s, p[b].of, p[b].part - 1)
  <2>1. b # a /\ b \in Occupied(r, q) /\ p[b] = q[b]
    BY <1>2, <1>4, <1>6, Zenon DEF Occupied
  <2>2. PICK i \in Occupied(r, q) : NEXT_RX(i, r) = b /\ GoesOn(q[i], q[b])
    BY <1>6, <2>1, Zenon DEF Linked
  <2>3. GoesOn(q[a], q[b])
    BY <1>3, <1>5, <2>2, Zenon
  <2>4. q[a].part \in Nat
    BY <1>1, Zenon DEF Fragments
  <2>5. q[b].part - 1 = q[a].part
    BY <2>3, <2>4, SMT DEF GoesOn
  <2>6. Assembled(s, q[a].of, q[a].part)
    BY <2>3, Zenon DEF Linked, GoesOn
  <2> QED BY <2>1, <2>3, <2>5, <2>6, Zenon DEF GoesOn
<1>7. ASSUME NEW j \in Occupied(r, p), j # b, p[j].part > 1
      PROVE  \E i \in Occupied(r, p) : NEXT_RX(i, r) = j /\ GoesOn(p[i], p[j])
  <2>1. j # a /\ j \in Occupied(r, q) /\ p[j] = q[j]
    BY <1>4, Zenon
  <2>2. PICK i \in Occupied(r, q) : NEXT_RX(i, r) = j /\ GoesOn(q[i], q[j])
    BY <1>7, <2>1, Zenon DEF Linked
  <2>3. i # a
    BY <1>7, <2>2, Zenon DEF b
  <2> QED BY <1>3, <2>1, <2>2, <2>3, Zenon
<1>8. ASSUME f # NoFrame PROVE \E i \in Occupied(r, q) : NEXT_RX(i, r) = c /\ q[i] = f
  BY <1>1, <1>8, Zenon DEF Linked
<1>9. ASSUME f # NoFrame, p[b] = NoFrame PROVE Assembled(s, f.of, f.part)
  <2>1. PICK i \in Occupied(r, q) : q[i] = f
    BY <1>8, <1>9, Zenon
  <2>2. i = a
    <3>1. \A j \in Slots(r) : p[j] = NoFrame
      BY <1>1, <1>2, <1>9, Emptied, Zenon
    <3> QED BY <1>3, <3>1, Zenon DEF Occupied
  <2>3. ~Ends(f)
    BY <1>1, <1>9, Zenon DEF Oldest
  <2> QED BY <2>1, <2>2, <2>3, Zenon DEF Linked
<1>10. ASSUME f # NoFrame, p[b] # NoFrame PROVE \E i \in Occupied(r, p) : NEXT_RX(i, r) = c /\ p[i] = f
  <2>1. PICK i \in Occupied(r, q) : NEXT_RX(i, r) = c /\ q[i] = f
    BY <1>8, <1>10, Zenon
  <2>2. i # a
    <3> SUFFICES ASSUME i = a PROVE FALSE
      BY Zenon
    <3>1. b = c
      BY <2>1, Zenon DEF b
    <3>2. Behind(r, p, c, c) /\ p[c] # NoFrame
      BY <1>2, <1>10, <3>1, Zenon
    <3>3. p[a] # NoFrame
      BY <1>1, <3>2, Full, Zenon
    <3> QED BY <3>3, Zenon
  <2> QED BY <1>3, <2>1, <2>2, Zenon
<1>11. Linked(r, p, b, FALSE, c, f, s)
  BY <1>6, <1>7, <1>9, <1>10, Zenon DEF Linked
<1> QED
  BY <1>11, Zenon DEF b

\* The rest of a frame is lost, or the jumbo frame is dropped.
LEMMA LinkLess ==
  ASSUME NEW r, NEW q, NEW a, NEW h, NEW c, NEW f, NEW s, Linked(r, q, a, h, c, f, s),
         NEW d, d = f \/ d = NoFrame, NEW t, t = s \/ t = <<>>
  PROVE  Linked(r, q, a, h, c, d, t)
<1>1. \A o, n : Assembled(s, o, n) => Assembled(t, o, n)
  BY Zenon DEF Assembled
<1> QED
  BY <1>1, Zenon DEF Linked

\* All of this for one ring.
Queue(r, q, a, h, c, f, u, m, s) ==
    /\ Fifo(r, q, a, h, c, f, u, m) /\ Parts(r, q, f)
    /\ r \in JumboRings => Linked(r, q, a, h, c, f, s)
    /\ r \notin JumboRings => Single(r, q, f)

\* Fragment e is what the engine, in frame f, has next, with its FS and LS bits.
Comes(e, f, m) ==
    /\ f = NoFrame => e.of = m /\ e.part = 1
    /\ f # NoFrame => e.of = f.of /\ e.part = f.part + 1

Flagged(r, e, ends) ==
    /\ e.part = 1 => e.kind \in {"whole", "first", "bad"}
    /\ e.part # 1 => e.kind \in {"mid", "last", "bad"}
    /\ e.kind \in {"whole", "last"} => ends
    /\ e.kind \in {"first", "mid"} => ~ends
    /\ e.part > 1 \/ ~ends => r \in JumboRings

\* Descriptor i of a ring is set to v.
Sets(r, q, p, i, v) ==
    p \in [Slots(r) -> Fragments] /\ p[i] = v /\ \A j \in Slots(r) : j # i => p[j] = q[j]

\* A fragment arrives.
LEMMA QueueFill ==
  ASSUME NEW r \in Rings, NEW q, NEW a, NEW h, NEW c, NEW f, NEW u, NEW m, NEW s, Queue(r, q, a, h, c, f, u, m, s),
         q[c] = NoFrame, NEW e \in Fragments, Comes(e, f, m), NEW ends \in BOOLEAN, Flagged(r, e, ends),
         NEW p, Sets(r, q, p, c, e),
         NEW d, ends => d = NoFrame, ~ends => d = e, NEW n \in Nat, m <= n, e.of < n
  PROVE  Queue(r, p, a, h, NEXT_RX(c, r), d, u, n, s)
<1>1. /\ Fifo(r, q, a, h, c, f, u, m) /\ Parts(r, q, f)
      /\ r \in JumboRings => Linked(r, q, a, h, c, f, s)
      /\ r \notin JumboRings => Single(r, q, f)
  BY Zenon DEF Queue
<1>0. p \in [Slots(r) -> Fragments] /\ p[c] = e /\ \A j \in Slots(r) : j # c => p[j] = q[j]
  BY Zenon DEF Sets
<1>2. /\ f = NoFrame => e.of = m /\ e.part = 1
      /\ f # NoFrame => e.of = f.of /\ e.part = f.part + 1
  BY Zenon DEF Comes
<1>3. f \in Fragments /\ c \in Slots(r) /\ Oldest(r, q, f, m)
  BY <1>1, Zenon DEF Fifo
<1>4. /\ e.part > 0 /\ (e.part # 1 => e.part > 1) /\ (f = NoFrame => ~(e.part > 1)) /\ (f # NoFrame => f.part > 0)
  <2>1. f.part \in Nat /\ (f # NoFrame => f.part > 0)
    BY <1>1, <1>3, Zenon DEF Parts, Fragments
  <2>2. CASE f = NoFrame
    <3>1. e.part = 1
      BY <1>2, <2>2, Zenon
    <3> QED BY <2>2, <3>1, SMT
  <2>3. CASE f # NoFrame
    <3>1. e.part = f.part + 1 /\ f.part > 0
      BY <1>2, <2>1, <2>3, Zenon
    <3> QED BY <2>1, <2>3, <3>1, SMT
  <2> QED BY <2>2, <2>3, Zenon
<1>5. /\ e # NoFrame /\ d \in Fragments /\ (d = NoFrame \/ d = e)
      /\ d = NoFrame \/ (d = e /\ ~Ends(e))
  BY Nothing, Zenon DEF Ends, Flagged
<1>6. Fifo(r, p, a, h, NEXT_RX(c, r), d, u, n)
  <2>1. (f = NoFrame => e.of = m) /\ (f # NoFrame => e.of = f.of)
    BY <1>2, Zenon
  <2> QED BY <1>0, <1>1, <1>5, <2>1, FifoFill, Zenon
<1>7. \A i \in Occupied(r, p) : i = c \/ (i \in Occupied(r, q) /\ p[i] = q[i])
  BY <1>0, <1>3, Zenon DEF Occupied
<1>8. Parts(r, p, d)
  <2>1. /\ e.kind \in {"whole", "first"} => e.part = 1
        /\ e.kind \in {"mid", "last"} => e.part > 1
    BY <1>4, Zenon DEF Flagged
  <2> QED BY <1>0, <1>1, <1>4, <1>5, <1>7, <2>1, Zenon DEF Parts
<1>9. ASSUME r \in JumboRings PROVE Linked(r, p, a, h, NEXT_RX(c, r), d, s)
  <2>1. e.part > 1 => f # NoFrame /\ GoesOn(f, e)
    BY <1>2, <1>3, <1>4, Zenon DEF GoesOn, Oldest
  <2> QED BY <1>1, <1>5, <1>0, <1>9, <2>1, LinkFill, Zenon
<1>10. ASSUME r \notin JumboRings PROVE Single(r, p, d)
  <2>1. ends /\ e.part = 1 /\ d = NoFrame
    BY <1>4, <1>10, Zenon DEF Flagged
  <2>2. e.kind \in {"whole", "bad"}
    BY <2>1, Zenon DEF Flagged
  <2> QED BY <1>0, <1>1, <1>7, <1>10, <2>1, <2>2, Zenon DEF Single
<1> QED
  BY <1>6, <1>8, <1>9, <1>10, Zenon DEF Queue

\* The poll takes a fragment.
LEMMA QueueTake ==
  ASSUME NEW r \in Rings, NEW q, NEW a, NEW c, NEW f, NEW u, NEW m, NEW s, Queue(r, q, a, FALSE, c, f, u, m, s),
         q[a] # NoFrame, NEW t,
         \/ t = u
         \/ \E e \in Passed : t = Append(u, e) /\ e.ring = r /\ e.frags[1].of = q[a].of /\ Ends(q[a]),
         NEW w, Ends(q[a]) \/ Assembled(w, q[a].of, q[a].part)
  PROVE  Queue(r, q, a, TRUE, c, f, t, m, w)
<1>1. /\ Fifo(r, q, a, FALSE, c, f, u, m) /\ Parts(r, q, f)
      /\ r \in JumboRings => Linked(r, q, a, FALSE, c, f, s)
      /\ r \notin JumboRings => Single(r, q, f)
  BY Zenon DEF Queue
<1>2. Fifo(r, q, a, TRUE, c, f, t, m)
  BY <1>1, FifoTake, Zenon
<1>3. r \in JumboRings => Linked(r, q, a, TRUE, c, f, w)
  BY <1>1, LinkTake, Zenon
<1> QED
  BY <1>1, <1>2, <1>3, Zenon DEF Queue

\* The poll gives its descriptor back.
LEMMA QueueGive ==
  ASSUME NEW r \in Rings, NEW q, NEW a, NEW c, NEW f, NEW u, NEW m, NEW s, Queue(r, q, a, TRUE, c, f, u, m, s),
         NEW p \in [Slots(r) -> Fragments], p[a] = NoFrame, \A j \in Slots(r) : j # a => p[j] = q[j]
  PROVE  Queue(r, p, NEXT_RX(a, r), FALSE, c, f, u, m, s)
<1>1. /\ Fifo(r, q, a, TRUE, c, f, u, m) /\ Parts(r, q, f)
      /\ r \in JumboRings => Linked(r, q, a, TRUE, c, f, s)
      /\ r \notin JumboRings => Single(r, q, f)
  BY Zenon DEF Queue
<1>2. Fifo(r, p, NEXT_RX(a, r), FALSE, c, f, u, m)
  BY <1>1, FifoGive, Zenon
<1>3. r \in JumboRings => Linked(r, p, NEXT_RX(a, r), FALSE, c, f, s)
  BY <1>1, LinkGive, Zenon
<1>4. \A i \in Occupied(r, p) : i \in Occupied(r, q) /\ p[i] = q[i]
  BY Zenon DEF Occupied
<1>5. Parts(r, p, f) /\ (r \notin JumboRings => Single(r, p, f))
  BY <1>1, <1>4, Zenon DEF Parts, Single
<1> QED
  BY <1>2, <1>3, <1>5, Zenon DEF Queue

\* What other rings do to this one: frames are numbered and go up, and jumboFrame is
\* dropped.  The rest of a frame may be lost.
LEMMA QueueOther ==
  ASSUME NEW r \in Rings, NEW q, NEW a, NEW h, NEW c, NEW f, NEW u, NEW m, NEW s, Queue(r, q, a, h, c, f, u, m, s),
         NEW d, d = f \/ d = NoFrame, NEW n \in Nat, m <= n,
         NEW t, t = u \/ \E e \in Passed : t = Append(u, e) /\ e.ring # r,
         NEW w, w = s \/ w = <<>> \/ r \notin JumboRings
  PROVE  Queue(r, q, a, h, c, d, t, n, w)
<1>1. /\ Fifo(r, q, a, h, c, f, u, m) /\ Parts(r, q, f)
      /\ r \in JumboRings => Linked(r, q, a, h, c, f, s)
      /\ r \notin JumboRings => Single(r, q, f)
  BY Zenon DEF Queue
<1>2. Fifo(r, q, a, h, c, d, u, n)
  BY <1>1, FifoLater, Zenon
<1>3. Fifo(r, q, a, h, c, d, t, n)
  BY <1>2, FifoOther, Zenon
<1>4. Parts(r, q, d) /\ (r \notin JumboRings => Single(r, q, d))
  BY <1>1, Zenon DEF Parts, Single
<1>5. r \in JumboRings => Linked(r, q, a, h, c, d, w)
  BY <1>1, LinkLess, Zenon
<1> QED
  BY <1>3, <1>4, <1>5, Zenon DEF Queue

\* The fragments of one frame, from the first to the last.
OneFrame(s) ==
    /\ \A i \in 1 .. Len(s) : s[i].of = s[1].of /\ s[i].part = i
    /\ s[Len(s)].kind \in {"whole", "last"}

\* A fragment is added to those before it.
LEMMA Assemble ==
  ASSUME NEW s \in Seq(Fragments), s # <<>>, NEW e \in Fragments, Assembled(s, e.of, e.part - 1), NEW w, w = Append(s, e)
  PROVE  /\ Assembled(w, e.of, e.part) /\ w[1].of = e.of /\ w \in Seq(Fragments)
         /\ e.kind = "last" => OneFrame(w)
<1>1. /\ w \in Seq(Fragments) /\ Len(s) \in Nat /\ Len(w) = Len(s) + 1
      /\ \A k \in 1 .. Len(s) : w[k] = s[k]
      /\ w[Len(w)] = e
  BY SMTT(30)
<1>2. Len(s) # 0
  BY SMTT(30)
<1>3. e.part \in Nat
  BY Zenon DEF Fragments
<1>4. Len(s) = e.part - 1 /\ \A k \in 1 .. Len(s) : s[k].of = e.of /\ s[k].part = k
  BY Zenon DEF Assembled
<1>5. Len(w) = e.part /\ 1 \in 1 .. Len(s) /\ \A k \in 1 .. Len(w) : k \in 1 .. Len(s) \/ k = Len(w)
  BY <1>1, <1>2, <1>3, <1>4, SMT
<1>6. \A k \in 1 .. Len(w) : w[k].of = e.of /\ w[k].part = k
  BY <1>1, <1>4, <1>5, Zenon
<1>7. w[1].of = e.of
  BY <1>1, <1>4, <1>5, Zenon
<1>8. Assembled(w, e.of, e.part)
  BY <1>5, <1>6, Zenon DEF Assembled
<1>9. e.kind = "last" => OneFrame(w)
  BY <1>1, <1>6, <1>7, Zenon DEF OneFrame
<1> QED
  BY <1>1, <1>7, <1>8, <1>9, Zenon

\* A sequence of one fragment.
LEMMA AFragment ==
  ASSUME NEW e \in Fragments, e.part = 1
  PROVE  /\ Assembled(<<e>>, e.of, e.part) /\ <<e>>[1].of = e.of
         /\ e.kind = "whole" => OneFrame(<<e>>)
<1>1. Len(<<e>>) = 1 /\ <<e>>[1] = e /\ \A k \in 1 .. Len(<<e>>) : k = 1
  BY SMT
<1> QED
  BY <1>1, Zenon DEF Assembled, OneFrame

-----------------------------------------------------------------------------
(* The rings of a GMAC that was not closed, step by step.                  *)

\* Where the driver is in a ring: rx_tail in the loop over it, rx_Mtail else.
At(g, r) == IF pc[g] \in InLoop /\ ring_num[g] = r THEN rxtail[g] ELSE tail[g][r]
Holding(g, r) == pc[g] = "give" /\ ring_num[g] = r

QueueAt(g, r, h) == Queue(r, rx[g][r], At(g, r), h, cdo[g][r], inframe[g][r], up[g], nextFrame, jumbo[g])

Whole(u) == \A k \in 1 .. Len(u) : OneFrame(u[k].frags)

Orderly(g) ==
    /\ \A r \in Rings : (Holding(g, r) => QueueAt(g, r, TRUE)) /\ (~Holding(g, r) => QueueAt(g, r, FALSE))
    /\ Whole(up[g])

\* The jumbo frames of a GMAC come to one ring.
OneJumboRing == \A q, r \in JumboRings : q = r

\* A step changes nothing of a GMAC.
Same(h) ==
    /\ pc'[h] = pc[h] /\ ring_num'[h] = ring_num[h] /\ rxtail'[h] = rxtail[h] /\ tail'[h] = tail[h]
    /\ rx'[h] = rx[h] /\ cdo'[h] = cdo[h] /\ inframe'[h] = inframe[h]
    /\ up'[h] = up[h] /\ jumbo'[h] = jumbo[h]

\* Then it stays in order, although frames may arrive elsewhere.
LEMMA SameOrderly ==
  ASSUME NEW h \in Gmacs, Orderly(h), Same(h), nextFrame' \in Nat, nextFrame <= nextFrame'
  PROVE  Orderly(h)'
<1>1. ASSUME NEW r \in Rings, NEW b, QueueAt(h, r, b) PROVE QueueAt(h, r, b)'
  <2>1. At(h, r)' = At(h, r)
    BY Zenon DEF At, Same
  <2>2. Queue(r, rx[h][r], At(h, r), b, cdo[h][r], inframe[h][r], up[h], nextFrame', jumbo[h])
    BY <1>1, QueueOther, Zenon DEF QueueAt
  <2> QED BY <2>1, <2>2, Zenon DEF QueueAt, Same
<1>2. ASSUME NEW r \in Rings PROVE Holding(h, r)' <=> Holding(h, r)
  BY Zenon DEF Holding, Same
<1>3. Whole(up'[h])
  BY Zenon DEF Orderly, Same
<1> QED
  BY <1>1, <1>2, <1>3, Zenon DEF Orderly

\* The poll moves its place, and no descriptor.
LEMMA MovesOrderly ==
  ASSUME NEW g \in Gmacs, Orderly(g), UNCHANGED <<rx, cdo, inframe, up, jumbo, nextFrame>>,
         pc[g] # "give", pc'[g] # "give", \A r \in Rings : At(g, r)' = At(g, r)
  PROVE  Orderly(g)'
<1>1. ASSUME NEW r \in Rings PROVE QueueAt(g, r, FALSE)' /\ ~Holding(g, r)'
  <2>1. QueueAt(g, r, FALSE)
    BY Zenon DEF Orderly, Holding
  <2> QED BY <2>1, Zenon DEF QueueAt, Holding
<1>2. Whole(up'[g])
  BY Zenon DEF Orderly
<1> QED
  BY <1>1, <1>2, Zenon DEF Orderly

\* What the steps of a GMAC leave alone of the others.
LEMMA Framed ==
  ASSUME Types, NEW g \in Gmacs, Hardware(g) \/ Interrupt(g) \/ Poll(g), NEW h \in Gmacs \ {g}
  PROVE  Same(h)
<1>1. /\ DOMAIN pc = Gmacs /\ DOMAIN ring_num = Gmacs /\ DOMAIN rxtail = Gmacs /\ DOMAIN tail = Gmacs
      /\ DOMAIN rx = Gmacs /\ DOMAIN cdo = Gmacs /\ DOMAIN inframe = Gmacs /\ DOMAIN up = Gmacs /\ DOMAIN jumbo = Gmacs
  BY Zenon DEF Types, Shape, Index
<1>2. CASE Interrupt(g) \/ PollClosed(g)
  BY <1>2, Zenon DEF Same, Interrupt, PollClosed, engine, local
<1>3. ASSUME NEW r \in Rings, HwNoDescriptor(g, r) PROVE Same(h)
  <2>1. /\ UNCHANGED <<rx, cdo, tail, pc, ring_num, rxtail, jumbo, up>>
        /\ inframe' = [inframe EXCEPT ![g][r] = NoFrame]
    BY <1>3, Zenon DEF HwNoDescriptor, local
  <2> QED BY <1>1, <2>1, Zenon DEF Same
<1>4. ASSUME NEW r \in Rings, NEW kind, NEW ends, HwReceive(g, r, kind, ends) PROVE Same(h)
  <2>1. /\ UNCHANGED <<tail, pc, ring_num, rxtail, jumbo, up>>
        /\ \E v : rx' = [rx EXCEPT ![g][r][cdo[g][r]] = v]
        /\ \E v : cdo' = [cdo EXCEPT ![g][r] = v]
        /\ \E v : inframe' = [inframe EXCEPT ![g][r] = v]
    BY <1>4, Zenon DEF HwReceive, local
  <2> QED BY <1>1, <2>1, Zenon DEF Same
<1>5. CASE PollBegin(g) \/ ClearBackup(g) \/ ClearIsr1(g) \/ LoopGoesOn(g) \/ Repoll(g) \/ PollDone(g)
  <2>1. (\E v : pc' = [pc EXCEPT ![g] = v]) /\ UNCHANGED <<ring_num, rxtail, tail, rx, cdo, inframe, up, jumbo>>
    BY <1>5, Zenon DEF PollBegin, ClearBackup, ClearIsr1, LoopGoesOn, Repoll, PollDone, Goto, engine, local
  <2> QED BY <1>1, <2>1, Zenon DEF Same
<1>6. CASE StartRing(g)
  <2>1. /\ \E v : pc' = [pc EXCEPT ![g] = v]
        /\ \E v : ring_num' = [ring_num EXCEPT ![g] = v]
        /\ \E v : rxtail' = [rxtail EXCEPT ![g] = v]
        /\ UNCHANGED <<tail, rx, cdo, inframe, up, jumbo>>
    BY <1>6, Zenon DEF StartRing, Goto, engine
  <2> QED BY <1>1, <2>1, Zenon DEF Same
<1>7. CASE LoopEnds(g) \/ LoopPauses(g) \/ LoopQuits(g) \/ DescOwned(g)
  <2>1. EndRing(g) /\ UNCHANGED <<ring_num, rxtail, rx, cdo, inframe, up, jumbo>>
    BY <1>7, Zenon DEF LoopEnds, LoopPauses, LoopQuits, DescOwned, engine
  <2> QED BY <1>1, <2>1, Zenon DEF Same, EndRing, Goto
<1>8. CASE HandleBad(g) \/ HandleWhole(g) \/ HandleMore(g) \/ (\E mem \in BOOLEAN : HandleFirst(g, mem))
  <2>1. /\ \E v : pc' = [pc EXCEPT ![g] = v]
        /\ UNCHANGED <<ring_num, rxtail, tail, rx, cdo, inframe>>
    BY <1>8, Zenon DEF HandleBad, HandleWhole, HandleMore, HandleFirst, Handled, Goto, engine
  <2>2. (UNCHANGED up \/ \E v : up' = [up EXCEPT ![g] = v]) /\ (UNCHANGED jumbo \/ \E v : jumbo' = [jumbo EXCEPT ![g] = v])
    BY <1>8, Zenon DEF HandleBad, HandleWhole, HandleMore, HandleFirst
  <2> QED BY <1>1, <2>1, <2>2, Zenon DEF Same
<1>9. CASE HandleNoMemory(g)
  <2>1. /\ EndRing(g) \/ (UNCHANGED tail /\ Goto(g, "give"))
        /\ UNCHANGED <<ring_num, rxtail, rx, cdo, inframe, up, jumbo>>
    BY <1>9, Zenon DEF HandleNoMemory, Handled, engine
  <2> QED BY <1>1, <2>1, Zenon DEF Same, EndRing, Goto
<1>10. CASE GiveBack(g)
  <2>1. /\ \E v : pc' = [pc EXCEPT ![g] = v]
        /\ \E v : rxtail' = [rxtail EXCEPT ![g] = v]
        /\ \E r, i, v : rx' = [rx EXCEPT ![g][r][i] = v]
        /\ UNCHANGED tail \/ \E r, v : tail' = [tail EXCEPT ![g][r] = v]
        /\ UNCHANGED <<ring_num, cdo, inframe, up, jumbo>>
    BY <1>10, Zenon DEF GiveBack, SavedTail, Goto, engine
  <2> QED BY <1>1, <2>1, Zenon DEF Same
<1> QED
  BY <1>2, <1>3, <1>4, <1>5, <1>6, <1>7, <1>8, <1>9, <1>10, Zenon DEF Hardware, Poll

\* The loops over the rings and over a ring: rx_Mtail and rx_tail agree when one is
\* taken for the other.
LEMMA PlaceStep ==
  ASSUME Types, Polling, NEW g \in Gmacs, Orderly(g),
         \/ PollBegin(g) \/ ClearBackup(g) \/ StartRing(g) \/ ClearIsr1(g) \/ LoopEnds(g) \/ LoopPauses(g)
         \/ LoopQuits(g) \/ LoopGoesOn(g) \/ DescOwned(g) \/ (HandleNoMemory(g) /\ PauseEnabled)
         \/ Repoll(g) \/ PollDone(g)
  PROVE  Orderly(g)'
<1>1. UNCHANGED <<rx, cdo, inframe, up, jumbo, nextFrame>>
  BY Zenon DEF PollBegin, ClearBackup, StartRing, ClearIsr1, LoopEnds, LoopPauses, LoopQuits, LoopGoesOn, DescOwned,
     HandleNoMemory, Repoll, PollDone, engine
<1>2. DOMAIN pc = Gmacs /\ DOMAIN ring_num = Gmacs /\ DOMAIN rxtail = Gmacs
  BY Zenon DEF Types
<1>3. CASE PollBegin(g) \/ ClearBackup(g) \/ Repoll(g) \/ PollDone(g)
  <2>1. /\ pc[g] \in {"out", "backup", "repoll", "ring"} /\ UNCHANGED tail
        /\ \E v \in {"out", "backup", "ring"} : pc' = [pc EXCEPT ![g] = v]
    BY <1>3, Zenon DEF Polling, PollBegin, ClearBackup, Repoll, PollDone, Goto
  <2>2. pc'[g] \in {"out", "backup", "ring"}
    BY <1>2, <2>1, Zenon
  <2>3. /\ pc[g] \notin InLoop /\ pc'[g] \notin InLoop /\ pc[g] # "give" /\ pc'[g] # "give"
    BY <2>1, <2>2, Zenon DEF InLoop
  <2>4. \A r \in Rings : At(g, r)' = At(g, r)
    BY <2>1, <2>3, Zenon DEF At
  <2> QED BY <1>1, <2>3, <2>4, MovesOrderly, Zenon
<1>4. CASE StartRing(g)
  <2>1. PICK i \in ToDo(g) : /\ ring_num' = [ring_num EXCEPT ![g] = pri_map(i)]
                             /\ rxtail' = [rxtail EXCEPT ![g] = tail[g][pri_map(i)]]
    BY <1>4, Zenon DEF StartRing
  <2>2. /\ pc[g] = "ring" /\ UNCHANGED tail /\ \E v \in {"clear", "loop"} : pc' = [pc EXCEPT ![g] = v]
    BY <1>4, Zenon DEF StartRing, Goto
  <2>3. pc'[g] \in {"clear", "loop"} /\ ring_num'[g] = pri_map(i) /\ rxtail'[g] = tail[g][pri_map(i)]
    BY <1>2, <2>1, <2>2, Zenon
  <2>4. pc[g] \notin InLoop /\ pc'[g] \in InLoop /\ pc[g] # "give" /\ pc'[g] # "give"
    BY <2>2, <2>3, Zenon DEF InLoop
  <2>5. \A r \in Rings : At(g, r)' = At(g, r)
    BY <2>2, <2>3, <2>4, Zenon DEF At
  <2> QED BY <1>1, <2>4, <2>5, MovesOrderly, Zenon
<1>5. CASE ClearIsr1(g) \/ LoopGoesOn(g)
  <2>1. /\ pc[g] \in {"clear", "loop"} /\ UNCHANGED <<tail, ring_num, rxtail>>
        /\ \E v \in {"loop", "desc"} : pc' = [pc EXCEPT ![g] = v]
    BY <1>5, Zenon DEF ClearIsr1, LoopGoesOn, Goto, local
  <2>2. pc'[g] \in {"loop", "desc"}
    BY <1>2, <2>1, Zenon
  <2>3. /\ pc[g] \in InLoop /\ pc'[g] \in InLoop /\ pc[g] # "give" /\ pc'[g] # "give"
    BY <2>1, <2>2, Zenon DEF InLoop
  <2>4. \A r \in Rings : At(g, r)' = At(g, r)
    BY <2>1, <2>3, Zenon DEF At
  <2> QED BY <1>1, <2>3, <2>4, MovesOrderly, Zenon
<1>6. CASE LoopEnds(g) \/ LoopPauses(g) \/ LoopQuits(g) \/ DescOwned(g) \/ (HandleNoMemory(g) /\ PauseEnabled)
  <2>1. /\ pc[g] \in {"loop", "desc"} /\ EndRing(g) /\ UNCHANGED <<ring_num, rxtail>>
    BY <1>6, Zenon DEF LoopEnds, LoopPauses, LoopQuits, DescOwned, HandleNoMemory
  <2>2. pc'[g] = "ring"
    BY <1>2, <2>1, Zenon DEF EndRing, Goto
  <2>3. /\ pc[g] \in InLoop /\ pc'[g] \notin InLoop /\ pc[g] # "give" /\ pc'[g] # "give"
    BY <2>1, <2>2, Zenon DEF InLoop
  <2>4. DOMAIN tail = Gmacs /\ DOMAIN tail[g] = Rings /\ ring_num[g] \in Rings
    BY Zenon DEF Types, Index
  <2>5. \A r \in Rings : tail'[g][r] = IF ring_num[g] = r THEN rxtail[g] ELSE tail[g][r]
    BY <2>1, <2>4, Zenon DEF EndRing
  <2>6. \A r \in Rings : At(g, r)' = At(g, r)
    BY <2>3, <2>5, Zenon DEF At
  <2> QED BY <1>1, <2>3, <2>6, MovesOrderly, Zenon
<1> QED
  BY <1>3, <1>4, <1>5, <1>6, Zenon

\* What the poll has in hand.
LEMMA InHand ==
  ASSUME Types, NEW g \in Gmacs, Orderly(g), pc[g] = "desc"
  PROVE  /\ ring_num[g] \in Rings /\ Desc(g) \in Fragments
         /\ Desc(g).kind \in {"whole", "first"} => Desc(g).part = 1
         /\ Desc(g).kind \in {"first", "mid", "last"} => ring_num[g] \in JumboRings
         /\ Desc(g).kind \in {"mid", "last"} => Assembled(jumbo[g], Desc(g).of, Desc(g).part - 1)
<1> DEFINE r == ring_num[g]
           q == rx[g][r]
           a == rxtail[g]
<1>1. r \in Rings /\ a \in Slots(r) /\ Shape(rx, Fragments)
  BY Zenon DEF Types
<1>2. Desc(g) \in Fragments /\ Desc(g) = q[a]
  BY <1>1, Value, Zenon DEF Desc
<1>3. Queue(r, q, a, FALSE, cdo[g][r], inframe[g][r], up[g], nextFrame, jumbo[g])
  <2>1. ~Holding(g, r) /\ At(g, r) = a
    BY Zenon DEF Holding, At, InLoop
  <2> QED BY <1>1, <2>1, Zenon DEF Orderly, QueueAt
<1> HIDE DEF r, q, a
<1>4. q[a] # NoFrame => a \in Occupied(r, q)
  BY <1>1, Zenon DEF Occupied
<1>5. q[a].kind # "none" => q[a] # NoFrame
  BY Nothing, Zenon
<1>6. /\ q[a].kind \in {"whole", "first"} => q[a].part = 1
      /\ q[a].kind \in {"mid", "last"} => q[a].part > 1
  BY <1>3, <1>4, <1>5, Zenon DEF Queue, Parts
<1>7. q[a].kind \in {"first", "mid", "last"} => r \in JumboRings
  BY <1>3, <1>4, <1>5, Zenon DEF Queue, Single
<1>8. q[a].kind \in {"mid", "last"} => Assembled(jumbo[g], q[a].of, q[a].part - 1)
  BY <1>3, <1>5, <1>6, <1>7, Zenon DEF Queue, Linked
<1> QED
  BY <1>1, <1>2, <1>6, <1>7, <1>8, Zenon DEF r

\* A frame goes up.
LEMMA WholeGrows ==
  ASSUME NEW u \in Seq(Passed), Whole(u), NEW e \in Passed, OneFrame(e.frags), NEW t, t = Append(u, e)
  PROVE  Whole(t)
<1>1. \A k \in 1 .. Len(t) : (k \in 1 .. Len(u) /\ t[k] = u[k]) \/ t[k] = e
  BY SMTT(30)
<1> QED
  BY <1>1, Zenon DEF Whole

\* The poll takes a fragment, and may send a frame up that ends with it.
LEMMA TakesOrderly ==
  ASSUME OneJumboRing, Kept, NEW g \in Gmacs, Orderly(g), pc[g] = "desc", Handled(g), Desc(g) # NoFrame,
         \/ up'[g] = up[g]
         \/ \E e \in Passed : /\ up'[g] = Append(up[g], e) /\ e.ring = ring_num[g] /\ OneFrame(e.frags)
                              /\ e.frags[1].of = Desc(g).of /\ Ends(Desc(g)),
         Ends(Desc(g)) \/ Assembled(jumbo'[g], Desc(g).of, Desc(g).part),
         jumbo'[g] = jumbo[g] \/ jumbo'[g] = <<>> \/ ring_num[g] \in JumboRings
  PROVE  Orderly(g)'
<1>0. PICK r \in Rings : r = ring_num[g]
  BY Zenon DEF Kept, Types
<1>1. /\ DOMAIN pc = Gmacs /\ up[g] \in Seq(Passed) /\ nextFrame \in Nat
  BY Zenon DEF Kept, Types
<1>2. /\ UNCHANGED <<rx, inframe, cdo, tail, ring_num, rxtail, nextFrame>> /\ pc'[g] = "give"
  BY <1>1, Zenon DEF Handled, Goto, engine
<1>3. /\ ~Holding(g, r) /\ Holding(g, r)' /\ At(g, r) = rxtail[g] /\ At(g, r)' = rxtail[g]
  BY <1>0, <1>2, Zenon DEF Holding, At, InLoop
<1>4. \A q \in Rings \ {r} : ~Holding(g, q) /\ ~Holding(g, q)' /\ At(g, q)' = At(g, q)
  BY <1>0, <1>2, Zenon DEF Holding, At
<1>5. QueueAt(g, r, TRUE)'
  <2>1. Queue(r, rx[g][r], rxtail[g], FALSE, cdo[g][r], inframe[g][r], up[g], nextFrame, jumbo[g])
    BY <1>1, <1>3, Zenon DEF Orderly, QueueAt
  <2>2. Desc(g) = rx[g][r][rxtail[g]]
    BY <1>0, Zenon DEF Desc
  <2>3. Queue(r, rx[g][r], rxtail[g], TRUE, cdo[g][r], inframe[g][r], up'[g], nextFrame, jumbo'[g])
    BY <1>0, <1>1, <2>1, <2>2, QueueTake, Zenon
  <2> QED BY <1>2, <1>3, <2>3, Zenon DEF QueueAt
<1>6. ASSUME NEW q \in Rings \ {r} PROVE QueueAt(g, q, FALSE)'
  <2>1. Queue(q, rx[g][q], At(g, q), FALSE, cdo[g][q], inframe[g][q], up[g], nextFrame, jumbo[g])
    BY <1>4, Zenon DEF Orderly, QueueAt
  <2>2. up'[g] = up[g] \/ \E e \in Passed : up'[g] = Append(up[g], e) /\ e.ring # q
    BY <1>0, Zenon
  <2>3. jumbo'[g] = jumbo[g] \/ jumbo'[g] = <<>> \/ q \notin JumboRings
    BY <1>0, Zenon DEF OneJumboRing
  <2>4. nextFrame <= nextFrame
    BY <1>1, SMT
  <2>5. Queue(q, rx[g][q], At(g, q), FALSE, cdo[g][q], inframe[g][q], up'[g], nextFrame, jumbo'[g])
    BY <1>1, <2>1, <2>2, <2>3, <2>4, QueueOther, Zenon
  <2> QED BY <1>2, <1>4, <2>5, Zenon DEF QueueAt
<1>7. Whole(up'[g])
  <2>1. Whole(up[g])
    BY Zenon DEF Orderly
  <2> QED BY <1>1, <2>1, WholeGrows, Zenon
<1> QED
  BY <1>3, <1>4, <1>5, <1>6, <1>7, Zenon DEF Orderly

\* One descriptor of the poll: errors, whole frames, and the fragments of jumbo frames.
LEMMA HandleStep ==
  ASSUME OneJumboRing, Kept, NEW g \in Gmacs, Orderly(g),
         \/ HandleBad(g) \/ HandleWhole(g) \/ (HandleNoMemory(g) /\ ~PauseEnabled) \/ HandleMore(g)
         \/ \E mem \in BOOLEAN : HandleFirst(g, mem)
  PROVE  Orderly(g)'
<1>0. pc[g] = "desc" /\ Handled(g) /\ Desc(g).kind # "none"
  BY Zenon DEF HandleBad, HandleWhole, HandleNoMemory, HandleMore, HandleFirst
<1>1. /\ jumbo \in [Gmacs -> Seq(Fragments)] /\ up \in [Gmacs -> Seq(Passed)]
      /\ rxtail[g] \in Slots(ring_num[g]) /\ Shape(buf, Buffers) /\ Types
  BY Zenon DEF Kept, Types
<1>2. /\ ring_num[g] \in Rings /\ Desc(g) \in Fragments
      /\ Desc(g).kind \in {"whole", "first"} => Desc(g).part = 1
      /\ Desc(g).kind \in {"first", "mid", "last"} => ring_num[g] \in JumboRings
      /\ Desc(g).kind \in {"mid", "last"} => Assembled(jumbo[g], Desc(g).of, Desc(g).part - 1)
  BY <1>0, <1>1, InHand, Zenon
<1>3. Desc(g) # NoFrame
  BY <1>0, Nothing, Zenon
<1>4. \A o, n : Assembled(<<>>, o, n)
  BY Zenon DEF Assembled
<1>5. CASE HandleBad(g)
  <2>1. up'[g] = up[g] /\ jumbo' = [jumbo EXCEPT ![g] = <<>>]
    BY <1>5, Zenon DEF HandleBad, AfterError
  <2>2. jumbo'[g] = <<>>
    BY <1>1, <2>1, Zenon
  <2> QED BY <1>0, <1>3, <1>4, <2>1, <2>2, TakesOrderly, Zenon
<1>6. CASE HandleNoMemory(g) /\ ~PauseEnabled
  <2>1. up'[g] = up[g] /\ jumbo'[g] = jumbo[g] /\ Ends(Desc(g))
    BY <1>6, Zenon DEF HandleNoMemory, Ends
  <2> QED BY <1>0, <1>3, <2>1, TakesOrderly, Zenon
<1>7. CASE HandleWhole(g)
  <2> DEFINE e == [ring |-> ring_num[g], frags |-> <<Desc(g)>>, buf |-> buf[g][ring_num[g]][rxtail[g]]]
  <2>1. up' = [up EXCEPT ![g] = Append(up[g], e)] /\ jumbo'[g] = jumbo[g] /\ Desc(g).kind = "whole"
    BY <1>7, Zenon DEF HandleWhole
  <2>2. e \in Passed
    <3>1. buf[g][ring_num[g]][rxtail[g]] \in Buffers /\ <<Desc(g)>> \in Seq(Fragments)
      BY <1>1, <1>2, Value, Sequence, Zenon
    <3> QED BY <1>2, <3>1, Zenon DEF Passed
  <2>3. e.ring = ring_num[g] /\ e.frags = <<Desc(g)>>
    BY Zenon
  <2>4. OneFrame(<<Desc(g)>>) /\ <<Desc(g)>>[1].of = Desc(g).of /\ Ends(Desc(g))
    BY <1>2, <2>1, AFragment, Zenon DEF Ends
  <2> HIDE DEF e
  <2>5. up'[g] = Append(up[g], e)
    BY <1>1, <2>1, Zenon
  <2>6. OneFrame(e.frags) /\ e.frags[1].of = Desc(g).of
    BY <2>3, <2>4, Zenon
  <2> QED BY <1>0, <1>3, <2>1, <2>2, <2>3, <2>4, <2>5, <2>6, TakesOrderly, Zenon
<1>8. CASE \E mem \in BOOLEAN : HandleFirst(g, mem)
  <2>1. /\ up'[g] = up[g] /\ Desc(g).kind = "first"
        /\ jumbo' = [jumbo EXCEPT ![g] = <<>>] \/ jumbo' = [jumbo EXCEPT ![g] = <<Desc(g)>>]
    BY <1>8, Zenon DEF HandleFirst
  <2>2. jumbo'[g] = <<>> \/ jumbo'[g] = <<Desc(g)>>
    BY <1>1, <2>1, Zenon
  <2>3. Assembled(<<Desc(g)>>, Desc(g).of, Desc(g).part)
    BY <1>2, <2>1, AFragment, Zenon
  <2>4. Assembled(jumbo'[g], Desc(g).of, Desc(g).part)
    BY <1>4, <2>2, <2>3, Zenon
  <2>5. ring_num[g] \in JumboRings
    BY <1>2, <2>1, Zenon
  <2> QED BY <1>0, <1>3, <2>1, <2>4, <2>5, TakesOrderly, Zenon
<1>9. CASE HandleMore(g)
  <2> DEFINE w == Append(jumbo[g], Desc(g))
             e == [ring |-> ring_num[g], frags |-> w, buf |-> <<"jumbo", w[1].of, 1>>]
  <2>1. /\ Desc(g).kind \in {"mid", "last"}
        /\ \/ up' = [up EXCEPT ![g] = up[g]] /\ jumbo' = [jumbo EXCEPT ![g] = <<>>]
           \/ up' = [up EXCEPT ![g] = up[g]] /\ jumbo[g] # <<>> /\ jumbo' = [jumbo EXCEPT ![g] = w]
           \/ /\ up' = [up EXCEPT ![g] = Append(up[g], e)] /\ jumbo[g] # <<>> /\ Desc(g).kind = "last"
              /\ jumbo' = [jumbo EXCEPT ![g] = <<>>]
    BY <1>9, Zenon DEF HandleMore
  <2>2. jumbo[g] # <<>> => /\ Assembled(w, Desc(g).of, Desc(g).part) /\ w[1].of = Desc(g).of
                           /\ w \in Seq(Fragments) /\ (Desc(g).kind = "last" => OneFrame(w))
    <3>1. jumbo[g] \in Seq(Fragments) /\ Assembled(jumbo[g], Desc(g).of, Desc(g).part - 1)
      BY <1>1, <1>2, <2>1, Zenon
    <3> QED BY <1>2, <3>1, Assemble, Zenon
  <2>3. e.ring = ring_num[g] /\ e.frags = w
    BY Zenon
  <2>4. jumbo[g] # <<>> => e \in Passed
    <3>1. jumbo[g] # <<>> => w \in Seq(Fragments) /\ w[1].of \in Nat
      BY <1>2, <2>2, Zenon DEF Fragments
    <3>2. 1 \in Nat
      BY One, Zenon
    <3> HIDE DEF w
    <3> QED BY <1>2, <3>1, <3>2, Zenon DEF Passed
  <2> HIDE DEF w, e
  <2>5. ring_num[g] \in JumboRings
    BY <1>2, <2>1, Zenon
  <2>6. \/ up'[g] = up[g] /\ jumbo'[g] = <<>>
        \/ up'[g] = up[g] /\ jumbo[g] # <<>> /\ jumbo'[g] = w
        \/ up'[g] = Append(up[g], e) /\ jumbo[g] # <<>> /\ Desc(g).kind = "last" /\ jumbo'[g] = <<>>
    BY <1>1, <2>1, Zenon
  <2>7. \/ up'[g] = up[g]
        \/ \E x \in Passed : /\ up'[g] = Append(up[g], x) /\ x.ring = ring_num[g] /\ OneFrame(x.frags)
                             /\ x.frags[1].of = Desc(g).of /\ Ends(Desc(g))
    <3>1. CASE up'[g] = Append(up[g], e) /\ jumbo[g] # <<>> /\ Desc(g).kind = "last"
      <4>1. e \in Passed /\ e.ring = ring_num[g] /\ OneFrame(e.frags) /\ e.frags[1].of = Desc(g).of /\ Ends(Desc(g))
        BY <2>2, <2>3, <2>4, <3>1, Zenon DEF Ends
      <4> QED BY <3>1, <4>1, Zenon
    <3> QED BY <2>6, <3>1, Zenon
  <2>8. Assembled(jumbo'[g], Desc(g).of, Desc(g).part)
    BY <1>4, <2>2, <2>6, Zenon
  <2> QED BY <1>0, <1>3, <2>5, <2>7, <2>8, TakesOrderly, Zenon
<1> QED
  BY <1>5, <1>6, <1>7, <1>8, <1>9, Zenon

\* rx_next: the descriptor goes back, and the driver goes to the next one.
LEMMA GiveStep == ASSUME Kept, NEW g \in Gmacs, Orderly(g), GiveBack(g) PROVE Orderly(g)'
<1>0. PICK r \in Rings : r = ring_num[g]
  BY Zenon DEF Kept, Types
<1>1. /\ DOMAIN pc = Gmacs /\ DOMAIN rxtail = Gmacs /\ DOMAIN tail = Gmacs /\ DOMAIN tail[g] = Rings
      /\ Shape(rx, Fragments) /\ rxtail[g] \in Slots(r) /\ NoFrame \in Fragments
  BY <1>0, Nothing, Zenon DEF Kept, Types, Index
<1>2. /\ pc[g] = "give" /\ rx' = Put(rx, g, r, rxtail[g], NoFrame)
      /\ rxtail' = [rxtail EXCEPT ![g] = NEXT_RX(rxtail[g], r)]
      /\ \/ /\ pc' = [pc EXCEPT ![g] = "repoll"]
            /\ tail' = [tail EXCEPT ![g][r] = NEXT_RX(rxtail[g], r)]
         \/ pc' = [pc EXCEPT ![g] = "loop"] /\ UNCHANGED tail
      /\ UNCHANGED <<ring_num, cdo, inframe, jumbo, up, nextFrame>>
  BY <1>0, Zenon DEF GiveBack, SavedTail, Goto, Put, engine
<1>3. /\ rxtail'[g] = NEXT_RX(rxtail[g], r)
      /\ \/ pc'[g] = "repoll" /\ tail'[g][r] = NEXT_RX(rxtail[g], r) /\ \A q \in Rings \ {r} : tail'[g][q] = tail[g][q]
         \/ pc'[g] = "loop" /\ UNCHANGED tail
  BY <1>1, <1>2, Zenon
<1>4. /\ Holding(g, r) /\ At(g, r) = rxtail[g] /\ \A q \in Rings : ~Holding(g, q)'
  BY <1>0, <1>2, <1>3, Zenon DEF Holding, At, InLoop
<1>5. At(g, r)' = NEXT_RX(rxtail[g], r)
  BY <1>0, <1>2, <1>3, Zenon DEF At, InLoop
<1>6. \A q \in Rings \ {r} : ~Holding(g, q) /\ At(g, q)' = At(g, q)
  BY <1>0, <1>2, <1>3, Zenon DEF Holding, At
<1>7. Changed(rx', rx, Fragments, g, r, rxtail[g], NoFrame)
  BY <1>1, <1>2, Write, Zenon
<1>8. QueueAt(g, r, FALSE)'
  <2>1. Queue(r, rx[g][r], rxtail[g], TRUE, cdo[g][r], inframe[g][r], up[g], nextFrame, jumbo[g])
    BY <1>4, Zenon DEF Orderly, QueueAt
  <2>2. /\ rx'[g][r] \in [Slots(r) -> Fragments] /\ rx'[g][r][rxtail[g]] = NoFrame
        /\ \A j \in Slots(r) : j # rxtail[g] => rx'[g][r][j] = rx[g][r][j]
    BY <1>7, Zenon DEF Changed, Shape
  <2>3. Queue(r, rx'[g][r], NEXT_RX(rxtail[g], r), FALSE, cdo[g][r], inframe[g][r], up[g], nextFrame, jumbo[g])
    BY <2>1, <2>2, QueueGive, Zenon
  <2> QED BY <1>2, <1>5, <2>3, Zenon DEF QueueAt
<1>9. ASSUME NEW q \in Rings \ {r} PROVE QueueAt(g, q, FALSE)'
  <2>1. rx'[g][q] = rx[g][q]
    <3>1. DOMAIN rx = Gmacs /\ DOMAIN rx[g] = Rings
      BY <1>1, Zenon DEF Shape
    <3> QED BY <1>2, <3>1, Zenon DEF Put
  <2>2. QueueAt(g, q, FALSE)
    BY <1>6, Zenon DEF Orderly
  <2> QED BY <1>2, <1>6, <2>1, <2>2, Zenon DEF QueueAt
<1>10. Whole(up'[g])
  BY <1>2, Zenon DEF Orderly
<1> QED
  BY <1>4, <1>8, <1>9, <1>10, Zenon DEF Orderly

\* The number that the engine gives a fragment's frame.
LEMMA Fragmented ==
  ASSUME Kept, NEW g \in Gmacs, NEW r \in Rings, NEW kind, NEW e, e = Filled(g, r, kind),
         Arriving(g, r).part = 1 => nextFrame' = nextFrame + 1, Arriving(g, r).part # 1 => nextFrame' = nextFrame
  PROVE  Comes(e, inframe[g][r], nextFrame) /\ nextFrame' \in Nat /\ nextFrame <= nextFrame' /\ e.of < nextFrame'
<1>1. e.of = Arriving(g, r).of /\ e.part = Arriving(g, r).part
  BY Zenon DEF Filled
<1>2. /\ nextFrame \in Nat \ {0} /\ inframe[g][r].of < nextFrame /\ inframe[g][r] \in Fragments
  BY Numbers, Zenon
<1>3. /\ inframe[g][r] = NoFrame => e.of = nextFrame /\ e.part = 1
      /\ inframe[g][r] # NoFrame => e.of = inframe[g][r].of /\ e.part = inframe[g][r].part + 1
  BY <1>1, Zenon DEF Arriving
<1>4. nextFrame' \in Nat /\ nextFrame <= nextFrame'
  BY <1>2, After, Zenon
<1>5. e.of < nextFrame'
  <2>1. CASE inframe[g][r] = NoFrame
    <3>1. nextFrame' = nextFrame + 1 /\ e.of = nextFrame
      BY <1>1, <1>3, <2>1, Zenon
    <3> QED BY <1>2, <3>1, After, Zenon
  <2>2. CASE inframe[g][r] # NoFrame
    <3>1. e.of \in Nat /\ e.of < nextFrame
      BY <1>2, <1>3, <2>2, Zenon DEF Fragments
    <3> QED BY <1>2, <1>4, <3>1, Less, Zenon
  <2> QED BY <2>1, <2>2, Zenon
<1> QED
  BY <1>3, <1>4, <1>5, Zenon DEF Comes

\* The engine does not move the driver.
LEMMA EngineAlone ==
  ASSUME NEW g, UNCHANGED <<pc, ring_num, rxtail, tail>>
  PROVE  \A r \in Rings : At(g, r)' = At(g, r) /\ (Holding(g, r)' <=> Holding(g, r))
  BY Zenon DEF At, Holding

\* A fragment arrives.
LEMMA FillStep ==
  ASSUME Kept, NEW g \in Gmacs, Orderly(g), NEW r \in Rings, NEW kind \in {"whole", "bad", "first", "mid", "last"},
         NEW ends \in BOOLEAN, HwReceive(g, r, kind, ends)
  PROVE  Orderly(g)'
<1>0. PICK e \in Fragments : e = Filled(g, r, kind)
  <2>1. kind \in Kinds
    BY Zenon DEF Kinds
  <2> QED BY <2>1, Arrives, Zenon
<1>1. /\ rx' = Put(rx, g, r, cdo[g][r], e) /\ rx[g][r][cdo[g][r]] = NoFrame
      /\ cdo' = [cdo EXCEPT ![g][r] = NEXT_RX(cdo[g][r], r)]
      /\ inframe' = [inframe EXCEPT ![g][r] = IF ends THEN NoFrame ELSE e]
      /\ UNCHANGED <<pc, ring_num, rxtail, tail, jumbo, up>>
  BY <1>0, Zenon DEF HwReceive, Filled, Put, local
<1>2. Comes(e, inframe[g][r], nextFrame) /\ nextFrame' \in Nat /\ nextFrame <= nextFrame' /\ e.of < nextFrame'
  <2>1. /\ Arriving(g, r).part = 1 => nextFrame' = nextFrame + 1
        /\ Arriving(g, r).part # 1 => nextFrame' = nextFrame
    BY Zenon DEF HwReceive
  <2> QED BY <1>0, <2>1, Fragmented, Zenon
<1>3. Flagged(r, e, ends)
  <2>1. e.part = Arriving(g, r).part /\ e.kind = kind
    BY <1>0, Zenon DEF Filled
  <2> QED BY <2>1, Zenon DEF HwReceive, Flagged
<1>4. /\ Shape(rx, Fragments) /\ cdo[g][r] \in Slots(r) /\ DOMAIN cdo = Gmacs /\ DOMAIN cdo[g] = Rings
      /\ inframe \in [Gmacs -> [Rings -> Fragments]] /\ DOMAIN rx = Gmacs /\ DOMAIN rx[g] = Rings
  BY Zenon DEF Kept, Types, Index, Shape
<1>5. Changed(rx', rx, Fragments, g, r, cdo[g][r], e)
  BY <1>1, <1>4, Write, Zenon
<1>6. Sets(r, rx[g][r], rx'[g][r], cdo[g][r], e)
  BY <1>5, Zenon DEF Changed, Shape, Sets
<1>7. /\ cdo'[g][r] = NEXT_RX(cdo[g][r], r) /\ inframe'[g][r] = IF ends THEN NoFrame ELSE e
      /\ \A q \in Rings \ {r} : rx'[g][q] = rx[g][q] /\ cdo'[g][q] = cdo[g][q] /\ inframe'[g][q] = inframe[g][q]
  BY <1>1, <1>4, Zenon DEF Put
<1>8. \A q \in Rings : At(g, q)' = At(g, q) /\ (Holding(g, q)' <=> Holding(g, q))
  BY <1>1, EngineAlone, Zenon
<1>9. ASSUME NEW h, QueueAt(g, r, h) PROVE QueueAt(g, r, h)'
  <2>1. Queue(r, rx[g][r], At(g, r), h, cdo[g][r], inframe[g][r], up[g], nextFrame, jumbo[g])
    BY <1>9, Zenon DEF QueueAt
  <2>2. Queue(r, rx'[g][r], At(g, r), h, NEXT_RX(cdo[g][r], r), inframe'[g][r], up[g], nextFrame', jumbo[g])
    <3>1. rx[g][r][cdo[g][r]] = NoFrame /\ (ends => inframe'[g][r] = NoFrame) /\ (~ends => inframe'[g][r] = e)
      BY <1>1, <1>7, Zenon
    <3> QED BY <1>2, <1>3, <1>6, <2>1, <3>1, QueueFill, Zenon
  <2> QED BY <1>1, <1>7, <1>8, <2>2, Zenon DEF QueueAt
<1>10. ASSUME NEW q \in Rings \ {r}, NEW h, QueueAt(g, q, h) PROVE QueueAt(g, q, h)'
  <2>1. Queue(q, rx[g][q], At(g, q), h, cdo[g][q], inframe[g][q], up[g], nextFrame', jumbo[g])
    BY <1>2, <1>10, QueueOther, Zenon DEF QueueAt
  <2> QED BY <1>1, <1>7, <1>8, <2>1, Zenon DEF QueueAt
<1>11. Whole(up'[g])
  BY <1>1, Zenon DEF Orderly
<1> QED
  BY <1>8, <1>9, <1>10, <1>11, Zenon DEF Orderly

\* The engine finds no descriptor: what is left of the frame is lost.
LEMMA DropStep ==
  ASSUME Kept, NEW g \in Gmacs, Orderly(g), NEW r \in Rings, HwNoDescriptor(g, r) PROVE Orderly(g)'
<1>1. /\ inframe' = [inframe EXCEPT ![g][r] = NoFrame]
      /\ Arriving(g, r).part = 1 => nextFrame' = nextFrame + 1
      /\ Arriving(g, r).part # 1 => nextFrame' = nextFrame
      /\ UNCHANGED <<rx, cdo, pc, ring_num, rxtail, tail, jumbo, up>>
  BY Zenon DEF HwNoDescriptor, local
<1>2. nextFrame' \in Nat /\ nextFrame <= nextFrame'
  BY <1>1, Fragmented, Zenon
<1>3. inframe'[g][r] = NoFrame /\ \A q \in Rings \ {r} : inframe'[g][q] = inframe[g][q]
  BY <1>1, Zenon DEF Kept, Types
<1>4. \A q \in Rings : At(g, q)' = At(g, q) /\ (Holding(g, q)' <=> Holding(g, q))
  BY <1>1, EngineAlone, Zenon
<1>5. ASSUME NEW q \in Rings, NEW h, QueueAt(g, q, h) PROVE QueueAt(g, q, h)'
  <2>1. inframe'[g][q] = inframe[g][q] \/ inframe'[g][q] = NoFrame
    BY <1>3, Zenon
  <2>2. Queue(q, rx[g][q], At(g, q), h, cdo[g][q], inframe'[g][q], up[g], nextFrame', jumbo[g])
    BY <1>2, <1>5, <2>1, QueueOther, Zenon DEF QueueAt
  <2> QED BY <1>1, <1>4, <2>2, Zenon DEF QueueAt
<1>6. Whole(up'[g])
  BY <1>1, Zenon DEF Orderly
<1> QED
  BY <1>4, <1>5, <1>6, Zenon DEF Orderly

\* Until the first close the rings of all GMACs are in order.
FInv == closes \in Nat /\ (closes = 0 => \A g \in Gmacs : adm[g] = "up" /\ Orderly(g))

\* The rings are empty at first.
LEMMA InitFInv == Init => FInv
<1> SUFFICES ASSUME Init PROVE FInv
  BY Zenon
<1>1. closes \in Nat
  BY SMT DEF Init
<1>2. ASSUME NEW g \in Gmacs PROVE Orderly(g)
  <2>1. up[g] = <<>> /\ jumbo[g] = <<>> /\ pc[g] = "out" /\ nextFrame = 1
    BY Zenon DEF Init
  <2>2. ASSUME NEW r \in Rings PROVE QueueAt(g, r, FALSE)
    <3> DEFINE q == rx[g][r]
    <3>1. /\ q = [i \in Slots(r) |-> NoFrame] /\ At(g, r) = 0 /\ cdo[g][r] = 0 /\ inframe[g][r] = NoFrame
      BY <2>1, Zenon DEF Init, At, InLoop
    <3>2. 0 \in Slots(r) /\ NoFrame \in Fragments
      BY FirstSlot, Nothing, Zenon
    <3>3. q \in [Slots(r) -> Fragments] /\ \A i \in Slots(r) : q[i] = NoFrame
      BY <3>1, <3>2, Zenon
    <3> HIDE DEF q
    <3>4. \A i : i \notin Occupied(r, q)
      BY <3>3, Zenon DEF Occupied
    <3>5. Behind(r, q, 0, 0)
      <4>1. ASSUME NEW i \in Slots(r) PROVE ~(Gap(r, 0, i) < Gap(r, 0, 0))
        <5>1. Gap(r, 0, i) \in Nat /\ Gap(r, 0, 0) \in Nat
          BY <3>2, Gaps, Zenon
        <5>2. i # 0 => Gap(r, 0, 0) < Gap(r, 0, i)
          BY <3>2, GapAhead, Zenon
        <5> QED BY <5>1, <5>2, SMT
      <4> QED BY <3>2, <3>3, <4>1, Zenon DEF Behind
    <3>6. Sorted(r, q, 0) /\ Oldest(r, q, NoFrame, 1) /\ Parts(r, q, NoFrame) /\ Single(r, q, NoFrame)
      BY <3>4, Zenon DEF Sorted, Oldest, Parts, Single
    <3>7. Linked(r, q, 0, FALSE, 0, NoFrame, <<>>)
      BY <3>2, <3>3, <3>4, Zenon DEF Linked
    <3>8. <<>> \in Seq(Passed) /\ 1 \in Nat /\ \A k : k \notin 1 .. Len(<<>>)
      BY SMTT(30)
    <3>9. Done(r, q, 0, FALSE, NoFrame, <<>>, 1)
      BY <3>8, Zenon DEF Done, Ascends, Went
    <3>10. Fifo(r, q, 0, FALSE, 0, NoFrame, <<>>, 1)
      BY <3>2, <3>3, <3>5, <3>6, <3>8, <3>9, Zenon DEF Fifo
    <3>11. Queue(r, q, 0, FALSE, 0, NoFrame, <<>>, 1, <<>>)
      BY <3>6, <3>7, <3>10, Zenon DEF Queue
    <3> QED BY <2>1, <3>1, <3>11, Zenon DEF QueueAt, q
  <2>3. Whole(up[g])
    <3>1. \A k : k \notin 1 .. Len(up[g])
      BY <2>1, SMTT(30)
    <3> QED BY <3>1, Zenon DEF Whole
  <2>4. \A r \in Rings : ~Holding(g, r)
    BY <2>1, Zenon DEF Holding
  <2> QED BY <2>2, <2>3, <2>4, Zenon DEF Orderly
<1>3. \A g \in Gmacs : adm[g] = "up"
  BY Zenon DEF Init
<1> QED
  BY <1>1, <1>2, <1>3, Zenon DEF FInv

\* Every step of the poll of a GMAC keeps its rings in order.
LEMMA PollStep == ASSUME OneJumboRing, Polling, Kept, NEW g \in Gmacs, Orderly(g), Poll(g) PROVE Orderly(g)'
<1>0. Types /\ nextFrame \in Nat
  BY Zenon DEF Kept, Types
<1>1. CASE PollClosed(g)
  <2>1. Same(g) /\ UNCHANGED nextFrame
    BY <1>1, Zenon DEF PollClosed, Same, engine, local
  <2>2. nextFrame' \in Nat /\ nextFrame <= nextFrame'
    BY <1>0, <2>1, SMT
  <2> QED BY <2>1, <2>2, SameOrderly, Zenon
<1>2. CASE \/ PollBegin(g) \/ ClearBackup(g) \/ StartRing(g) \/ ClearIsr1(g) \/ LoopEnds(g) \/ LoopPauses(g)
           \/ LoopQuits(g) \/ LoopGoesOn(g) \/ DescOwned(g) \/ (HandleNoMemory(g) /\ PauseEnabled)
           \/ Repoll(g) \/ PollDone(g)
  BY <1>0, <1>2, PlaceStep, Zenon
<1>3. CASE \/ HandleBad(g) \/ HandleWhole(g) \/ (HandleNoMemory(g) /\ ~PauseEnabled) \/ HandleMore(g)
           \/ \E mem \in BOOLEAN : HandleFirst(g, mem)
  BY <1>3, HandleStep, Zenon
<1>4. CASE GiveBack(g)
  BY <1>4, GiveStep, Zenon
<1>5. CASE HandleNoMemory(g)
  BY <1>2, <1>3, <1>5, Zenon
<1> QED
  BY <1>1, <1>2, <1>3, <1>4, <1>5, Zenon DEF Poll

\* Every step keeps all rings in order until the first close.
LEMMA StepFInv == ASSUME OneJumboRing, Polling, Kept, FInv, [Next]_vars PROVE FInv'
<1>0. Types /\ nextFrame \in Nat /\ closes \in Nat
  BY Zenon DEF Kept, Types, FInv
<1>1. ASSUME NEW g \in Gmacs, Hardware(g) \/ Interrupt(g) \/ Poll(g) PROVE FInv'
  <2>1. UNCHANGED <<adm, closes>>
    <3>1. CASE Hardware(g)
      BY <3>1, ZenonT(30) DEF Hardware, HwReceive, HwNoDescriptor, dev
    <3>2. CASE Interrupt(g)
      BY <3>2, Zenon DEF Interrupt, dev
    <3>3. CASE Poll(g)
      BY <3>3, ZenonT(60) DEF Poll, PollClosed, PollBegin, ClearBackup, StartRing, ClearIsr1, LoopEnds, LoopPauses, LoopQuits,
         LoopGoesOn, DescOwned, HandleBad, HandleWhole, HandleNoMemory, HandleMore, HandleFirst, GiveBack, Repoll, PollDone,
         Handled, dev
    <3> QED BY <1>1, <3>1, <3>2, <3>3, Zenon
  <2>2. nextFrame' \in Nat /\ nextFrame <= nextFrame'
    <3>1. CASE Hardware(g)
      <4>1. nextFrame' = nextFrame \/ nextFrame' = nextFrame + 1
        BY <3>1, ZenonT(30) DEF Hardware, HwReceive, HwNoDescriptor
      <4> QED BY <1>0, <4>1, SMT
    <3>2. CASE Interrupt(g) \/ Poll(g)
      <4>1. UNCHANGED nextFrame
        BY <3>2, ZenonT(60) DEF Interrupt, Poll, PollClosed, PollBegin, ClearBackup, StartRing, ClearIsr1, LoopEnds, LoopPauses,
           LoopQuits, LoopGoesOn, DescOwned, HandleBad, HandleWhole, HandleNoMemory, HandleMore, HandleFirst, GiveBack, Repoll,
           PollDone, Handled
      <4> QED BY <1>0, <4>1, SMT
    <3> QED BY <1>1, <3>1, <3>2, Zenon
  <2>3. ASSUME closes = 0, NEW h \in Gmacs \ {g} PROVE Orderly(h)'
    <3>1. Same(h)
      BY <1>0, <1>1, Framed, Zenon
    <3>2. Orderly(h)
      BY <2>3, Zenon DEF FInv
    <3> QED BY <2>2, <3>1, <3>2, SameOrderly, Zenon
  <2>4. ASSUME closes = 0 PROVE Orderly(g)'
    <3>0. Orderly(g)
      BY <2>4, Zenon DEF FInv
    <3>1. CASE Hardware(g)
      BY <3>0, <3>1, FillStep, DropStep, Zenon DEF Hardware
    <3>2. CASE Interrupt(g)
      <4>1. Same(g)
        BY <3>2, Zenon DEF Interrupt, Same, engine, local
      <4> QED BY <2>2, <3>0, <4>1, SameOrderly, Zenon
    <3>3. CASE Poll(g)
      BY <3>0, <3>3, PollStep, Zenon
    <3> QED BY <1>1, <3>1, <3>2, <3>3, Zenon
  <2> QED BY <2>1, <2>3, <2>4, Zenon DEF FInv
<1>2. ASSUME NEW g \in Gmacs, Admin(g) PROVE FInv'
  <2>1. CASE closes = 0
    <3>1. adm[g] = "up"
      BY <2>1, Zenon DEF FInv
    <3>2. closes' = closes + 1
      BY <1>2, <3>1, Zenon DEF Admin, Close, StopHw, NapiDisable, InitHw, Refill, OpenDone
    <3>3. closes' \in Nat /\ closes' # 0
      BY <1>0, <3>2, SMT
    <3> QED BY <3>3, Zenon DEF FInv
  <2>2. CASE closes # 0
    <3>1. closes' = closes \/ closes' = closes + 1
      BY <1>2, Zenon DEF Admin, Close, StopHw, NapiDisable, InitHw, Refill, OpenDone
    <3>2. closes' \in Nat /\ closes' # 0
      BY <1>0, <2>2, <3>1, SMT
    <3> QED BY <3>2, Zenon DEF FInv
  <2> QED BY <2>1, <2>2, Zenon
<1>3. CASE PauseTimer \/ UNCHANGED vars
  <2>1. UNCHANGED <<adm, closes, nextFrame>> /\ \A h \in Gmacs : Same(h)
    BY <1>3, Zenon DEF PauseTimer, vars, Same, engine, local, dev
  <2>2. nextFrame' \in Nat /\ nextFrame <= nextFrame'
    BY <1>0, <2>1, SMT
  <2> QED BY <2>1, <2>2, SameOrderly, Zenon DEF FInv
<1> QED
  BY <1>1, <1>2, <1>3, Zenon DEF Next

\* What the invariant says of the frames that went up.
LEMMA InOrder == FInv => ReceivedInOrder /\ (closes = 0 => JumboIsOneFrame)
<1> SUFFICES ASSUME FInv, closes = 0, NEW g \in Gmacs
             PROVE  /\ \A j, k \in 1 .. Len(up[g]) :
                         (j < k /\ up[g][j].ring = up[g][k].ring) => up[g][j].frags[1].of < up[g][k].frags[1].of
                    /\ \A k \in 1 .. Len(up[g]) : OneFrame(up[g][k].frags)
  BY Zenon DEF ReceivedInOrder, JumboIsOneFrame, OneFrame
<1>1. Orderly(g)
  BY Zenon DEF FInv
<1>2. ASSUME NEW r \in Rings PROVE Ascends(up[g], r) /\ up[g] \in Seq(Passed)
  <2>1. PICK h : QueueAt(g, r, h)
    BY <1>1, Zenon DEF Orderly
  <2> QED BY <2>1, Zenon DEF QueueAt, Queue, Fifo, Done
<1>3. \A k \in 1 .. Len(up[g]) : up[g][k].ring \in Rings
  <2>1. PICK r : r \in Rings
    BY NicRxAssumption, SMT DEF Rings
  <2>2. up[g] \in Seq(Passed)
    BY <1>2, <2>1, Zenon
  <2>3. \A k \in 1 .. Len(up[g]) : up[g][k] \in Passed
    BY <2>2, SMTT(30)
  <2> QED BY <2>3, Zenon DEF Passed
<1>4. \A j, k \in 1 .. Len(up[g]) :
        (j < k /\ up[g][j].ring = up[g][k].ring) => up[g][j].frags[1].of < up[g][k].frags[1].of
  BY <1>2, <1>3, Zenon DEF Ascends
<1> QED
  BY <1>1, <1>4, Zenon DEF Orderly, Whole

\* Each ring is a FIFO from the wire to the stack until the device is closed, as
\* long as the switch sends a GMAC's jumbo frames to one ring: however the polls of
\* re8670_rx interrupt one another, pause, expire and end at the budget, rx_Mtail
\* and rx_tail follow the engine around the ring.
THEOREM ReceivedInOrderHolds == ASSUME OneJumboRing PROVE Spec => []ReceivedInOrder
<1>1. Polling /\ Kept /\ FInv /\ [Next]_vars => Polling' /\ Kept' /\ FInv'
  BY PollingStep, KeptStep, StepFInv, Zenon
<1>2. Init => Polling /\ Kept /\ FInv
  BY Initially, InitFInv, Zenon
<1>3. FInv => ReceivedInOrder
  BY InOrder, Zenon
<1> QED
  BY <1>1, <1>2, <1>3, PTL DEF Spec

\* Until the device is closed, and with jumbo frames in one ring, what goes up as a
\* frame has all its fragments in their order and those of no other frame:
\* re8670_rx drops jumboFrame wherever a fragment was lost.
THEOREM JumboIsOneFrameHolds == ASSUME OneJumboRing PROVE Spec => [](closes = 0 => JumboIsOneFrame)
<1>1. Polling /\ Kept /\ FInv /\ [Next]_vars => Polling' /\ Kept' /\ FInv'
  BY PollingStep, KeptStep, StepFInv, Zenon
<1>2. Init => Polling /\ Kept /\ FInv
  BY Initially, InitFInv, Zenon
<1>3. FInv => (closes = 0 => JumboIsOneFrame)
  BY InOrder, Zenon
<1> QED
  BY <1>1, <1>2, <1>3, PTL DEF Spec
=============================================================================
