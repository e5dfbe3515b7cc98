------------------------ MODULE WlanStationsProofs ------------------------
(***************************************************************************)
(* AsocIsAuthenticated, AssocNumIsLive and EntryIsTimed for any number of  *)
(* stations, any timeouts, any limit and any set of configurations.  The   *)
(* invariant speaks of one entry at a time (Proper, Lively, Timely), so    *)
(* that a frame handler's step is judged by the entry it leaves behind.    *)
(***************************************************************************)
EXTENDS WlanStations, FiniteSetTheorems, TLAPS

\* What AsocIsAuthenticated says of one entry, and that one that waits on
\* delsta_list for its release is marked as leaving.
Proper(e) ==
  /\ "asoc" \in e.lists => /\ e.used /\ e.lists = {"asoc"}
                           /\ "AUTH_SUCCESS" \in e.state /\ "ASOC" \in e.state
                           /\ "DELETE" \notin e.state
  /\ "delsta" \in e.lists => "DELETE" \in e.state

\* An associated station has not expired; an entry is on a list and counts.
Lively(e) == "asoc" \in e.lists => e.exp > 0
Timely(e) == e.used => e.lists # {} /\ e.exp > 0

Pass == IF phase = "assoc" THEN "asoc" ELSE phase

\* Who may be where when contexts do not overlap.
Discipline ==
  /\ phase = "idle" => todo = {} /\ cur = NoSta
  /\ phase # "idle" => dpc = "idle"
  /\ \A s \in Stas : tab[s].indel => dpc # "idle" /\ del = s
  /\ \A s \in todo : On(Pass, s) /\ cur # s

\* The association count, where expired stations are deleted as well.
Counting ==
  /\ \A s \in Stas : Lively(tab[s]) \/ cur = s
  /\ cur \notin Live
  /\ assoc_num = Cardinality(Live)

IInv ==
  /\ TypeOK
  /\ dpc # "idle" => del \in Stas
  /\ \A s \in Stas : Proper(tab[s])
  /\ ~conf.overlap => Discipline
  /\ ~conf.overlap /\ conf.del_expire => Counting
  /\ EntryIsTimed

\* The empty table satisfies the invariant.
LEMMA InitIInv == Init => IInv
<1> SUFFICES ASSUME Init PROVE IInv
  BY Zenon
<1>1. NoEntry \in Entry
  BY SMTT(30) DEF NoEntry, Entry
<1>2. TypeOK
  BY <1>1, SMTT(30) DEF Init, TypeOK
<1>3. Live = {}
  BY Zenon DEF Init, Live, On, NoEntry
<1>4. Counting
  BY <1>3, FS_EmptySet, WlanAssumption, Zenon DEF Init, Counting, Lively, NoEntry
<1>5. Discipline
  BY Zenon DEF Init, Discipline, NoEntry
<1> QED
  BY <1>2, <1>4, <1>5, Zenon DEF Init, IInv, Proper, EntryIsTimed, NoEntry

\* assoc_num follows an entry that becomes live, stops being live, or neither;
\* the bound MaxCount is not in the way.
LEMMA Recount ==
  ASSUME NEW s \in Stas, TypeOK, assoc_num = Cardinality(Live),
         \A t \in Stas \ {s} : tab'[t] = tab[t],
         \/ s \notin Live' /\ Uncount(s \in Live)
         \/ s \in Live' /\ Count(s \notin Live)
         \/ (s \in Live' <=> s \in Live) /\ assoc_num' = assoc_num
  PROVE  assoc_num' = Cardinality(Live')
<1>1. IsFiniteSet(Live) /\ Live \subseteq Stas /\ Cardinality(Live) \in Nat
  BY FS_Subset, FS_CardinalityType, WlanAssumption, Zenon DEF Live
<1>2. \A t \in Stas \ {s} : t \in Live' <=> t \in Live
  BY Zenon DEF Live, On
<1>3. Live' \subseteq Stas
  BY Zenon DEF Live
<1>4. CASE s \in Live' /\ s \notin Live
  <2>1. Live' = Live \cup {s}
    BY <1>1, <1>2, <1>3, <1>4, Zenon
  <2>2. Cardinality(Live') = Cardinality(Live) + 1
    BY <1>1, <1>4, <2>1, FS_AddElement, Zenon
  <2>3. IsFiniteSet(Stas) /\ Cardinality(Live') <= Cardinality(Stas)
    BY <1>3, FS_Subset, WlanAssumption, Zenon
  <2> QED
    BY <1>1, <1>4, <2>2, <2>3, WlanAssumption, FS_CardinalityType, SMTT(30) DEF Count
<1>5. CASE s \notin Live' /\ s \in Live
  <2>1. Live' = Live \ {s}
    BY <1>1, <1>2, <1>3, <1>5, Zenon
  <2>2. Cardinality(Live') = Cardinality(Live) - 1
    BY <1>1, <1>5, <2>1, FS_RemoveElement, Zenon
  <2>3. Cardinality(Live') \in Nat
    BY <1>1, <2>1, FS_Subset, FS_CardinalityType, Zenon
  <2> QED
    BY <1>1, <1>5, <2>2, <2>3, WlanAssumption, SMTT(30) DEF Uncount
<1>6. CASE s \in Live' <=> s \in Live
  <2>1. Live' = Live
    BY <1>1, <1>2, <1>3, <1>6, SMTT(30)
  <2> QED
    BY <1>6, <2>1, Zenon DEF Count, Uncount
<1> QED
  BY <1>4, <1>5, <1>6, Zenon

-----------------------------------------------------------------------------
(* Frames.                                                                 *)

\* Where a handler runs while nothing overlaps: the timer and del_station are
\* idle, so every entry is as it should be.
LEMMA Quiet ==
  ASSUME IInv, Frame, ~conf.overlap, NEW s \in Stas
  PROVE  /\ phase = "idle" /\ todo = {} /\ cur = NoSta /\ dpc = "idle"
         /\ ~tab[s].indel
         /\ conf.del_expire => Lively(tab[s]) /\ (On("asoc", s) <=> s \in Live)
         /\ Tidy => Timely(tab[s])
<1>1. phase = "idle" /\ dpc = "idle"
  BY Zenon DEF Frame, Unlocked
<1>2. todo = {} /\ cur = NoSta /\ ~tab[s].indel
  BY <1>1, Zenon DEF IInv, Discipline
<1>3. conf.del_expire => Lively(tab[s])
  BY <1>2, WlanAssumption, Zenon DEF IInv, Counting
<1>4. Tidy => Timely(tab[s])
  BY <1>2, WlanAssumption, Zenon DEF IInv, EntryIsTimed, Timely
<1> QED
  BY <1>1, <1>2, <1>3, <1>4, Zenon DEF Lively, Live, On

\* A handler that leaves a good entry behind, and counts it, preserves the
\* invariant.
LEMMA FrameStep ==
  ASSUME IInv, Frame, NEW s \in Stas, NEW e \in Entry, Set(s, e),
         todo' \subseteq todo, assoc_num' \in Int,
         Proper(e),
         ~conf.overlap => ~e.indel,
         ~conf.overlap /\ conf.del_expire => Lively(e) /\ assoc_num' = Cardinality(Live'),
         Tidy => Timely(e)
  PROVE  IInv'
<1>1. /\ tab' \in [Stas -> Entry] /\ tab'[s] = e
      /\ \A t \in Stas \ {s} : tab'[t] = tab[t]
  BY Zenon DEF IInv, TypeOK, Set
<1>2. UNCHANGED <<phase, cur, dpc, del, conf>>
  BY Zenon DEF Frame, call
<1>3. TypeOK'
  BY <1>1, <1>2, Zenon DEF IInv, TypeOK
<1>4. \A t \in Stas : Proper(tab[t])'
  BY <1>1, Zenon DEF IInv, Proper
<1>5. ASSUME ~conf.overlap PROVE Discipline'
  <2>1. todo' = {}
    BY <1>5, Quiet, Zenon
  <2> QED
    BY <1>1, <1>2, <1>5, <2>1, Quiet, Zenon DEF Discipline
<1>6. ASSUME ~conf.overlap, conf.del_expire PROVE Counting'
  <2>1. \A t \in Stas : Lively(tab'[t])
    BY <1>1, <1>6, Quiet, Zenon
  <2>2. cur' \notin Live'
    BY <1>2, <1>6, Quiet, WlanAssumption, Zenon DEF Live
  <2> QED
    BY <1>6, <2>1, <2>2, Zenon DEF Counting, Lively
<1>7. EntryIsTimed'
  <2>1. ASSUME Tidy PROVE \A t \in Stas : Timely(tab'[t])
    BY <1>1, <2>1, Quiet, Zenon DEF Tidy
  <2> QED
    BY <1>2, <2>1, Zenon DEF EntryIsTimed, Tidy, Timely
<1> QED
  BY <1>2, <1>3, <1>4, <1>5, <1>6, <1>7, Zenon DEF IInv

\* The entries with which the handlers begin.
LEMMA NewEntry ==
  ASSUME TypeOK, NEW s \in Stas
  PROVE  /\ NoEntry \in Entry /\ Proper(NoEntry) /\ Lively(NoEntry) /\ Timely(NoEntry)
         /\ ~NoEntry.indel /\ ~NoEntry.used /\ NoEntry.lists = {}
         /\ Fresh(s) \in Entry
         /\ Fresh(s).used /\ Fresh(s).state = {} /\ Fresh(s).lists = {} /\ Fresh(s).seq = 0
         /\ Fresh(s).exp = INIT_TO /\ Fresh(s).indel = tab[s].indel
<1>1. tab[s].indel \in BOOLEAN /\ INIT_TO \in Int
  BY WlanAssumption, SMTT(30) DEF TypeOK, Entry
<1>2. /\ NoEntry \in Entry /\ Proper(NoEntry) /\ Lively(NoEntry) /\ Timely(NoEntry)
      /\ ~NoEntry.indel /\ ~NoEntry.used
      /\ NoEntry.state = {} /\ NoEntry.lists = {} /\ NoEntry.seq = 0
  BY SMTT(30) DEF NoEntry, Entry, Proper, Lively, Timely
<1> QED
  BY <1>1, <1>2, Zenon DEF Fresh, Entry

\* OnAuth, first half: the entry is on auth_list and not on asoc_list.
LEMMA ReopenedEntry ==
  ASSUME IInv, NEW s \in Stas, ~Leaving(s), NEW seq \in Nat
  PROVE  LET e == Reopened(s, seq)
         IN  /\ e \in Entry /\ e.used /\ e.indel = tab[s].indel
             /\ "auth" \in e.lists /\ "asoc" \notin e.lists /\ "delsta" \notin e.lists
             /\ e.exp = INIT_TO \/ (tab[s].used /\ e.exp = tab[s].exp)
<1> DEFINE e == Reopened(s, seq)
<1>1. TypeOK /\ Proper(tab[s]) /\ tab[s] \in Entry
  BY Zenon DEF IInv, TypeOK
<1>2. CASE ~tab[s].used
  <2>1. e = [Fresh(s) EXCEPT !.state = {"AUTH_NULL"}, !.lists = {"auth"}]
    BY <1>2, Zenon DEF Reopened
  <2>2. Fresh(s) \in Entry /\ Fresh(s).used /\ Fresh(s).exp = INIT_TO /\ Fresh(s).indel = tab[s].indel
    BY <1>1, NewEntry, Zenon
  <2>3. {"AUTH_NULL"} \in SUBSET Flags
    BY Zenon DEF Flags
  <2>4. e \in Entry
    BY <2>1, <2>2, <2>3, ZenonT(30) DEF Entry
  <2>5. e.used /\ e.indel = tab[s].indel /\ e.lists = {"auth"} /\ e.exp = INIT_TO
    BY <2>1, <2>2, Zenon DEF Entry
  <2> QED
    BY <2>4, <2>5, Zenon
<1>3. CASE tab[s].used /\ seq = 1
  <2>1. e = [Fresh(s) EXCEPT !.lists = {"auth"}]
    BY <1>3, Zenon DEF Reopened
  <2>2. Fresh(s) \in Entry /\ Fresh(s).used /\ Fresh(s).exp = INIT_TO /\ Fresh(s).indel = tab[s].indel
    BY <1>1, NewEntry, Zenon
  <2> QED
    BY <2>1, <2>2, SMTT(30) DEF Entry
<1>4. CASE tab[s].used /\ seq # 1
  <2>1. e = [tab[s] EXCEPT !.lists = (@ \ {"asoc"}) \cup {"auth"}]
    BY <1>4, Zenon DEF Reopened
  <2>2. "delsta" \notin tab[s].lists
    BY <1>1, <1>4, Zenon DEF Leaving, Is, Proper
  <2> QED
    BY <1>1, <1>4, <2>1, <2>2, SMTT(30) DEF Entry
<1> QED
  BY <1>2, <1>3, <1>4, Zenon

\* OnAuth, second half: lists and use are kept, the countdown stays positive.
LEMMA AnsweredEntry ==
  ASSUME NEW e \in Entry, NEW alg \in Algs, NEW seq \in Nat, NEW valid
  PROVE  /\ Answered(e, alg, seq, valid) \in Entry
         /\ Answered(e, alg, seq, valid).used = e.used
         /\ Answered(e, alg, seq, valid).indel = e.indel
         /\ Answered(e, alg, seq, valid).lists = e.lists
         /\ e.exp > 0 => Answered(e, alg, seq, valid).exp > 0
<1> DEFINE t == IF e.seq = 0 THEN [e EXCEPT !.exp = AUTH_TO] ELSE e
           success(was) == [t EXCEPT !.state = (@ \ {was}) \cup {"AUTH_SUCCESS"},
                                     !.exp = ASSOC_TO, !.seq = 0]
           failure == [t EXCEPT !.seq = seq + 1]
           Kept(a) == /\ a \in Entry /\ a.used = e.used /\ a.indel = e.indel /\ a.lists = e.lists
                      /\ e.exp > 0 => a.exp > 0
<1>1. AUTH_TO \in Int /\ ASSOC_TO \in Int /\ AUTH_TO > 0 /\ ASSOC_TO > 0 /\ seq + 1 \in Nat
  BY WlanAssumption, SMTT(30)
<1>2. Kept(t)
  BY <1>1, Zenon DEF Entry
<1>3. Kept(failure)
  BY <1>1, <1>2, Zenon DEF Entry
<1>4. Kept(success("AUTH_NULL")) /\ Kept(success("AUTH_STATE1"))
  <2> HIDE DEF t
  <2> QED
    BY <1>1, <1>2, Zenon DEF Entry, Flags
<1>5. Kept([e EXCEPT !.state = (@ \ {"AUTH_NULL"}) \cup {"AUTH_SUCCESS"}])
  BY Zenon DEF Entry, Flags
<1>6. Kept([t EXCEPT !.state = (@ \ {"AUTH_NULL"}) \cup {"AUTH_STATE1"}, !.seq = 2])
  <2> HIDE DEF t
  <2> QED
    BY <1>2, Zenon DEF Entry, Flags
<1>7. Kept(Answered(e, alg, seq, valid))
  <2> HIDE DEF Kept
  <2> QED
    BY <1>3, <1>4, <1>5, <1>6, Zenon DEF Answered, Algs
<1> QED
  BY <1>7, Zenon

\* Every frame handler preserves the invariant.
LEMMA AirStep == ASSUME IInv, NEW s \in Stas, Air(s) PROVE IInv'
<1>1. /\ TypeOK /\ tab[s] \in Entry /\ Proper(tab[s]) /\ tab[s].exp \in Int
      /\ tab[s].lists \in SUBSET {"auth", "asoc", "delsta"} /\ tab[s].state \in SUBSET Flags
  BY Zenon DEF IInv, TypeOK, Entry
<1> DEFINE Same == \A t \in Stas \ {s} : tab'[t] = tab[t]
<1>2. ASSUME NEW e, Set(s, e) PROVE Same /\ (s \in Live' <=> "asoc" \in e.lists /\ e.exp > 0)
  BY <1>1, <1>2, Zenon DEF TypeOK, Set, Live, On
<1>3. ASSUME ~conf.overlap, conf.del_expire PROVE assoc_num = Cardinality(Live)
  BY <1>3, Zenon DEF IInv, Counting
<1> HIDE DEF Same
<1>4. ASSUME NEW auth \in conf.auths, OnAuthRefused(s, auth[2]) PROVE IInv'
  <2> DEFINE e == [tab[s] EXCEPT !.seq = auth[2] + 1]
  <2>1. Frame /\ Set(s, e) /\ assoc_num' = assoc_num /\ todo' = todo
    BY <1>4, Zenon DEF OnAuthRefused
  <2>2. auth[2] \in Nat
    BY <1>1, WlanAssumption, Zenon DEF TypeOK, Conf
  <2>3. /\ e \in Entry /\ e.lists = tab[s].lists /\ e.used = tab[s].used /\ e.exp = tab[s].exp
        /\ e.state = tab[s].state /\ e.indel = tab[s].indel
    BY <1>1, <2>2, SMTT(30) DEF Entry
  <2> HIDE DEF e
  <2>4. Proper(e) /\ (Lively(tab[s]) => Lively(e)) /\ (Timely(tab[s]) => Timely(e))
    BY <1>1, <2>3, Zenon DEF Proper, Lively, Timely
  <2>5. ASSUME ~conf.overlap, conf.del_expire PROVE assoc_num' = Cardinality(Live')
    <3>1. s \in Live' <=> s \in Live
      BY <1>2, <2>1, <2>3, Zenon DEF Live, On
    <3> QED
      BY <1>1, <1>2, <1>3, <2>1, <2>5, <3>1, Recount, Zenon DEF Same
  <2> QED
    BY <1>1, <2>1, <2>3, <2>4, <2>5, Quiet, FrameStep, Zenon DEF TypeOK, Tidy
<1>5. ASSUME NEW auth \in conf.auths, NEW valid \in BOOLEAN, OnAuth(s, auth[1], auth[2], valid)
      PROVE  IInv'
  <2> DEFINE r == Reopened(s, auth[2])
             e == Answered(r, auth[1], auth[2], valid)
  <2>1. /\ Frame /\ ~Leaving(s) /\ Set(s, e) /\ Uncount(On("asoc", s) /\ tab[s].exp > 0)
        /\ todo' \subseteq todo
    BY <1>5, Zenon DEF OnAuth
  <2>2. auth[1] \in Algs /\ auth[2] \in Nat
    BY <1>1, WlanAssumption, ZenonT(30) DEF TypeOK, Conf
  <2>3. /\ r \in Entry /\ r.used /\ r.indel = tab[s].indel
        /\ "auth" \in r.lists /\ "asoc" \notin r.lists /\ "delsta" \notin r.lists
        /\ r.exp = INIT_TO \/ (tab[s].used /\ r.exp = tab[s].exp)
    BY <2>1, <2>2, ReopenedEntry, Zenon
  <2> HIDE DEF r
  <2>4. /\ e \in Entry /\ e.used = r.used /\ e.indel = r.indel /\ e.lists = r.lists
        /\ r.exp > 0 => e.exp > 0
    BY <2>2, <2>3, AnsweredEntry, ZenonT(30)
  <2> HIDE DEF e
  <2>5. Proper(e) /\ Lively(e) /\ (Timely(tab[s]) => Timely(e))
    BY <2>3, <2>4, WlanAssumption, SMTT(30) DEF Proper, Lively, Timely
  <2>6. s \notin Live' /\ Uncount(s \in Live)
    BY <1>2, <2>1, <2>3, <2>4, SMTT(30) DEF Live, On
  <2>7. assoc_num' \in Int
    BY <1>1, <2>6, SMTT(30) DEF TypeOK, Uncount
  <2>8. ASSUME ~conf.overlap, conf.del_expire PROVE assoc_num' = Cardinality(Live')
    BY <1>1, <1>2, <1>3, <2>1, <2>6, <2>8, Recount, Zenon DEF Same
  <2> QED
    BY <2>1, <2>3, <2>4, <2>5, <2>7, <2>8, Quiet, FrameStep, Zenon DEF Tidy
<1>6. ASSUME OnAssocReqClass2(s) PROVE IInv'
  <2>1. Frame /\ Set(s, NoEntry) /\ assoc_num' = assoc_num /\ todo' \subseteq todo
    BY <1>6, Zenon DEF OnAssocReqClass2
  <2>2. ~On("asoc", s)
    BY <1>1, <1>6, Zenon DEF OnAssocReqClass2, Proper, On, Is
  <2>3. s \notin Live' /\ s \notin Live
    BY <1>1, <1>2, <2>1, <2>2, NewEntry, Zenon DEF Live
  <2>4. ASSUME ~conf.overlap, conf.del_expire PROVE assoc_num' = Cardinality(Live')
    BY <1>1, <1>2, <1>3, <2>1, <2>3, <2>4, Recount, Zenon DEF Same
  <2> QED
    BY <1>1, <2>1, <2>4, NewEntry, FrameStep, Zenon DEF TypeOK
<1>7. ASSUME OnAssocReqRejected(s) PROVE IInv'
  <2> DEFINE e == [tab[s] EXCEPT !.state = @ \cup {"ASOC"}]
  <2>1. Frame /\ Set(s, e) /\ assoc_num' = assoc_num /\ todo' = todo
    BY <1>7, Zenon DEF OnAssocReqRejected
  <2>2. /\ e \in Entry /\ e.lists = tab[s].lists /\ e.used = tab[s].used /\ e.exp = tab[s].exp
        /\ e.state = tab[s].state \cup {"ASOC"} /\ e.indel = tab[s].indel
    BY <1>1, Zenon DEF Entry, Flags
  <2> HIDE DEF e
  <2>3. Proper(e) /\ (Lively(tab[s]) => Lively(e)) /\ (Timely(tab[s]) => Timely(e))
    BY <1>1, <2>2, Zenon DEF Proper, Lively, Timely
  <2>4. ASSUME ~conf.overlap, conf.del_expire PROVE assoc_num' = Cardinality(Live')
    <3>1. s \in Live' <=> s \in Live
      BY <1>2, <2>1, <2>2, Zenon DEF Live, On
    <3> QED
      BY <1>1, <1>2, <1>3, <2>1, <2>4, <3>1, Recount, Zenon DEF Same
  <2> QED
    BY <1>1, <2>1, <2>2, <2>3, <2>4, Quiet, FrameStep, Zenon DEF TypeOK, Tidy
<1>8. ASSUME OnAssocReq(s) PROVE IInv'
  <2> DEFINE e == [tab[s] EXCEPT !.state = @ \cup {"ASOC"}, !.lists = (@ \ {"auth"}) \cup {"asoc"},
                                 !.exp = IF On("asoc", s) THEN @ ELSE EXPIRE_TO]
  <2>1. /\ Frame /\ Set(s, e) /\ Count(~On("asoc", s)) /\ todo' \subseteq todo
        /\ tab[s].used /\ "AUTH_SUCCESS" \in tab[s].state /\ "DELETE" \notin tab[s].state
    BY <1>8, Zenon DEF OnAssocReq, Is
  <2>2. EXPIRE_TO \in Int /\ EXPIRE_TO > 0
    BY WlanAssumption, SMTT(30)
  <2>3. /\ e \in Entry /\ e.lists = (tab[s].lists \ {"auth"}) \cup {"asoc"}
        /\ e.used = tab[s].used /\ e.exp = IF On("asoc", s) THEN tab[s].exp ELSE EXPIRE_TO
        /\ e.state = tab[s].state \cup {"ASOC"} /\ e.indel = tab[s].indel
    BY <1>1, <2>2, Zenon DEF Entry, Flags
  <2> HIDE DEF e
  <2>4. Proper(e) /\ (Lively(tab[s]) => e.exp > 0)
    BY <1>1, <2>1, <2>2, <2>3, ZenonT(30) DEF Proper, Lively, On
  <2>5. assoc_num' \in Int
    BY <1>1, <2>1, SMTT(30) DEF TypeOK, Count
  <2>6. ASSUME ~conf.overlap, conf.del_expire PROVE assoc_num' = Cardinality(Live')
    <3>1. Lively(tab[s]) /\ (On("asoc", s) <=> s \in Live)
      BY <2>1, <2>6, Quiet, Zenon
    <3>2. s \in Live' /\ Count(s \notin Live)
      BY <1>2, <2>1, <2>3, <2>4, <3>1, Zenon
    <3> QED
      BY <1>1, <1>2, <1>3, <2>1, <2>6, <3>2, Recount, Zenon DEF Same
  <2>7. Lively(tab[s]) => Lively(e) /\ Timely(e)
    BY <2>3, <2>4, Zenon DEF Lively, Timely
  <2> QED
    BY <2>1, <2>3, <2>4, <2>5, <2>6, <2>7, Quiet, FrameStep, Zenon DEF Tidy
<1>9. ASSUME OnAssocReqDenied(s) PROVE IInv'
  <2> DEFINE e == [tab[s] EXCEPT !.state = @ \cup {"ASOC"}, !.lists = @ \ {"auth", "asoc"},
                                 !.exp = IF On("asoc", s) THEN @ ELSE EXPIRE_TO]
  <2>1. /\ Frame /\ Set(s, e) /\ Uncount(On("asoc", s)) /\ todo' \subseteq todo
        /\ "DELETE" \notin tab[s].state /\ ~Tidy
    BY <1>9, Zenon DEF OnAssocReqDenied, Is, Tidy
  <2>2. EXPIRE_TO \in Int
    BY WlanAssumption, SMTT(30)
  <2>3. e \in Entry /\ e.lists = tab[s].lists \ {"auth", "asoc"} /\ e.indel = tab[s].indel
    BY <1>1, <2>2, Zenon DEF Entry, Flags
  <2> HIDE DEF e
  <2>4. Proper(e) /\ Lively(e)
    BY <1>1, <2>1, <2>3, Zenon DEF Proper, Lively
  <2>5. assoc_num' \in Int
    BY <1>1, <2>1, SMTT(30) DEF TypeOK, Uncount
  <2>6. ASSUME ~conf.overlap, conf.del_expire PROVE assoc_num' = Cardinality(Live')
    <3>1. On("asoc", s) <=> s \in Live
      BY <2>1, <2>6, Quiet, Zenon
    <3>2. s \notin Live' /\ Uncount(s \in Live)
      BY <1>2, <2>1, <2>3, <3>1, Zenon DEF Uncount
    <3> QED
      BY <1>1, <1>2, <1>3, <2>1, <2>6, <3>2, Recount, Zenon DEF Same
  <2> QED
    BY <2>1, <2>3, <2>4, <2>5, <2>6, Quiet, FrameStep, Zenon
<1>10. ASSUME OnDisassoc(s) PROVE IInv'
  <2> DEFINE e == BackToAuth(s)
  <2>1. Frame /\ Set(s, e) /\ Uncount(On("asoc", s)) /\ todo' \subseteq todo
    BY <1>10, Zenon DEF OnDisassoc
  <2>2. /\ e \in Entry /\ e.indel = tab[s].indel /\ (e.lists = {} \/ e.lists = {"auth"})
        /\ ~tab[s].indel => e.lists = {"auth"} /\ e.exp > 0
    <3>1. CASE tab[s].indel
      BY <1>1, <3>1, NewEntry, Zenon DEF BackToAuth
    <3>2. CASE ~tab[s].indel
      <4>1. e = [Fresh(s) EXCEPT !.state = {"AUTH_SUCCESS"}, !.lists = {"auth"}, !.exp = ASSOC_TO]
        BY <3>2, Zenon DEF BackToAuth
      <4>2. {"AUTH_SUCCESS"} \in SUBSET Flags /\ ASSOC_TO \in Int /\ ASSOC_TO > 0
        BY WlanAssumption, SMTT(30) DEF Flags
      <4>3. Fresh(s) \in Entry /\ Fresh(s).indel = tab[s].indel
        BY <1>1, NewEntry, Zenon
      <4>4. e \in Entry
        BY <4>1, <4>2, <4>3, Zenon DEF Entry
      <4> QED
        BY <4>1, <4>2, <4>3, <4>4, Zenon DEF Entry
    <3> QED
      BY <3>1, <3>2, Zenon
  <2> HIDE DEF e
  <2>3. Proper(e) /\ Lively(e) /\ (~tab[s].indel => Timely(e))
    BY <2>2, Zenon DEF Proper, Lively, Timely
  <2>4. assoc_num' \in Int
    BY <1>1, <2>1, SMTT(30) DEF TypeOK, Uncount
  <2>5. ASSUME ~conf.overlap, conf.del_expire PROVE assoc_num' = Cardinality(Live')
    <3>1. On("asoc", s) <=> s \in Live
      BY <2>1, <2>5, Quiet, Zenon
    <3>2. s \notin Live' /\ Uncount(s \in Live)
      BY <1>2, <2>1, <2>2, <3>1, SMTT(30) DEF Uncount
    <3> QED
      BY <1>1, <1>2, <1>3, <2>1, <2>5, <3>2, Recount, Zenon DEF Same
  <2> QED
    BY <2>1, <2>2, <2>3, <2>4, <2>5, Quiet, FrameStep, Zenon DEF Tidy
<1>11. ASSUME OnDeAuth(s) PROVE IInv'
  <2> DEFINE e == [tab[s] EXCEPT !.lists = (@ \ {"asoc"}) \cup {"delsta"},
                                 !.state = @ \cup {"DELETE"}, !.exp = DELSTATIME]
  <2>1. Frame /\ Set(s, e) /\ Uncount(On("asoc", s)) /\ todo' = todo
    BY <1>11, Zenon DEF OnDeAuth
  <2>2. DELSTATIME \in Int /\ DELSTATIME > 0
    BY WlanAssumption, SMTT(30)
  <2>3. /\ e \in Entry /\ e.lists = (tab[s].lists \ {"asoc"}) \cup {"delsta"}
        /\ e.state = tab[s].state \cup {"DELETE"} /\ e.exp > 0 /\ e.indel = tab[s].indel
    BY <1>1, <2>2, Zenon DEF Entry, Flags
  <2> HIDE DEF e
  <2>4. Proper(e) /\ Lively(e) /\ Timely(e)
    BY <2>3, Zenon DEF Proper, Lively, Timely
  <2>5. assoc_num' \in Int
    BY <1>1, <2>1, SMTT(30) DEF TypeOK, Uncount
  <2>6. ASSUME ~conf.overlap, conf.del_expire PROVE assoc_num' = Cardinality(Live')
    <3>1. On("asoc", s) <=> s \in Live
      BY <2>1, <2>6, Quiet, Zenon
    <3>2. s \notin Live' /\ Uncount(s \in Live)
      BY <1>2, <2>1, <2>3, <3>1, Zenon DEF Uncount
    <3> QED
      BY <1>1, <1>2, <1>3, <2>1, <2>6, <3>2, Recount, Zenon DEF Same
  <2> QED
    BY <2>1, <2>3, <2>4, <2>5, <2>6, Quiet, FrameStep, Zenon
<1>12. ASSUME Traffic(s) PROVE IInv'
  <2> DEFINE e == [tab[s] EXCEPT !.active = TRUE]
  <2>1. Frame /\ Set(s, e) /\ assoc_num' = assoc_num /\ todo' = todo
    BY <1>12, Zenon DEF Traffic
  <2>2. /\ e \in Entry /\ e.lists = tab[s].lists /\ e.used = tab[s].used /\ e.exp = tab[s].exp
        /\ e.state = tab[s].state /\ e.indel = tab[s].indel
    BY <1>1, Zenon DEF Entry
  <2> HIDE DEF e
  <2>3. Proper(e) /\ (Lively(tab[s]) => Lively(e)) /\ (Timely(tab[s]) => Timely(e))
    BY <1>1, <2>2, Zenon DEF Proper, Lively, Timely
  <2>4. ASSUME ~conf.overlap, conf.del_expire PROVE assoc_num' = Cardinality(Live')
    <3>1. s \in Live' <=> s \in Live
      BY <1>2, <2>1, <2>2, Zenon DEF Live, On
    <3> QED
      BY <1>1, <1>2, <1>3, <2>1, <2>4, <3>1, Recount, Zenon DEF Same
  <2> QED
    BY <1>1, <2>1, <2>2, <2>3, <2>4, Quiet, FrameStep, Zenon DEF TypeOK, Tidy
<1> QED
  BY <1>4, <1>5, <1>6, <1>7, <1>8, <1>9, <1>10, <1>11, <1>12, Zenon DEF Air

-----------------------------------------------------------------------------
(* The timer.                                                              *)

\* Where the timer has SMP_LOCK while nothing overlaps.
LEMMA Locked ==
  ASSUME IInv, Ready, ~conf.overlap
  PROVE  /\ dpc = "idle" /\ cur = NoSta
         /\ \A s \in Stas : ~tab[s].indel
         /\ conf.del_expire => /\ assoc_num = Cardinality(Live)
                               /\ \A s \in Stas : Lively(tab[s])
         /\ Tidy => \A s \in Stas : Timely(tab[s]) \/ s \in todo
<1>1. dpc = "idle" /\ cur = NoSta
  BY Zenon DEF Ready
<1>2. Discipline /\ (conf.del_expire => Counting)
  BY Zenon DEF IInv
<1>3. \A s \in Stas : ~tab[s].indel
  BY <1>1, <1>2, Zenon DEF Discipline
<1>4. conf.del_expire => assoc_num = Cardinality(Live) /\ \A s \in Stas : Lively(tab[s])
  BY <1>1, <1>2, WlanAssumption, Zenon DEF Counting
<1>5. Tidy => \A s \in Stas : Timely(tab[s]) \/ s \in todo
  BY <1>1, WlanAssumption, Zenon DEF IInv, EntryIsTimed, Timely
<1> QED
  BY <1>1, <1>3, <1>4, <1>5, Zenon

\* The first loop of delsta_expire and of auth_expire.  No entry on asoc_list
\* is aged, and one whose countdown reaches zero is on local_head.
LEMMA AgedStep ==
  ASSUME IInv, NEW l \in {"delsta", "auth"}, Ready, ~conf.overlap => todo = {},
         tab' = Aged(l), todo' = Due(l), phase' = l, UNCHANGED <<assoc_num, cur>>
  PROVE  IInv'
<1>1. TypeOK /\ UNCHANGED <<dpc, del, conf>>
  BY Zenon DEF IInv, Ready, call
<1>2. ASSUME NEW t \in Stas
      PROVE  /\ tab'[t] \in Entry /\ tab'[t].used = tab[t].used /\ tab'[t].lists = tab[t].lists
             /\ tab'[t].state = tab[t].state /\ tab'[t].indel = tab[t].indel
             /\ tab'[t].exp = IF On(l, t) /\ tab[t].exp >= 0 THEN tab[t].exp - 1 ELSE tab[t].exp
  <2>1. tab[t] \in Entry /\ tab[t].exp \in Int
    BY <1>1, Zenon DEF TypeOK, Entry
  <2>2. tab'[t] = IF On(l, t) /\ tab[t].exp >= 0 THEN [tab[t] EXCEPT !.exp = tab[t].exp - 1]
                  ELSE tab[t]
    BY Zenon DEF Aged
  <2> QED
    BY <2>1, <2>2, SMTT(30) DEF Entry
<1>3. TypeOK'
  <2>1. tab' \in [Stas -> Entry]
    BY <1>2, Zenon DEF Aged
  <2> QED
    BY <1>1, <2>1, Zenon DEF TypeOK, Due
<1>4. \A t \in Stas : Proper(tab[t])'
  BY <1>2, ZenonT(30) DEF IInv, Proper
<1>5. \A t \in Stas : On("asoc", t) => ~On(l, t)
  BY Zenon DEF IInv, Proper, On
<1>6. ASSUME ~conf.overlap PROVE Discipline'
  BY <1>1, <1>2, <1>6, Locked, WlanAssumption, Zenon DEF Discipline, Pass, On, Due
<1>7. ASSUME ~conf.overlap, conf.del_expire PROVE Counting'
  <2>1. Live' = Live
    BY <1>2, <1>5, Zenon DEF Live, On
  <2>2. \A t \in Stas : Lively(tab'[t])
    BY <1>2, <1>5, <1>7, Locked, Zenon DEF Lively, On
  <2>3. cur \notin Live
    BY <1>7, Locked, WlanAssumption, Zenon DEF Live
  <2> QED
    BY <1>7, <2>1, <2>2, <2>3, Locked, Zenon DEF Counting, Lively
<1>8. EntryIsTimed'
  <2> SUFFICES ASSUME Tidy, NEW t \in Stas, tab'[t].used, t \notin todo'
               PROVE  tab'[t].lists # {} /\ tab'[t].exp > 0
    BY <1>1, Zenon DEF EntryIsTimed, Tidy
  <2>1. tab[t].lists # {} /\ tab[t].exp > 0 /\ tab[t].exp \in Int
    BY <1>1, <1>2, Locked, ZenonT(30) DEF Tidy, Timely, TypeOK, Entry
  <2>2. ~(On(l, t) /\ tab[t].exp = 1)
    BY Zenon DEF Due
  <2> QED
    BY <1>2, <2>1, <2>2, SMTT(30)
<1> QED
  BY <1>1, <1>3, <1>4, <1>6, <1>7, <1>8, Zenon DEF IInv

\* One entry changes in a step of the timer or of del_station.
LEMMA OneEntry ==
  ASSUME IInv, NEW s \in Stas, NEW e \in Entry, Set(s, e), Proper(e),
         todo' \subseteq Stas, cur' \in Stas \cup {NoSta}, assoc_num' \in Int,
         phase' \in {"idle", "delsta", "auth", "assoc"},
         dpc' \in {"idle", "found", "delete"}, del' \in Stas \cup {NoSta}, conf' = conf
  PROVE  /\ TypeOK' /\ \A t \in Stas : Proper(tab[t])'
         /\ tab'[s] = e /\ \A t \in Stas \ {s} : tab'[t] = tab[t]
         /\ s \in Live' <=> "asoc" \in e.lists /\ e.exp > 0
         /\ \A t \in Stas \ {s} : t \in Live' <=> t \in Live
<1>1. tab' \in [Stas -> Entry] /\ tab'[s] = e /\ \A t \in Stas \ {s} : tab'[t] = tab[t]
  BY Zenon DEF IInv, TypeOK, Set
<1>2. TypeOK'
  BY <1>1, Zenon DEF IInv, TypeOK
<1>3. \A t \in Stas : Proper(tab[t])'
  BY <1>1, Zenon DEF IInv
<1> QED
  BY <1>1, <1>2, <1>3, Zenon DEF Live, On

\* The second loop of delsta_expire and of auth_expire.
LEMMA ExpireStep == ASSUME IInv, NEW s \in Stas, Expire(s) PROVE IInv'
<1> DEFINE e == [tab[s] EXCEPT !.lists = @ \ {phase}]
<1>1. /\ Ready /\ phase \in {"delsta", "auth"} /\ s \in todo /\ Set(s, e)
      /\ cur' = s /\ todo' = todo \ {s} /\ UNCHANGED <<assoc_num, phase, dpc, del, conf>>
  BY Zenon DEF Expire, Ready, call
<1>2. TypeOK /\ tab[s] \in Entry /\ Proper(tab[s])
  BY Zenon DEF IInv, TypeOK
<1>3. /\ e \in Entry /\ e.lists = tab[s].lists \ {phase} /\ e.used = tab[s].used
      /\ e.state = tab[s].state /\ e.indel = tab[s].indel /\ e.exp = tab[s].exp
  BY <1>2, Zenon DEF Entry
<1> HIDE DEF e
<1>4. Proper(e)
  BY <1>1, <1>2, <1>3, Zenon DEF Proper
<1>5. /\ TypeOK' /\ \A t \in Stas : Proper(tab[t])'
      /\ tab'[s] = e /\ \A t \in Stas \ {s} : tab'[t] = tab[t]
      /\ s \in Live' <=> "asoc" \in e.lists /\ e.exp > 0
  BY <1>1, <1>2, <1>3, <1>4, OneEntry, Zenon DEF TypeOK
<1>6. ASSUME ~conf.overlap PROVE Discipline'
  <2>1. Discipline
    BY <1>6, Zenon DEF IInv
  <2> QED
    BY <1>1, <1>2, <1>3, <1>5, <1>6, <2>1, Locked, Zenon DEF Discipline, Pass, On, TypeOK
<1>7. ASSUME ~conf.overlap, conf.del_expire PROVE Counting'
  <2>1. On(phase, s)
    BY <1>1, <1>7, Zenon DEF IInv, Discipline, Pass
  <2>2. "asoc" \notin tab[s].lists
    BY <1>1, <1>2, <2>1, Zenon DEF Proper, On
  <2>3. s \notin Live' /\ s \notin Live
    BY <1>3, <1>5, <2>2, Zenon DEF Live, On
  <2>4. assoc_num' = Cardinality(Live')
    BY <1>1, <1>2, <1>5, <1>7, <2>3, Locked, Recount, Zenon
  <2>5. \A t \in Stas : Lively(tab'[t]) \/ t = s
    BY <1>1, <1>5, <1>7, Locked, Zenon
  <2> QED
    BY <1>1, <2>3, <2>4, <2>5, Zenon DEF Counting, Lively
<1>8. EntryIsTimed'
  <2>1. cur = NoSta /\ NoSta \notin Stas
    BY <1>1, WlanAssumption, Zenon DEF Ready
  <2> SUFFICES ASSUME Tidy, NEW t \in Stas, tab'[t].used, t # s, t \notin todo
               PROVE  tab'[t].lists # {} /\ tab'[t].exp > 0
    BY <1>1, Zenon DEF EntryIsTimed, Tidy
  <2> QED
    BY <1>5, <2>1, Zenon DEF IInv, EntryIsTimed
<1> QED
  BY <1>1, <1>5, <1>6, <1>7, <1>8, Zenon DEF IInv

\* The visits of assoc_expire.
LEMMA VisitActiveStep == ASSUME IInv, NEW s \in Stas, VisitActive(s) PROVE IInv'
<1> DEFINE e == [tab[s] EXCEPT !.active = FALSE, !.exp = EXPIRE_TO]
<1>1. /\ Ready /\ phase = "assoc" /\ s \in todo /\ Set(s, e) /\ Count(tab[s].exp = 0)
      /\ todo' = todo \ {s} /\ UNCHANGED <<phase, cur, dpc, del, conf>>
  BY Zenon DEF VisitActive, Ready, call
<1>2. TypeOK /\ tab[s] \in Entry /\ Proper(tab[s]) /\ EXPIRE_TO \in Int /\ EXPIRE_TO > 0
  BY WlanAssumption, SMTT(30) DEF IInv, TypeOK
<1>3. /\ e \in Entry /\ e.lists = tab[s].lists /\ e.used = tab[s].used
      /\ e.state = tab[s].state /\ e.indel = tab[s].indel /\ e.exp > 0
  BY <1>2, Zenon DEF Entry
<1> HIDE DEF e
<1>4. Proper(e)
  BY <1>2, <1>3, Zenon DEF Proper
<1>5. assoc_num' \in Int
  BY <1>1, <1>2, SMTT(30) DEF TypeOK, Count
<1>6. /\ TypeOK' /\ \A t \in Stas : Proper(tab[t])'
      /\ tab'[s] = e /\ \A t \in Stas \ {s} : tab'[t] = tab[t]
      /\ s \in Live' <=> "asoc" \in e.lists /\ e.exp > 0
  BY <1>1, <1>2, <1>3, <1>4, <1>5, OneEntry, Zenon DEF TypeOK
<1>7. ASSUME ~conf.overlap PROVE Discipline' /\ On("asoc", s)
  <2>1. Discipline
    BY <1>7, Zenon DEF IInv
  <2> QED
    BY <1>1, <1>2, <1>3, <1>6, <1>7, <2>1, Locked, Zenon DEF Discipline, Pass, On, TypeOK
<1>8. ASSUME ~conf.overlap, conf.del_expire PROVE Counting'
  <2>1. s \in Live /\ s \in Live' /\ tab[s].exp # 0
    BY <1>3, <1>6, <1>7, <1>8, <1>1, Locked, SMTT(30) DEF Live, Lively, On
  <2>2. assoc_num' = assoc_num
    BY <1>1, <2>1, Zenon DEF Count
  <2>3. assoc_num' = Cardinality(Live')
    BY <1>1, <1>2, <1>6, <1>8, <2>1, <2>2, Locked, Recount, Zenon
  <2>4. \A t \in Stas : Lively(tab'[t])
    BY <1>1, <1>3, <1>6, <1>8, Locked, Zenon DEF Lively
  <2>5. cur' \notin Live'
    BY <1>1, <1>8, Locked, WlanAssumption, Zenon DEF Live
  <2> QED
    BY <2>3, <2>4, <2>5, Zenon DEF Counting, Lively
<1>9. EntryIsTimed'
  <2>1. ASSUME Tidy PROVE tab'[s].lists # {} /\ tab'[s].exp > 0
    BY <1>3, <1>6, <1>7, <2>1, Zenon DEF Tidy, On
  <2> QED
    BY <1>1, <1>6, <2>1, Zenon DEF IInv, EntryIsTimed, Tidy
<1> QED
  BY <1>1, <1>6, <1>7, <1>8, <1>9, Zenon DEF IInv

\* A visit of a silent station: the count is lowered as its countdown ends, and
\* the station is freed next or kept as expired.
LEMMA VisitIdleStep == ASSUME IInv, NEW s \in Stas, VisitIdle(s) PROVE IInv'
<1> DEFINE e == [tab[s] EXCEPT !.exp = IF @ > 0 THEN @ - 1 ELSE @]
<1>1. /\ Ready /\ phase = "assoc" /\ s \in todo /\ Set(s, e) /\ Uncount(tab[s].exp = 1)
      /\ cur' = IF tab[s].exp = 1 /\ conf.del_expire THEN s ELSE NoSta
      /\ todo' = todo \ {s} /\ UNCHANGED <<phase, dpc, del, conf>>
  BY Zenon DEF VisitIdle, Ready, call
<1>2. TypeOK /\ tab[s] \in Entry /\ Proper(tab[s]) /\ tab[s].exp \in Int
  BY Zenon DEF IInv, TypeOK, Entry
<1>3. /\ e \in Entry /\ e.lists = tab[s].lists /\ e.used = tab[s].used
      /\ e.state = tab[s].state /\ e.indel = tab[s].indel
      /\ e.exp = IF tab[s].exp > 0 THEN tab[s].exp - 1 ELSE tab[s].exp
  BY <1>2, SMTT(30) DEF Entry
<1> HIDE DEF e
<1>4. Proper(e)
  BY <1>2, <1>3, Zenon DEF Proper
<1>5. assoc_num' \in Int /\ cur' \in Stas \cup {NoSta}
  BY <1>1, <1>2, SMTT(30) DEF TypeOK, Uncount
<1>6. /\ TypeOK' /\ \A t \in Stas : Proper(tab[t])'
      /\ tab'[s] = e /\ \A t \in Stas \ {s} : tab'[t] = tab[t]
      /\ s \in Live' <=> "asoc" \in e.lists /\ e.exp > 0
  BY <1>1, <1>2, <1>3, <1>4, <1>5, OneEntry, Zenon DEF TypeOK
<1>7. ASSUME ~conf.overlap PROVE Discipline' /\ On("asoc", s)
  <2>1. Discipline
    BY <1>7, Zenon DEF IInv
  <2>2. \A t \in todo' : t \in Stas \ {s} /\ cur' # t
    BY <1>1, <1>2, WlanAssumption, Zenon DEF TypeOK
  <2> QED
    BY <1>1, <1>3, <1>6, <1>7, <2>1, <2>2, Locked, Zenon DEF Discipline, Pass, On
<1>8. ASSUME ~conf.overlap, conf.del_expire PROVE Counting' /\ tab[s].exp > 0
  <2>1. s \in Live /\ tab[s].exp > 0
    BY <1>1, <1>7, <1>8, Locked, Zenon DEF Live, Lively, On
  <2>2. s \in Live' <=> tab[s].exp # 1
    BY <1>2, <1>3, <1>6, <1>7, <1>8, <2>1, SMTT(30) DEF On
  <2>3. assoc_num' = Cardinality(Live')
    <3>1. CASE tab[s].exp = 1
      <4>1. Uncount(s \in Live)
        BY <1>1, <2>1, <3>1, Zenon DEF Uncount
      <4> QED
        BY <1>1, <1>2, <1>6, <1>8, <2>2, <3>1, <4>1, Locked, Recount, Zenon
    <3>2. CASE tab[s].exp # 1
      <4>1. assoc_num' = assoc_num
        BY <1>1, <3>2, Zenon DEF Uncount
      <4> QED
        BY <1>1, <1>2, <1>6, <1>8, <2>1, <2>2, <3>2, <4>1, Locked, Recount, Zenon
    <3> QED
      BY <3>1, <3>2, Zenon
  <2>4. \A t \in Stas : Lively(tab'[t]) \/ cur' = t
    BY <1>1, <1>2, <1>3, <1>6, <1>8, <2>1, Locked, SMTT(30) DEF Lively
  <2>5. cur' \notin Live'
    BY <1>1, <2>2, WlanAssumption, Zenon DEF Live
  <2> QED
    BY <2>1, <2>3, <2>4, <2>5, Zenon DEF Counting, Lively
<1>9. EntryIsTimed'
  <2>1. ASSUME Tidy PROVE tab'[s].lists # {} /\ (tab'[s].exp > 0 \/ cur' = s)
    <3>1. "asoc" \in tab[s].lists /\ tab[s].exp > 0 /\ conf.del_expire
      BY <1>7, <1>8, <2>1, Zenon DEF Tidy, On
    <3>2. tab'[s].lists = tab[s].lists /\ tab'[s].exp = tab[s].exp - 1
      BY <1>3, <1>6, <3>1, Zenon
    <3>3. tab[s].exp = 1 => cur' = s
      BY <1>1, <3>1, Zenon
    <3> QED
      BY <1>2, <3>1, <3>2, <3>3, SMTT(30)
  <2>2. cur = NoSta /\ NoSta \notin Stas
    BY <1>1, WlanAssumption, Zenon DEF Ready
  <2> SUFFICES ASSUME Tidy, NEW t \in Stas, tab'[t].used, t # s, t \notin todo
               PROVE  tab'[t].lists # {} /\ tab'[t].exp > 0
    BY <1>1, <2>1, Zenon DEF EntryIsTimed, Tidy
  <2> QED
    BY <1>6, <2>2, Zenon DEF IInv, EntryIsTimed
<1> QED
  BY <1>1, <1>6, <1>7, <1>8, <1>9, Zenon DEF IInv

\* free_stainfo in the timer.  The stations that assoc_expire passes over
\* afterwards are in good order, so nothing is lost by that.
LEMMA FreeStep == ASSUME IInv, FreeStation PROVE IInv'
<1>1. /\ cur # NoSta /\ Set(cur, NoEntry) /\ cur' = NoSta
      /\ todo' \in IF phase = "assoc" THEN Rest ELSE {todo \ {cur}}
      /\ UNCHANGED <<assoc_num, phase, dpc, del, conf>>
  BY Zenon DEF FreeStation, call
<1>2. TypeOK /\ cur \in Stas
  BY <1>1, Zenon DEF IInv, TypeOK
<1>3. /\ NoEntry \in Entry /\ Proper(NoEntry) /\ ~NoEntry.used /\ ~NoEntry.indel
      /\ NoEntry.lists = {}
  BY <1>2, NewEntry, Zenon
<1>4. todo' \subseteq Stas /\ (~conf.overlap => cur \notin todo')
  <2>1. todo \subseteq Stas /\ (~conf.overlap => cur \notin todo)
    BY <1>2, Zenon DEF IInv, TypeOK, Discipline
  <2> QED
    BY <1>1, <2>1, Zenon DEF Rest
<1>5. /\ TypeOK' /\ \A t \in Stas : Proper(tab[t])'
      /\ tab'[cur] = NoEntry /\ \A t \in Stas \ {cur} : tab'[t] = tab[t]
      /\ cur \notin Live'
  BY <1>1, <1>2, <1>3, <1>4, OneEntry, ZenonT(30) DEF TypeOK
<1>6. ASSUME ~conf.overlap
      PROVE  /\ Discipline' /\ dpc = "idle"
             /\ phase = "assoc" => \A t \in todo : On("asoc", t)
             /\ phase # "assoc" => todo' = todo \ {cur}
  <2>1. Discipline
    BY <1>6, Zenon DEF IInv
  <2>2. phase # "idle" /\ dpc = "idle" /\ \A t \in Stas : ~tab[t].indel
    BY <1>1, <2>1, Zenon DEF Discipline
  <2>3. \A t \in todo : On(Pass, t)
    BY <2>1, Zenon DEF Discipline
  <2>4. \A t \in todo' : On(Pass, t)
    BY <1>1, <1>6, <2>3, Zenon DEF Rest, Pass
  <2>5. \A t \in todo' : On(Pass, t)'
    BY <1>1, <1>4, <1>5, <1>6, <2>4, Zenon DEF On, Pass
  <2>6. \A t \in Stas : ~tab'[t].indel
    BY <1>3, <1>5, <2>2, Zenon
  <2> QED
    BY <1>1, <1>4, <1>6, <2>2, <2>3, <2>5, <2>6, WlanAssumption, Zenon DEF Discipline, Pass
<1>7. ASSUME ~conf.overlap, conf.del_expire
      PROVE  Counting' /\ \A t \in Stas \ {cur} : Lively(tab[t])
  <2>1. Counting
    BY <1>7, Zenon DEF IInv
  <2>2. assoc_num' = Cardinality(Live')
    BY <1>1, <1>2, <1>5, <2>1, Recount, Zenon DEF Counting
  <2>3. \A t \in Stas \ {cur} : Lively(tab[t])
    BY <2>1, Zenon DEF Counting
  <2>4. \A t \in Stas : Lively(tab'[t])
    BY <1>3, <1>5, <2>3, Zenon DEF Lively
  <2>5. cur' \notin Live'
    BY <1>1, WlanAssumption, Zenon DEF Live
  <2> QED
    BY <2>2, <2>3, <2>4, <2>5, Zenon DEF Counting, Lively
<1>8. EntryIsTimed'
  <2> SUFFICES ASSUME Tidy, NEW t \in Stas, tab'[t].used, t \notin todo'
               PROVE  tab'[t].lists # {} /\ tab'[t].exp > 0
    BY <1>1, Zenon DEF EntryIsTimed, Tidy
  <2>1. t # cur /\ tab'[t] = tab[t]
    BY <1>3, <1>5, Zenon
  <2>2. (tab[t].lists # {} /\ tab[t].exp > 0) \/ t \in todo
    BY <2>1, Zenon DEF IInv, EntryIsTimed
  <2>3. t \in todo => phase = "assoc" /\ On("asoc", t)
    BY <1>6, <2>1, Zenon DEF Tidy
  <2> QED
    BY <1>7, <2>1, <2>2, <2>3, Zenon DEF Tidy, Lively, On
<1> QED
  BY <1>1, <1>5, <1>6, <1>7, <1>8, Zenon DEF IInv

\* Every step of the timer preserves the invariant.
LEMMA TimerStep == ASSUME IInv, Timer PROVE IInv'
<1>1. CASE TickDelsta
  <2>1. ~conf.overlap => todo = {}
    BY <1>1, Zenon DEF TickDelsta, IInv, Discipline
  <2> QED
    BY <1>1, <2>1, AgedStep, Zenon DEF TickDelsta
<1>2. CASE TickAuth
  BY <1>2, AgedStep, Zenon DEF TickAuth
<1>3. CASE TickAssoc
  <2>1. /\ Ready /\ todo = {} /\ phase' = "assoc" /\ todo' = {s \in Stas : On("asoc", s)}
        /\ UNCHANGED <<tab, assoc_num, cur, dpc, del, conf>>
    BY <1>3, Zenon DEF TickAssoc, Ready, call
  <2>2. TypeOK' /\ Live' = Live
    BY <2>1, Zenon DEF IInv, TypeOK, Live, On
  <2>3. ASSUME ~conf.overlap PROVE Discipline'
    BY <2>1, <2>3, Locked, WlanAssumption, Zenon DEF Discipline, Pass, On
  <2>4. Counting => Counting'
    BY <2>1, <2>2, Zenon DEF Counting
  <2>5. EntryIsTimed'
    BY <2>1, Zenon DEF IInv, EntryIsTimed, Tidy
  <2> QED
    BY <2>1, <2>2, <2>3, <2>4, <2>5, Zenon DEF IInv
<1>4. CASE TickEnd
  <2>1. /\ Ready /\ todo = {} /\ phase' = "idle"
        /\ UNCHANGED <<tab, assoc_num, todo, cur, dpc, del, conf>>
    BY <1>4, Zenon DEF TickEnd, Ready, call
  <2>2. TypeOK' /\ Live' = Live
    BY <2>1, Zenon DEF IInv, TypeOK, Live, On
  <2>3. ASSUME ~conf.overlap PROVE Discipline'
    BY <2>1, <2>3, Locked, Zenon DEF Discipline
  <2>4. Counting => Counting'
    BY <2>1, <2>2, Zenon DEF Counting
  <2>5. EntryIsTimed'
    BY <2>1, Zenon DEF IInv, EntryIsTimed, Tidy
  <2> QED
    BY <2>1, <2>2, <2>3, <2>4, <2>5, Zenon DEF IInv
<1> QED
  BY <1>1, <1>2, <1>3, <1>4, FreeStep, ExpireStep, VisitActiveStep, VisitIdleStep, Zenon DEF Timer

-----------------------------------------------------------------------------
(* del_station.                                                            *)

\* A step of del_station changes one entry; while nothing overlaps the timer
\* is idle then.
LEMMA CallStep ==
  ASSUME IInv, NEW s \in Stas, NEW e \in Entry, Set(s, e), Proper(e),
         ~conf.overlap => phase = "idle", UNCHANGED <<phase, cur, conf>>,
         todo' \subseteq todo, assoc_num' \in Int, dpc' \in {"idle", "found", "delete"},
         del' \in Stas \cup {NoSta}, dpc' # "idle" => del' \in Stas,
         ~conf.overlap => /\ e.indel => dpc' # "idle" /\ del' = s
                          /\ \A t \in Stas \ {s} : ~tab[t].indel,
         Lively(tab[s]) => Lively(e), Timely(tab[s]) => Timely(e),
         ~conf.overlap /\ conf.del_expire => assoc_num' = Cardinality(Live')
  PROVE  IInv'
<1>1. /\ TypeOK' /\ \A t \in Stas : Proper(tab[t])'
      /\ tab'[s] = e /\ \A t \in Stas \ {s} : tab'[t] = tab[t]
  BY OneEntry, Zenon DEF IInv, TypeOK
<1>2. ASSUME ~conf.overlap PROVE phase = "idle" /\ todo = {} /\ todo' = {} /\ cur = NoSta
  BY <1>2, Zenon DEF IInv, Discipline
<1>3. ASSUME ~conf.overlap PROVE Discipline'
  BY <1>1, <1>2, <1>3, Zenon DEF Discipline
<1>4. ASSUME ~conf.overlap, conf.del_expire PROVE Counting'
  <2>1. \A t \in Stas : Lively(tab[t])
    BY <1>2, <1>4, WlanAssumption, Zenon DEF IInv, Counting
  <2>2. \A t \in Stas : Lively(tab'[t])
    BY <1>1, <2>1, Zenon
  <2>3. cur' \notin Live'
    BY <1>2, <1>4, WlanAssumption, Zenon DEF Live
  <2> QED
    BY <1>4, <2>2, <2>3, Zenon DEF Counting, Lively
<1>5. EntryIsTimed'
  <2>1. ASSUME Tidy PROVE \A t \in Stas : Timely(tab[t])
    BY <1>2, <2>1, WlanAssumption, Zenon DEF IInv, EntryIsTimed, Timely, Tidy
  <2>2. ASSUME Tidy PROVE \A t \in Stas : Timely(tab'[t])
    BY <1>1, <2>1, <2>2, Zenon
  <2> QED
    BY <2>2, Zenon DEF EntryIsTimed, Tidy, Timely
<1> QED
  BY <1>1, <1>3, <1>4, <1>5, Zenon DEF IInv

\* get_stainfo finds the station and del_station begins.
LEMMA DelFindStep == ASSUME IInv, NEW s \in Stas, DelFind(s) PROVE IInv'
<1> DEFINE e == [tab[s] EXCEPT !.indel = TRUE]
<1>1. /\ dpc = "idle" /\ (~conf.overlap => phase = "idle") /\ Set(s, e)
      /\ dpc' = "found" /\ del' = s /\ UNCHANGED <<assoc_num, phase, todo, cur, conf>>
  BY Zenon DEF DelFind, timer
<1>2. TypeOK /\ tab[s] \in Entry /\ Proper(tab[s])
  BY Zenon DEF IInv, TypeOK
<1>3. /\ e \in Entry /\ e.lists = tab[s].lists /\ e.used = tab[s].used
      /\ e.state = tab[s].state /\ e.exp = tab[s].exp
  BY <1>2, Zenon DEF Entry
<1> HIDE DEF e
<1>4. Proper(e) /\ (Lively(tab[s]) => Lively(e)) /\ (Timely(tab[s]) => Timely(e))
  BY <1>2, <1>3, Zenon DEF Proper, Lively, Timely
<1>5. Live' = Live
  BY <1>1, <1>2, <1>3, Zenon DEF Live, On, Set, TypeOK
<1>6. ~conf.overlap => \A t \in Stas : ~tab[t].indel
  BY <1>1, Zenon DEF IInv, Discipline
<1> QED
  BY <1>1, <1>2, <1>3, <1>4, <1>5, <1>6, CallStep, Zenon DEF IInv, Counting, TypeOK

\* The rest of the call: the station is spared, or checked and freed.
LEMMA CallEndStep == ASSUME IInv, Call PROVE IInv'
<1>1. /\ dpc # "idle" /\ del \in Stas /\ TypeOK /\ tab[del] \in Entry /\ Proper(tab[del])
  BY Zenon DEF Call, DelSpared, DelChecked, DelStation, IInv, TypeOK
<1>2. ASSUME ~conf.overlap PROVE phase = "idle" /\ \A t \in Stas \ {del} : ~tab[t].indel
  BY <1>1, <1>2, Zenon DEF IInv, Discipline
<1>3. CASE DelSpared
  <2> DEFINE e == [tab[del] EXCEPT !.indel = FALSE]
  <2>1. /\ Set(del, e) /\ dpc' = "idle" /\ del' = NoSta
        /\ UNCHANGED <<assoc_num, phase, todo, cur, conf>>
    BY <1>3, Zenon DEF DelSpared, timer
  <2>2. /\ e \in Entry /\ e.lists = tab[del].lists /\ e.used = tab[del].used
        /\ e.state = tab[del].state /\ e.exp = tab[del].exp /\ ~e.indel
    BY <1>1, Zenon DEF Entry
  <2> HIDE DEF e
  <2>3. Proper(e) /\ (Lively(tab[del]) => Lively(e)) /\ (Timely(tab[del]) => Timely(e))
    BY <1>1, <2>2, Zenon DEF Proper, Lively, Timely
  <2>4. Live' = Live
    BY <1>1, <2>1, <2>2, Zenon DEF Live, On, Set, TypeOK
  <2> QED
    BY <1>1, <1>2, <2>1, <2>2, <2>3, <2>4, CallStep, Zenon DEF IInv, Counting, TypeOK
<1>4. CASE DelChecked
  <2>1. dpc' = "delete" /\ UNCHANGED <<tab, assoc_num, phase, todo, cur, del, conf>>
    BY <1>4, Zenon DEF DelChecked, timer
  <2>2. TypeOK' /\ Live' = Live
    BY <2>1, Zenon DEF IInv, TypeOK, Live, On
  <2>3. Discipline /\ (~conf.overlap => phase = "idle") => Discipline'
    BY <1>1, <2>1, Zenon DEF Discipline, Pass, On
  <2>4. Counting => Counting'
    BY <2>1, <2>2, Zenon DEF Counting
  <2>5. EntryIsTimed'
    BY <2>1, Zenon DEF IInv, EntryIsTimed, Tidy
  <2> QED
    BY <1>1, <1>2, <2>1, <2>2, <2>3, <2>4, <2>5, Zenon DEF IInv
<1>5. CASE DelStation
  <2>1. /\ Set(del, NoEntry) /\ Uncount(On("asoc", del) /\ tab[del].exp > 0)
        /\ todo' \subseteq todo /\ dpc' = "idle" /\ del' = NoSta
        /\ UNCHANGED <<phase, cur, conf>>
    BY <1>5, Zenon DEF DelStation
  <2>2. /\ NoEntry \in Entry /\ Proper(NoEntry) /\ Lively(NoEntry) /\ Timely(NoEntry)
        /\ ~NoEntry.indel /\ NoEntry.lists = {}
    BY <1>1, NewEntry, Zenon
  <2>3. \A t \in Stas \ {del} : tab'[t] = tab[t]
    BY <1>1, <2>1, Zenon DEF Set, TypeOK
  <2>4. del \notin Live' /\ Uncount(del \in Live)
    BY <1>1, <2>1, <2>2, SMTT(30) DEF Live, On, Set, TypeOK
  <2>5. assoc_num' \in Int
    BY <1>1, <2>4, SMTT(30) DEF TypeOK, Uncount
  <2>6. ~conf.overlap /\ conf.del_expire => assoc_num' = Cardinality(Live')
    BY <1>1, <2>3, <2>4, Recount, Zenon DEF IInv, Counting
  <2> QED
    BY <1>1, <1>2, <2>1, <2>2, <2>5, <2>6, CallStep, Zenon
<1> QED
  BY <1>3, <1>4, <1>5, Zenon DEF Call

-----------------------------------------------------------------------------

\* The invariant holds in every state.
LEMMA Invariance == Spec => []IInv
<1>1. IInv /\ [Next]_vars => IInv'
  <2> SUFFICES ASSUME IInv, [Next]_vars PROVE IInv'
    BY Zenon
  <2>1. CASE UNCHANGED vars
    <3>1. UNCHANGED <<tab, assoc_num, phase, todo, cur, dpc, del, conf>>
      BY <2>1, Zenon DEF vars, timer, call
    <3>2. Live' = Live
      BY <3>1, Zenon DEF Live, On
    <3> QED
      BY <3>1, <3>2, Zenon DEF IInv, TypeOK, Discipline, Counting, EntryIsTimed, Tidy, Pass, On
  <2> QED
    BY <2>1, AirStep, DelFindStep, TimerStep, CallEndStep, Zenon DEF Next
<1> QED
  BY <1>1, InitIInv, PTL DEF Spec

\* Whatever overlaps, a station on asoc_list is authenticated, associated and
\* not leaving, and no other pass of the timer ages it.
THEOREM AsocIsAuthenticatedHolds == Spec => []AsocIsAuthenticated
<1>1. IInv => AsocIsAuthenticated
  BY Zenon DEF IInv, Proper, AsocIsAuthenticated, On, Is
<1> QED
  BY <1>1, Invariance, PTL

\* priv->assoc_num is the number of live associations, for any number of
\* stations and whichever way they come and go.
THEOREM AssocNumIsLiveHolds == Spec => []AssocNumIsLive
<1>1. IInv => AssocNumIsLive
  BY Zenon DEF IInv, Counting, AssocNumIsLive
<1> QED
  BY <1>1, Invariance, PTL

\* No stat_info in use is lost to the timer.
THEOREM EntryIsTimedHolds == Spec => []EntryIsTimed
<1>1. IInv => EntryIsTimed
  BY Zenon DEF IInv
<1> QED
  BY <1>1, Invariance, PTL
===========================================================================
