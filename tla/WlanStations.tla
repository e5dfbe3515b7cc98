---------------------------- MODULE WlanStations ----------------------------
(***************************************************************************)
(* The table of stations of an access point interface of the rtl8192cd     *)
(* driver (8192cd_sme.c, 8192cd_cfg80211.c): the frames that authenticate, *)
(* associate and release a station, the one-second timer that ages the     *)
(* entries, and hostapd's del_station call.                                *)
(*                                                                         *)
(* An entry is on up to three lists, each aged by a pass of the timer:     *)
(* auth_list (not associated yet), asoc_list (associated) and delsta_list  *)
(* (the station has said goodbye, hostapd has not).  The frame handlers    *)
(* and the timer run under SMP_LOCK; the timer lets go of it around        *)
(* free_stainfo, and del_station runs in hostapd's context without it.     *)
(* The lists' own operations and {alloc,init,release,free}_stainfo are not *)
(* part of the repository and are modelled from their use.  WDS peers,     *)
(* mesh, fast transition and protected management frames are left out.     *)
(***************************************************************************)
EXTENDS Integers, FiniteSets

CONSTANTS
    Stas,           \* MAC addresses
    NoSta,
    AUTH_TO, ASSOC_TO, EXPIRE_TO,  \* priv->auth_to, assoc_to, expire_to
    DELSTATIME,
    INIT_TO,        \* expire_to of a fresh entry (init_stainfo)
    LIMIT,          \* supportedStaNum
    MaxCount,       \* bound: where assoc_num stops in either direction
    Confs           \* the configurations to consider, see Conf

\* overlap: other contexts run while the timer has let go of SMP_LOCK, and
\* between the steps of del_station.  del_expire: expired stations are
\* deleted (del_expire_station).  deny_legacy: WSC with legacySTADeny.  auths:
\* algorithm and sequence number of the authentication frames that occur.
Algs == {"open", "shared", "sae"}
Conf == [overlap : BOOLEAN, del_expire : BOOLEAN, deny_legacy : BOOLEAN,
         auths : SUBSET (Algs \X Nat)]

ASSUME WlanAssumption ==
    /\ IsFiniteSet(Stas) /\ NoSta \notin Stas /\ Confs \subseteq Conf
    /\ AUTH_TO \in Nat \ {0} /\ ASSOC_TO \in Nat \ {0} /\ EXPIRE_TO \in Nat \ {0}
    /\ DELSTATIME \in Nat \ {0} /\ INIT_TO \in Nat \ {0} /\ LIMIT \in Nat
    /\ MaxCount \in Nat /\ MaxCount >= Cardinality(Stas)

VARIABLES
    tab,            \* per address its stat_info
    assoc_num,      \* priv->assoc_num
    phase, todo, cur,   \* the timer: pass, local_head or stations to visit, station being freed
    dpc, del,       \* del_station: place, station
    conf

timer == <<phase, todo, cur>>
call == <<dpc, del>>
vars == <<tab, assoc_num, timer, call, conf>>

\* An unused slot of aidarray.  indel is in_cfg80211_del_station, active
\* says that packets were counted since the last visit of assoc_expire.
NoEntry == [used |-> FALSE, state |-> {}, lists |-> {}, exp |-> 0, seq |-> 0,
            active |-> FALSE, indel |-> FALSE]

\* release_stainfo and init_stainfo: the entry leaves its lists and starts
\* again; a del_station in progress is not forgotten.
Fresh(s) == [NoEntry EXCEPT !.used = TRUE, !.exp = INIT_TO, !.indel = tab[s].indel]

Init ==
    /\ tab = [s \in Stas |-> NoEntry] /\ assoc_num = 0
    /\ phase = "idle" /\ todo = {} /\ cur = NoSta
    /\ dpc = "idle" /\ del = NoSta
    /\ conf \in Confs

On(l, s) == l \in tab[s].lists
Is(flag, s) == flag \in tab[s].state
Set(s, e) == tab' = [tab EXCEPT ![s] = e]

\* cnt_assoc_num(INCREASE) and cnt_assoc_num(DECREASE), if b
Count(b) == assoc_num' = IF b /\ assoc_num < MaxCount THEN assoc_num + 1 ELSE assoc_num
Uncount(b) == assoc_num' = IF b /\ assoc_num > -MaxCount THEN assoc_num - 1 ELSE assoc_num

\* A handler has SMP_LOCK.
Unlocked ==
    IF conf.overlap THEN phase = "idle" \/ cur # NoSta
                    ELSE phase = "idle" /\ dpc = "idle"
Frame == Unlocked /\ UNCHANGED <<phase, cur, call, conf>>

-----------------------------------------------------------------------------
(* Frames of a station.                                                    *)

\* The driver has not finished with the station's last goodbye.
Leaving(s) == tab[s].used /\ (Is("DELETE", s) \/ tab[s].state = {})

\* Mutant: an existing association is not closed.
MutReopened(s, seq) ==
    IF ~tab[s].used THEN [Fresh(s) EXCEPT !.state = {"AUTH_NULL"}, !.lists = {"auth"}]
    ELSE IF seq = 1 THEN [Fresh(s) EXCEPT !.lists = {"auth"}]
    ELSE [tab[s] EXCEPT !.lists = @ \cup {"auth"}]

\* The entry with which OnAuth begins: a new one, or the old one taken off
\* asoc_list and, for the first frame of a sequence, started again.
Reopened(s, seq) ==
    IF ~tab[s].used THEN [Fresh(s) EXCEPT !.state = {"AUTH_NULL"}, !.lists = {"auth"}]
    ELSE IF seq = 1 THEN [Fresh(s) EXCEPT !.lists = {"auth"}]
    ELSE [tab[s] EXCEPT !.lists = (@ \ {"asoc"}) \cup {"auth"}]

\* The entry with which OnAuth ends; valid says that the challenge of a
\* shared key is answered.  An SAE frame is handed to hostapd as it is.
Answered(e, alg, seq, valid) ==
    LET t == IF e.seq = 0 THEN [e EXCEPT !.exp = AUTH_TO] ELSE e
        success(was) == [t EXCEPT !.state = (@ \ {was}) \cup {"AUTH_SUCCESS"},
                                  !.exp = ASSOC_TO, !.seq = 0]
        failure == [t EXCEPT !.seq = seq + 1]
    IN  CASE alg = "sae" -> [e EXCEPT !.state = (@ \ {"AUTH_NULL"}) \cup {"AUTH_SUCCESS"}]
          [] alg # "sae" /\ t.seq + 1 # seq -> failure
          [] alg = "open" /\ t.seq + 1 = seq -> IF seq = 1 THEN success("AUTH_NULL") ELSE failure
          [] alg = "shared" /\ t.seq + 1 = seq ->
               IF seq = 1 THEN [t EXCEPT !.state = (@ \ {"AUTH_NULL"}) \cup {"AUTH_STATE1"}, !.seq = 2]
               ELSE IF seq = 3 /\ valid THEN success("AUTH_STATE1") ELSE failure

\* OnAuth, for a station that the limit and the pool of entries let in
OnAuth(s, alg, seq, valid) ==
    /\ Frame /\ ~Leaving(s)
    /\ tab[s].used \/ LIMIT = 0 \/ assoc_num < LIMIT
    /\ Set(s, Answered(Reopened(s, seq), alg, seq, valid))
    /\ Uncount(On("asoc", s) /\ tab[s].exp > 0)
    /\ todo' = IF seq = 1 THEN todo \ {s} ELSE todo

\* OnAuth refuses the algorithm or cannot decrypt the frame of a station it
\* knows: only the sequence number of the answer is kept.
OnAuthRefused(s, seq) ==
    /\ Frame /\ tab[s].used /\ ~Leaving(s)
    /\ Set(s, [tab[s] EXCEPT !.seq = seq + 1])
    /\ UNCHANGED <<assoc_num, todo>>

\* A request of a station that is not authenticated, or is leaving:
\* asoc_class2_error frees its entry.
OnAssocReqClass2(s) ==
    /\ Frame /\ tab[s].used /\ (~Is("AUTH_SUCCESS", s) \/ Is("DELETE", s))
    /\ Set(s, NoEntry) /\ todo' = todo \ {s}
    /\ UNCHANGED assoc_num

\* The request passes OnAssocReq's checks up to the first that follows
\* state |= WIFI_ASOC_STATE, and fails there.
OnAssocReqRejected(s) ==
    /\ Frame /\ tab[s].used /\ Is("AUTH_SUCCESS", s) /\ ~Is("DELETE", s)
    /\ Set(s, [tab[s] EXCEPT !.state = @ \cup {"ASOC"}])
    /\ UNCHANGED <<assoc_num, todo>>

\* Mutant: a station that associates again is counted again.
MutOnAssocReq(s) ==
    /\ Frame /\ tab[s].used /\ Is("AUTH_SUCCESS", s) /\ ~Is("DELETE", s)
    /\ Set(s, [tab[s] EXCEPT !.state = @ \cup {"ASOC"}, !.lists = (@ \ {"auth"}) \cup {"asoc"},
                             !.exp = IF On("asoc", s) THEN @ ELSE EXPIRE_TO])
    /\ Count(TRUE)
    /\ todo' = todo \ {s}

\* auth_list_del, asoc_list_add and what a newly listed station is given.  A
\* failure behind this point is answered but changes nothing any more.
OnAssocReq(s) ==
    /\ Frame /\ tab[s].used /\ Is("AUTH_SUCCESS", s) /\ ~Is("DELETE", s)
    /\ Set(s, [tab[s] EXCEPT !.state = @ \cup {"ASOC"}, !.lists = (@ \ {"auth"}) \cup {"asoc"},
                             !.exp = IF On("asoc", s) THEN @ ELSE EXPIRE_TO])
    /\ Count(~On("asoc", s))
    /\ todo' = todo \ {s}

\* A legacy station that WSC denies is taken off asoc_list again.
OnAssocReqDenied(s) ==
    /\ Frame /\ tab[s].used /\ Is("AUTH_SUCCESS", s) /\ ~Is("DELETE", s)
    /\ conf.deny_legacy
    /\ Set(s, [tab[s] EXCEPT !.state = @ \cup {"ASOC"}, !.lists = @ \ {"auth", "asoc"},
                             !.exp = IF On("asoc", s) THEN @ ELSE EXPIRE_TO])
    /\ Uncount(On("asoc", s))
    /\ todo' = todo \ {s}

\* Mutant: the station is not put back on auth_list.
MutBackToAuth(s) ==
    IF tab[s].indel THEN Fresh(s)
    ELSE [Fresh(s) EXCEPT !.state = {"AUTH_SUCCESS"}, !.exp = ASSOC_TO]

\* The station falls back to authenticated, unless hostapd is deleting it.
BackToAuth(s) ==
    IF tab[s].indel THEN Fresh(s)
    ELSE [Fresh(s) EXCEPT !.state = {"AUTH_SUCCESS"}, !.lists = {"auth"}, !.exp = ASSOC_TO]

\* expire_to is DELSTATIME by the time that the association is taken out of
\* the count, so the test of expire_to there is always true.
OnDisassoc(s) ==
    /\ Frame /\ tab[s].used /\ ~Leaving(s)
    /\ Set(s, BackToAuth(s))
    /\ Uncount(On("asoc", s))
    /\ todo' = todo \ {s}

\* Mutant: a repeated deauthentication frame starts the countdown again.
MutOnDeAuth(s) ==
    /\ Frame /\ tab[s].used /\ tab[s].state # {}
    /\ Set(s, [tab[s] EXCEPT !.lists = (@ \ {"asoc"}) \cup {"delsta"},
                             !.state = @ \cup {"DELETE"}, !.exp = DELSTATIME])
    /\ Uncount(On("asoc", s))
    /\ UNCHANGED todo

\* As above for expire_to; the entry is left to hostapd or to delsta_expire.
OnDeAuth(s) ==
    /\ Frame /\ tab[s].used /\ ~Leaving(s)
    /\ Set(s, [tab[s] EXCEPT !.lists = (@ \ {"asoc"}) \cup {"delsta"},
                             !.state = @ \cup {"DELETE"}, !.exp = DELSTATIME])
    /\ Uncount(On("asoc", s))
    /\ UNCHANGED todo

\* Packets of an associated station are counted.
Traffic(s) ==
    /\ Frame /\ ~tab[s].active /\ On("asoc", s)
    /\ Set(s, [tab[s] EXCEPT !.active = TRUE])
    /\ UNCHANGED <<assoc_num, todo>>

-----------------------------------------------------------------------------
(* The timer.                                                              *)

Ready == (conf.overlap \/ dpc = "idle") /\ cur = NoSta
         /\ UNCHANGED <<call, conf>>

\* expire_to-- of every entry of a list; -1 stands for all values below zero.
Aged(l) == [s \in Stas |-> IF On(l, s) /\ tab[s].exp >= 0 THEN [tab[s] EXCEPT !.exp = @ - 1]
                           ELSE tab[s]]
Due(l) == {s \in Stas : On(l, s) /\ tab[s].exp = 1}

\* delsta_expire, first loop
TickDelsta ==
    /\ Ready /\ phase = "idle"
    /\ tab' = Aged("delsta") /\ todo' = Due("delsta") /\ phase' = "delsta"
    /\ UNCHANGED <<assoc_num, cur>>

\* auth_expire, first loop
TickAuth ==
    /\ Ready /\ phase = "delsta" /\ todo = {}
    /\ tab' = Aged("auth") /\ todo' = Due("auth") /\ phase' = "auth"
    /\ UNCHANGED <<assoc_num, cur>>

\* The second loop of either: a station comes off local_head, then SMP_LOCK
\* is released around free_stainfo.
Expire(s) ==
    /\ Ready /\ phase \in {"delsta", "auth"} /\ s \in todo
    /\ Set(s, [tab[s] EXCEPT !.lists = @ \ {phase}])
    /\ cur' = s /\ todo' = todo \ {s}
    /\ UNCHANGED <<assoc_num, phase>>

\* assoc_expire
TickAssoc ==
    /\ Ready /\ phase = "auth" /\ todo = {}
    /\ todo' = {s \in Stas : On("asoc", s)} /\ phase' = "assoc"
    /\ UNCHANGED <<tab, assoc_num, cur>>

\* A station with packets since the last visit; one that had expired is
\* counted again.
VisitActive(s) ==
    /\ Ready /\ phase = "assoc" /\ s \in todo /\ tab[s].active
    /\ Set(s, [tab[s] EXCEPT !.active = FALSE, !.exp = EXPIRE_TO])
    /\ Count(tab[s].exp = 0)
    /\ todo' = todo \ {s}
    /\ UNCHANGED <<phase, cur>>

\* An idle station; when it expires it is not counted any more and, where
\* configured, freed with SMP_LOCK released.
VisitIdle(s) ==
    /\ Ready /\ phase = "assoc" /\ s \in todo /\ ~tab[s].active
    /\ Set(s, [tab[s] EXCEPT !.exp = IF @ > 0 THEN @ - 1 ELSE @])
    /\ Uncount(tab[s].exp = 1)
    /\ cur' = IF tab[s].exp = 1 /\ conf.del_expire THEN s ELSE NoSta
    /\ todo' = todo \ {s}
    /\ UNCHANGED phase

\* What the loop of assoc_expire has still to visit once a station is freed.
\* It goes on behind the freed station's successor, which is thus passed over;
\* if the freed station was the last one it starts from the head again.  The
\* order of the list is left open; the successor may have moved meanwhile.
Rest ==
    LET listed == {s \in Stas \ {cur} : On("asoc", s)}
    IN  IF conf.overlap THEN SUBSET listed
        ELSE IF todo = {} THEN {listed}
        ELSE {todo \ {s} : s \in todo}

\* free_stainfo, and SMP_LOCK again
FreeStation ==
    /\ cur # NoSta
    /\ Set(cur, NoEntry)
    /\ todo' \in IF phase = "assoc" THEN Rest ELSE {todo \ {cur}}
    /\ cur' = NoSta
    /\ UNCHANGED <<assoc_num, phase, call, conf>>

TickEnd ==
    /\ Ready /\ phase = "assoc" /\ todo = {}
    /\ phase' = "idle"
    /\ UNCHANGED <<tab, assoc_num, todo, cur>>

-----------------------------------------------------------------------------
(* hostapd calls del_station.                                              *)

\* get_stainfo finds the station.
DelFind(s) ==
    /\ dpc = "idle" /\ tab[s].used /\ (conf.overlap \/ phase = "idle")
    /\ Set(s, [tab[s] EXCEPT !.indel = TRUE])
    /\ dpc' = "found" /\ del' = s
    /\ UNCHANGED <<assoc_num, timer, conf>>

\* A station that fell back to authenticated is not deleted.
DelSpared ==
    /\ dpc = "found" /\ ~On("asoc", del) /\ ~Is("DELETE", del)
    /\ Set(del, [tab[del] EXCEPT !.indel = FALSE])
    /\ dpc' = "idle" /\ del' = NoSta
    /\ UNCHANGED <<assoc_num, timer, conf>>

DelChecked ==
    /\ dpc = "found" /\ (On("asoc", del) \/ Is("DELETE", del))
    /\ dpc' = "delete"
    /\ UNCHANGED <<tab, assoc_num, timer, del, conf>>

\* realtek_del_station; the deauthentication frame it may send first does not
\* matter here.
DelStation ==
    /\ dpc = "delete"
    /\ Set(del, NoEntry)
    /\ Uncount(On("asoc", del) /\ tab[del].exp > 0)
    /\ todo' = todo \ {del}
    /\ dpc' = "idle" /\ del' = NoSta
    /\ UNCHANGED <<phase, cur, conf>>

-----------------------------------------------------------------------------
Air(s) ==
    \/ \E auth \in conf.auths :
         \/ OnAuthRefused(s, auth[2])
         \/ \E valid \in BOOLEAN : OnAuth(s, auth[1], auth[2], valid)
    \/ OnAssocReqClass2(s) \/ OnAssocReqRejected(s) \/ OnAssocReq(s) \/ OnAssocReqDenied(s)
    \/ OnDisassoc(s) \/ OnDeAuth(s)
    \/ Traffic(s)

Timer ==
    \/ TickDelsta \/ TickAuth \/ TickAssoc \/ TickEnd \/ FreeStation
    \/ \E s \in Stas : Expire(s) \/ VisitActive(s) \/ VisitIdle(s)

Call == DelSpared \/ DelChecked \/ DelStation

Next == (\E s \in Stas : Air(s) \/ DelFind(s)) \/ Timer \/ Call

Spec == Init /\ [][Next]_vars

\* The timer is armed again for every second, however often hostapd calls
\* del_station, and a call that has begun ends.  Nothing is assumed of the
\* stations and of hostapd.
FairSpec == Spec /\ SF_vars(Timer) /\ WF_vars(Call)

-----------------------------------------------------------------------------
(* Properties.                                                             *)

Flags == {"AUTH_NULL", "AUTH_STATE1", "AUTH_SUCCESS", "ASOC", "DELETE"}
Entry == [used : BOOLEAN, state : SUBSET Flags, lists : SUBSET {"auth", "asoc", "delsta"},
          exp : Int, seq : Nat, active : BOOLEAN, indel : BOOLEAN]

\* Every variable keeps its type.
TypeOK ==
    /\ tab \in [Stas -> Entry] /\ assoc_num \in Int
    /\ phase \in {"idle", "delsta", "auth", "assoc"} /\ todo \subseteq Stas
    /\ cur \in Stas \cup {NoSta} /\ del \in Stas \cup {NoSta}
    /\ dpc \in {"idle", "found", "delete"}
    /\ conf \in Confs

\* Whatever overlaps, a station on asoc_list is authenticated and associated,
\* is not on its way out and is aged by no other pass of the timer.
AsocIsAuthenticated ==
    \A s \in Stas : On("asoc", s) =>
        /\ tab[s].used /\ tab[s].lists = {"asoc"}
        /\ {"AUTH_SUCCESS", "ASOC"} \subseteq tab[s].state /\ ~Is("DELETE", s)

\* assoc_num, by which OnAuth admits stations, is the number of associated
\* stations that have not expired, where expired stations are deleted and
\* contexts do not overlap.
Live == {s \in Stas : On("asoc", s) /\ tab[s].exp > 0}
AssocNumIsLive ==
    conf.del_expire /\ ~conf.overlap => assoc_num = Cardinality(Live)

\* No entry is forgotten: one that is in use is on a list that the timer
\* ages, and its countdown has not passed zero unseen (the passes test for
\* zero after the decrement), or the timer is about to free it.  This needs
\* that contexts do not overlap, that WSC does not deny legacy stations and
\* that expired stations are deleted.
Tidy == ~conf.overlap /\ ~conf.deny_legacy /\ conf.del_expire
EntryIsTimed ==
    Tidy => \A s \in Stas : tab[s].used =>
                \/ tab[s].lists # {} /\ tab[s].exp > 0
                \/ s \in todo \/ cur = s

\* A station that said goodbye with a deauthentication frame is freed, with
\* or without hostapd, whatever it and others send and whatever overlaps.
DeletionCompletes == \A s \in Stas : Is("DELETE", s) ~> ~Is("DELETE", s)
=============================================================================
