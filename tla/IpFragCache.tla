---------------------------- MODULE IpFragCache ----------------------------
(***************************************************************************)
(* The IPv4 fragment cache of the flow cache (rtk_fc_internal.c, the       *)
(* rtk_fc_ipFrag_cache functions).  Only the first fragment of a UDP       *)
(* datagram carries the ports.  An entry, taken from a free list and       *)
(* hashed by (source, destination, IP id, protocol), remembers them for    *)
(* the fragments that follow.  It is released when the data lengths of the *)
(* fragments add up to the datagram, when the shortcut refuses the flow,   *)
(* or by its timer.                                                        *)
(*                                                                         *)
(* List and entry updates run under the global spin lock, so each is one   *)
(* step; the timer callback tests `valid' before it takes that lock, so it *)
(* is three.  A packet is handled in several critical sections, and the    *)
(* packets of different CPUs interleave between them.                      *)
(*                                                                         *)
(* A datagram stands for its own key and for its own pair of ports; 0 is   *)
(* the cleared key.  No fragment is duplicated, and a key is used again    *)
(* only once no entry holds it.                                            *)
(***************************************************************************)
EXTENDS Naturals, Sequences, FiniteSets, Functions

CONSTANTS
  Entries,     \* ipFragList[]
  Datagrams,   \* keys in use, none of them 0
  Cpus,        \* packet contexts
  Buckets,     \* indices of ipFrag_hashListHead[]
  Hash,        \* rtk_fc_ipFrag_hashFunc: key -> bucket
  Size,        \* datagram -> data length of each of its fragments
  Lost         \* fragments that never arrive

\* ipFragList[] is an array.
ASSUME Bounded == IsFiniteSet(Entries)

ASSUME Sized == \A d \in Datagrams :
                  d # 0 /\ Size[d] \in Seq(Nat \ {0}) /\ Size[d] # << >>

VARIABLES
  free,        \* ipFrag_freeListHead
  chain,       \* ipFrag_hashListHead[]
  entry,       \* each entry's valid flag, key and ports
  data,        \* each entry's rcv_, total_ and tmp_data_len
  pending,     \* timer_pending of each entry's timer
  cb,          \* progress of each entry's timer callback
  pkt,         \* the packet each CPU handles
  todo,        \* fragments still to arrive
  seen         \* ghost: fragments an entry was found for, or added by

vars == <<free, chain, entry, data, pending, cb, pkt, todo, seen>>

Keys == Datagrams \cup {0}

Cleared == [valid |-> FALSE, key |-> 0, port |-> 0]

NoData == [rcv |-> 0, total |-> 0, tmp |-> 0]

Idle == [pc |-> "idle", d |-> 0, key |-> 0, port |-> 0]

\* The fragments of d that arrive.
Fragments(d) == ({d} \X (DOMAIN Size[d])) \ Lost

Total(d) == SumFunction(Size[d])

\* A sum of lengths is a length; only induction over Size[d] would show it.
ASSUME Summed == \A d \in Datagrams : Total(d) \in Nat

Init ==
  /\ free = CHOOSE s \in [1..Cardinality(Entries) -> Entries] : IsInjective(s)
  /\ chain = [b \in Buckets |-> << >>]
  /\ entry = [e \in Entries |-> Cleared]
  /\ data = [e \in Entries |-> NoData]
  /\ pending = [e \in Entries |-> FALSE]
  /\ cb = [e \in Entries |-> "idle"]
  /\ pkt = [c \in Cpus |-> Idle]
  /\ todo = UNION {Fragments(d) : d \in Datagrams}
  /\ seen = [e \in Entries |-> {}]

-----------------------------------------------------------------------------
\* list_del_init on an entry, seen from the list it may be on

\* Mutant: the entry is put on a list without being taken off the other.
MutUnlinked(list, e) == list

Unlinked(list, e) ==
  IF \E i \in DOMAIN list : list[i] = e
  THEN LET i == CHOOSE i \in DOMAIN list : list[i] = e
       IN  SubSeq(list, 1, i - 1) \o SubSeq(list, i + 1, Len(list))
  ELSE list

\* Mutant: the entry's key is not compared, only its bucket.
MutMatches(e, key) == TRUE

\* FRAG_INFO_MATCH
Matches(e, key) == entry[e].key = key

\* The entry the walk of key's chain stops at.
IsHit(e, key) ==
  LET list == chain[Hash[key]]
  IN  \E i \in DOMAIN list : /\ list[i] = e /\ Matches(e, key)
                             /\ \A j \in 1..(i-1) : ~Matches(list[j], key)

IsMiss(key) == \A i \in DOMAIN chain[Hash[key]] : ~Matches(chain[Hash[key]][i], key)

\* Mutant: the received length survives in the freed entry.
MutReset(e) == [NoData EXCEPT !.rcv = data[e].rcv]

Reset(e) == NoData

\* rtk_fc_ipFrag_cache_free, on an entry of either kind of list
CacheFree(e) ==
  /\ entry' = [entry EXCEPT ![e] = Cleared]
  /\ data' = [data EXCEPT ![e] = Reset(e)]
  /\ chain' = [b \in Buckets |-> Unlinked(chain[b], e)]
  /\ free' = Append(Unlinked(free, e), e)
  /\ seen' = [seen EXCEPT ![e] = {}]

\* rtk_fc_ipFrag_cache_del: timer_delete does not wait for a running callback.
CacheDel(e) == pending' = [pending EXCEPT ![e] = FALSE] /\ CacheFree(e)

-----------------------------------------------------------------------------
\* The packet path

Handle(c, pc, key, port) ==
  pkt' = [pkt EXCEPT ![c].pc = pc, ![c].key = key, ![c].port = port]

\* rtk_fc_ipFrag_cache_find: fragment f of datagram d arrives at CPU c.
FindHit(c, d, f, e) ==
  /\ pkt[c].pc = "idle" /\ <<d, f>> \in todo /\ IsHit(e, d)
  /\ todo' = todo \ {<<d, f>>}
  /\ pkt' = [pkt EXCEPT ![c] = [pc |-> "cached", d |-> d, key |-> d, port |-> entry[e].port]]
  /\ data' = [data EXCEPT ![e].total = IF f = 1 THEN Total(d) ELSE @, ![e].tmp = Size[d][f]]
  /\ seen' = [seen EXCEPT ![e] = @ \cup {f}]
  /\ UNCHANGED <<free, chain, entry, pending, cb>>

FindMiss(c, d, f) ==
  /\ pkt[c].pc = "idle" /\ <<d, f>> \in todo /\ IsMiss(d)
  /\ todo' = todo \ {<<d, f>>}
  /\ pkt' = [pkt EXCEPT ![c] = [pc |-> IF f = 1 THEN "add" ELSE "cached", d |-> d,
                                key |-> 0, port |-> 0]]
  /\ UNCHANGED <<free, chain, entry, data, pending, cb, seen>>

\* Mutant: the timer is armed first and then deleted, because it is pending.
MutStartTimer(e) == pending' = [pending EXCEPT ![e] = FALSE]

\* rtk_fc_ipFrag_cache_add: delete a pending timer, then arm it
StartTimer(e) == pending' = [pending EXCEPT ![e] = TRUE]

\* rtk_fc_ipFrag_cache_add by a first fragment
Add(c, e) ==
  /\ pkt[c].pc = "add" /\ free # << >> /\ e = Head(free)
  /\ entry' = [entry EXCEPT ![e] = [valid |-> TRUE, key |-> pkt[c].d, port |-> pkt[c].d]]
  /\ data' = [data EXCEPT ![e].total = Total(pkt[c].d), ![e].tmp = Size[pkt[c].d][1]]
  /\ Handle(c, "cached", pkt[c].d, 0)
  /\ free' = Unlinked(free, e)
  /\ chain' = [chain EXCEPT ![Hash[pkt[c].d]] = Append(@, e)]
  /\ StartTimer(e)
  /\ seen' = [seen EXCEPT ![e] = {1}]
  /\ UNCHANGED <<cb, todo>>

AddFull(c) ==
  /\ pkt[c].pc = "add" /\ free = << >>
  /\ Handle(c, "cached", 0, 0)
  /\ UNCHANGED <<free, chain, entry, data, pending, cb, todo, seen>>

Done(c) == pkt' = [pkt EXCEPT ![c] = Idle]

Complete(e) == data[e].total # 0 /\ data[e].total = data[e].rcv + data[e].tmp

\* rtk_fc_ipfrag_ingress_del_cache: count the fragment, release on the last one
Count(c, e) ==
  /\ pkt[c].pc = "cached" /\ IsHit(e, pkt[c].key) /\ ~Complete(e)
  /\ data' = [data EXCEPT ![e].rcv = @ + data[e].tmp, ![e].tmp = 0]
  /\ Done(c)
  /\ UNCHANGED <<free, chain, entry, pending, cb, todo, seen>>

CountLast(c, e) ==
  /\ pkt[c].pc = "cached" /\ IsHit(e, pkt[c].key) /\ Complete(e)
  /\ CacheDel(e) /\ Done(c)
  /\ UNCHANGED <<cb, todo>>

\* The shortcut fails the MTU check or finds no flow, and drops the entry.
ShortcutDel(c, e) ==
  /\ pkt[c].pc = "cached" /\ IsHit(e, pkt[c].key)
  /\ CacheDel(e) /\ Done(c)
  /\ UNCHANGED <<cb, todo>>

\* No entry matches any more, or the packet leaves to the protocol stack
\* before either of the above.
Leave(c) ==
  /\ pkt[c].pc = "cached" /\ Done(c)
  /\ UNCHANGED <<free, chain, entry, data, pending, cb, todo, seen>>

\* The sender uses the key again, when no fragment and no entry has it.
Reuse(d) ==
  /\ todo \cap Fragments(d) = {} /\ \A e \in Entries : entry[e].key # d
  /\ \A c \in Cpus : pkt[c].d # d
  /\ todo' = todo \cup Fragments(d)
  /\ UNCHANGED <<free, chain, entry, data, pending, cb, pkt, seen>>

-----------------------------------------------------------------------------
\* The timer: rtk_fc_ipFrag_cache_timeout

\* The timer core runs the callback of a timer on one CPU at a time.
Expire(e) ==
  /\ pending[e] /\ cb[e] = "idle"
  /\ pending' = [pending EXCEPT ![e] = FALSE]
  /\ cb' = [cb EXCEPT ![e] = "start"]
  /\ UNCHANGED <<free, chain, entry, data, pkt, todo, seen>>

\* `valid' is read without the lock ...
CheckValid(e) ==
  /\ cb[e] = "start"
  /\ cb' = [cb EXCEPT ![e] = IF entry[e].valid THEN "checked" ELSE "idle"]
  /\ UNCHANGED <<free, chain, entry, data, pending, pkt, todo, seen>>

\* ... and not read again under it.
TimeoutFree(e) ==
  /\ cb[e] = "checked"
  /\ CacheFree(e)
  /\ cb' = [cb EXCEPT ![e] = "idle"]
  /\ UNCHANGED <<pending, pkt, todo>>

Timer(e) == Expire(e) \/ CheckValid(e) \/ TimeoutFree(e)

Packet(c) ==
  \/ \E d \in Datagrams : \E f \in DOMAIN Size[d] :
       FindMiss(c, d, f) \/ \E e \in Entries : FindHit(c, d, f, e)
  \/ \E e \in Entries : Add(c, e) \/ Count(c, e) \/ CountLast(c, e) \/ ShortcutDel(c, e)
  \/ AddFull(c)
  \/ Leave(c)

Next ==
  \/ \E c \in Cpus : Packet(c)
  \/ \E d \in Datagrams : Reuse(d)
  \/ \E e \in Entries : Timer(e)

Spec == Init /\ [][Next]_vars

\* An armed timer expires and its callback finishes; packets need not come.
FairSpec == Spec /\ \A e \in Entries : WF_vars(Timer(e))

-----------------------------------------------------------------------------
\* Every variable keeps its type; the free list never outgrows ipFragList[].
TypeOK ==
  /\ free \in Seq(Entries) /\ Len(free) <= Cardinality(Entries)
  /\ \A b \in Buckets : chain[b] \in Seq(Entries)
  /\ entry \in [Entries -> [valid : BOOLEAN, key : Keys, port : Keys]]
  /\ data \in [Entries -> [rcv : Nat, total : Nat, tmp : Nat]]
  /\ pending \in [Entries -> BOOLEAN]
  /\ cb \in [Entries -> {"idle", "start", "checked"}]
  /\ pkt \in [Cpus -> [pc : {"idle", "add", "cached"}, d : Keys, key : Keys, port : Keys]]
  /\ todo \subseteq UNION {Fragments(d) : d \in Datagrams}

\* Every entry is on exactly one list, once: on the chain of its key's bucket
\* when it is valid, on the free list when not.  A callback that read `valid'
\* before another CPU released the entry releases it again, or releases its
\* next user's; rtk_fc_ipFrag_cache_free must keep the lists whole even so.
ListsAreWhole ==
  \A e \in Entries :
    /\ Cardinality({i \in DOMAIN free : free[i] = e}) = (IF entry[e].valid THEN 0 ELSE 1)
    /\ \A b \in Buckets :
         Cardinality({i \in DOMAIN chain[b] : chain[b][i] = e})
           = (IF entry[e].valid /\ b = Hash[entry[e].key] THEN 1 ELSE 0)

\* A valid entry always has a release on its way: its timer is armed, or the
\* callback has started and has not passed its last step.  Otherwise an entry
\* whose datagram never completes would be lost to the cache for good.
ReleaseOnItsWay ==
  \A e \in Entries : entry[e].valid => pending[e] \/ cb[e] # "idle"

\* A later fragment that took its ports from the cache (cacheIpFragInfo, used
\* by the flow lookup in place of the header) has those of its own datagram,
\* whatever became of the entry since.
PortsOfOwnDatagram ==
  \A c \in Cpus : pkt[c].port # 0 => pkt[c].port = pkt[c].d

\* The length count releases an entry only when every fragment of the datagram
\* has been looked up, though packets of different CPUs overwrite each other's
\* tmp_data_len between lookup and count.
CountedWhenAllSeen ==
  [][\A c \in Cpus, e \in Entries : CountLast(c, e) => seen[e] = DOMAIN Size[pkt[c].d]]_vars

\* A cached entry is released in the end, whether or not its datagram arrives.
EntryReleased == \A e \in Entries : entry[e].valid ~> ~entry[e].valid

=============================================================================
