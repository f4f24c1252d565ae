--------------------------- MODULE Ipv6Reassembly ---------------------------
(***************************************************************************)
(* The IPv6 fragment reassembly engine of src/src/ipv6_reassembly.cpp.     *)
(*                                                                         *)
(* One call of dpi_reordering_manage_ipv6_fragment runs with the engine    *)
(* spin lock held from the source lookup to its return, so calls are       *)
(* serialised.  A call is modelled as a short sequence of steps, one per   *)
(* loop iteration or straight-line block of the code, tracked by pc:       *)
(*   "idle"  -> (lookup/create source) -> "evict"  per-source limit loop   *)
(*           -> "sweep"  timer / global-limit loop                         *)
(*           -> "flow"   find or create the flow                           *)
(*           -> "store"  late-start screen, prefix, MF, insert, check      *)
(*           -> "build"  build_complete_datagram                           *)
(* The setters are not under the lock and may run between any two steps.  *)
(*                                                                         *)
(* Data abstraction: a source address is a model value of Srcs; a flow key *)
(* (destination address, identification) is a model value of Keys; the    *)
(* fragment list of a flow is the set of payload offsets it covers (the    *)
(* list keeps no overlaps, so its byte count is that set's size); sizes    *)
(* of records are the constants SourceSize and FlowSize.                   *)
(***************************************************************************)
EXTENDS Integers, FiniteSets, Sequences, SequencesExt, FiniteSetsExt, Functions,
        FragmentList

CONSTANTS
    Srcs,             \* source addresses
    Keys,             \* (dstaddr, id) pairs
    DatagramMax,      \* DPI_IP_FRAGMENTATION_MAX_DATAGRAM_SIZE, scaled
    MaxOffset,        \* largest fragment offset a caller passes
    FragSizes,        \* fragmentable_size values a caller passes
    UnfragSizes,      \* unfragmentable_size values a caller passes
    IPv6HeaderSize,   \* sizeof(struct ip6_hdr), scaled
    SourceSize,       \* sizeof(dpi_ipv6_fragmentation_source_t)
    FlowSize,         \* sizeof(dpi_ipv6_fragmentation_flow_t)
    DefaultTimeout,   \* DPI_IPv6_FRAGMENTATION_DEFAULT_REASSEMBLY_TIMEOUT
    DefaultPerSourceLimit, DefaultTotalLimit,
    Timeouts, PerSourceLimits, TotalLimits,  \* values passed to the setters
    TimeWrap,         \* 2^32: current_time and expiration_time are u_int32
    MaxTime,          \* bound on the clock
    MaxSkew,          \* how far behind the clock a caller's current_time may be
    AllocMayFail      \* whether malloc may return NULL

ASSUME /\ DatagramMax \in Nat \ {0}
       /\ MaxOffset \in Nat /\ FragSizes \subseteq Nat /\ FragSizes # {}
       /\ UnfragSizes \subseteq Nat \ {0}
       /\ IPv6HeaderSize \in Nat /\ \A u \in UnfragSizes : u >= IPv6HeaderSize
       /\ {SourceSize, FlowSize} \subseteq Nat
       /\ {DefaultTimeout} \cup Timeouts \subseteq Nat
       /\ {DefaultPerSourceLimit, DefaultTotalLimit} \cup PerSourceLimits \cup TotalLimits \subseteq Nat
       /\ TimeWrap \in Nat \ {0} /\ MaxTime \in Nat /\ MaxSkew \in Nat
       /\ AllocMayFail \in BOOLEAN

VARIABLES
    sources,        \* table: source address -> [mem |-> source_used_mem, flows |-> flow list, head first]
    flows,          \* live flows: <<src, key>> -> [len, unfrag, frags, exp]
    timers,         \* timer list from timer_head to timer_tail, as flow ids
    totalMem,       \* total_used_mem
    timeout, perSourceLimit, totalLimit,
    clock,          \* the time source callers read current_time from
    pc,             \* step of the call holding the lock
    call,           \* arguments of that call
    result          \* what the last call returned: the datagram, or NULL

vars == <<sources, flows, timers, totalMem, timeout, perSourceLimit,
          totalLimit, clock, pc, call, result>>

FlowIds == Srcs \X Keys
Pos == 0 .. DatagramMax - 1          \* payload byte offsets
NoCall == [s |-> "none"]
NoDatagram == [id |-> <<>>, len |-> 0, size |-> 0, plen |-> 0]   \* a NULL return

-----------------------------------------------------------------------------
(* Helpers shared by the steps.                                            *)

\* A plausible bug: the unfragmentable copy is freed but not debited.
CostWithoutPrefix(f) == FlowSize + ByteCount(flows[f].frags)

\* Bytes debited when a flow is deleted: the record, its stored prefix, its
\* fragments.
Cost(f) == FlowSize + flows[f].unfrag + ByteCount(flows[f].frags)

FlowsOf(s) == {<<s, k>> : k \in ToSet(sources[s].flows)}

\* The combined effect of dpi_ipv6_fragmentation_delete_flow on every flow
\* of D and of dpi_ipv6_fragmentation_delete_source on every source of E
\* (delete_source first deletes the flows it still owns: D includes them).
Discard(D, E) ==
    /\ flows' = Restrict(flows, DOMAIN flows \ D)
    /\ timers' = SelectSeq(timers, LAMBDA f : f \notin D)
    /\ sources' = [s \in DOMAIN sources \ E |->
                     [mem   |-> sources[s].mem
                                - MapThenSumSet(Cost, {f \in D : f[1] = s}),
                      flows |-> SelectSeq(sources[s].flows,
                                          LAMBDA k : <<s, k>> \notin D)]]
    /\ totalMem' = totalMem - MapThenSumSet(Cost, D)
                            - SourceSize * Cardinality(E)

DeleteFlow(f) == Discard({f}, {})

\* A plausible bug: delete_source unlinks the source without deleting the
\* flows it still owns.
DeleteOnlyFlowAndSource(f, s) == Discard({f}, {s})

\* delete_flow(f) followed by delete_source(s).
DeleteFlowAndSource(f, s) == Discard({f} \cup FlowsOf(s), {s})

\* delete_flow(f); if(source->flows==NULL) delete_source(source);
DeleteFlowThenEmptySource(f) ==
    IF sources[f[1]].flows = <<f[2]>>
    THEN DeleteFlowAndSource(f, f[1])
    ELSE DeleteFlow(f)

Return == pc' = "idle" /\ call' = NoCall /\ result' = NoDatagram

Cur == <<call.s, call.k>>

-----------------------------------------------------------------------------
Init ==
    /\ sources = <<>> /\ flows = <<>> /\ timers = <<>>
    /\ totalMem = 0
    /\ timeout = DefaultTimeout
    /\ perSourceLimit = DefaultPerSourceLimit
    /\ totalLimit = DefaultTotalLimit
    /\ clock = 0
    /\ pc = "idle" /\ call = NoCall /\ result = NoDatagram

\* The readings of the clock a caller may hold when it gets the lock: taken
\* at most MaxSkew before.  The call carries the reading unwrapped (c.t);
\* the code sees it as the u_int32 current_time, Now.
Readings == {x \in 0 .. clock : clock - x <= MaxSkew}

Now == call.t % TimeWrap

(* Lines 570-583: the end of the fragment is computed and an oversized     *)
(* fragment is dropped before the lock is taken.  (The minimum-MTU screen  *)
(* is compiled out: DPI_DEBUG_FRAGMENTATION_v6 is defined, to 0.)          *)
RejectOversized(c) ==
    /\ pc = "idle"
    /\ c.off + c.size > DatagramMax
    /\ result' = NoDatagram
    /\ UNCHANGED <<sources, flows, timers, totalMem, timeout, perSourceLimit,
                   totalLimit, clock, pc, call>>

(* find_or_create_source, lines 268-301, when the source exists or is      *)
(* created: the call proceeds to the per-source limit loop.                *)
FindOrCreateSource(c) ==
    /\ pc = "idle"
    /\ c.off + c.size <= DatagramMax
    /\ IF c.s \in DOMAIN sources
       THEN UNCHANGED <<sources, totalMem>>
       ELSE /\ sources' = sources @@ (c.s :> [mem |-> SourceSize, flows |-> <<>>])
            /\ totalMem' = totalMem + SourceSize
    /\ pc' = "evict" /\ call' = c
    /\ UNCHANGED <<flows, timers, timeout, perSourceLimit, totalLimit, clock,
                   result>>

(* Lines 281-285 and 591-598: malloc of a new source fails.                *)
SourceAllocFails(c) ==
    /\ AllocMayFail
    /\ pc = "idle"
    /\ c.off + c.size <= DatagramMax
    /\ c.s \notin DOMAIN sources
    /\ result' = NoDatagram
    /\ UNCHANGED <<sources, flows, timers, totalMem, timeout, perSourceLimit,
                   totalLimit, clock, pc, call>>

-----------------------------------------------------------------------------
(* Lines 609-620: while the source has flows and is over its limit, the    *)
(* head of its flow list is deleted; a drained source is deleted and the   *)
(* call returns.                                                           *)
\* A plausible bug: the loop compares against the global limit.
OverSourceLimitWrongField ==
    sources[call.s].flows # <<>> /\ totalMem > totalLimit

OverSourceLimit ==
    sources[call.s].flows # <<>> /\ sources[call.s].mem > perSourceLimit

SourceEvict ==
    /\ pc = "evict" /\ OverSourceLimit
    /\ LET f == <<call.s, Head(sources[call.s].flows)>> IN
         IF Len(sources[call.s].flows) = 1
         THEN DeleteFlowAndSource(f, call.s) /\ Return
         ELSE DeleteFlow(f) /\ UNCHANGED <<pc, call, result>>
    /\ UNCHANGED <<timeout, perSourceLimit, totalLimit, clock>>

SourceWithinLimit ==
    /\ pc = "evict" /\ ~OverSourceLimit
    /\ pc' = "sweep"
    /\ UNCHANGED <<sources, flows, timers, totalMem, timeout, perSourceLimit,
                   totalLimit, clock, call, result>>

(* Lines 630-645: while the head timer has expired or the global limit is  *)
(* reached, the flow of the head timer is deleted.  The code then tests    *)
(* the flows of the CURRENT source (source->flows) and, if there are none, *)
(* deletes the head flow's source (tmpsource) and returns.                 *)
\* A plausible bug: the sweep only runs under global memory pressure.
SweepCondNoExpiry ==
    timers # <<>> /\ totalMem >= totalLimit

SweepCond ==
    /\ timers # <<>>
    /\ \/ flows[Head(timers)].exp < Now
       \/ totalMem >= totalLimit

SweepStep ==
    /\ pc = "sweep" /\ SweepCond
    /\ LET f == Head(timers)
           tmpsource == f[1]
           current == IF tmpsource = call.s
                      THEN Remove(sources[call.s].flows, f[2])
                      ELSE sources[call.s].flows
       IN IF current = <<>>
          THEN DeleteFlowAndSource(f, tmpsource) /\ Return
          ELSE DeleteFlow(f) /\ UNCHANGED <<pc, call, result>>
    /\ UNCHANGED <<timeout, perSourceLimit, totalLimit, clock>>

SweepDone ==
    /\ pc = "sweep" /\ ~SweepCond
    /\ pc' = "flow"
    /\ UNCHANGED <<sources, flows, timers, totalMem, timeout, perSourceLimit,
                   totalLimit, clock, call, result>>

-----------------------------------------------------------------------------
(* find_or_create_flow, lines 364-412: a new flow is put at the head of    *)
(* the source's flow list and its timer, due at current_time + timeout,    *)
(* at the tail of the timer list.  The field due is a ghost: the same      *)
(* deadline on the unwrapped clock.                                        *)
Expiration(now) == (now + timeout) % TimeWrap

FindOrCreateFlow ==
    /\ pc = "flow"
    /\ IF Cur \in DOMAIN flows
       THEN UNCHANGED <<sources, flows, timers, totalMem>>
       ELSE /\ sources' = [sources EXCEPT
                             ![call.s].mem = @ + FlowSize,
                             ![call.s].flows = <<call.k>> \o @]
            /\ totalMem' = totalMem + FlowSize
            /\ flows' = flows @@ (Cur :> [len |-> 0, unfrag |-> 0, frags |-> <<>>,
                                          exp |-> Expiration(Now),
                                          due |-> call.t + timeout])
            /\ timers' = Append(timers, Cur)
    /\ pc' = "store"
    /\ UNCHANGED <<timeout, perSourceLimit, totalLimit, clock, call, result>>

(* Lines 382-386 and 654-660: malloc of a new flow fails.                  *)
FlowAllocFails ==
    /\ AllocMayFail
    /\ pc = "flow" /\ Cur \notin DOMAIN flows
    /\ Return
    /\ UNCHANGED <<sources, flows, timers, totalMem, timeout, perSourceLimit,
                   totalLimit, clock>>

-----------------------------------------------------------------------------
(* Lines 668-673: a fragment starting after the declared end is dropped;  *)
(* the flow is kept.                                                       *)
LateStart ==
    flows[Cur].len # 0 /\ call.off > flows[Cur].len

DropLateStart ==
    /\ pc = "store" /\ LateStart
    /\ Return
    /\ UNCHANGED <<sources, flows, timers, totalMem, timeout, perSourceLimit,
                   totalLimit, clock>>

(* Lines 680-689: malloc of the prefix copy fails; the flow is deleted,   *)
(* its source is left in the table even when it has no flow left.         *)
UnfragAllocFails ==
    /\ AllocMayFail
    /\ pc = "store" /\ ~LateStart
    /\ flows[Cur].unfrag = 0
    /\ DeleteFlow(Cur) /\ Return
    /\ UNCHANGED <<timeout, perSourceLimit, totalLimit, clock>>

\* A plausible bug: end taken as the last byte rather than one past it.
FragIntervalInclusive(off, end) == <<off, end + 1>>

\* Lines 576-577 and 720-722: the interval [offset, end) a fragment carries.
FragInterval(off, end) == <<off, end>>

\* Lines 680-697: the bytes charged for storing the prefix on this call.
PrefixBytes == IF flows[Cur].unfrag = 0 THEN call.u ELSE 0

StorePrefix(f) == [f EXCEPT !.unfrag = IF @ = 0 THEN call.u ELSE @]

(* Lines 680-715: the prefix is stored, then a second fragment with MF=0  *)
(* is dropped; the flow is kept.                                           *)
DropSecondLast ==
    /\ pc = "store" /\ ~LateStart
    /\ call.mf = 0 /\ flows[Cur].len # 0
    /\ flows' = [flows EXCEPT ![Cur] = StorePrefix(@)]
    /\ sources' = [sources EXCEPT ![call.s].mem = @ + PrefixBytes]
    /\ totalMem' = totalMem + PrefixBytes
    /\ Return
    /\ UNCHANGED <<timers, timeout, perSourceLimit, totalLimit, clock>>

(* Lines 680-751: the prefix is stored, an MF=0 fragment declares the     *)
(* length, the fragment is inserted and the memory counters are moved by  *)
(* bytes_inserted - bytes_removed; if the length is known and the train   *)
(* is contiguous the datagram is built, otherwise the call returns.       *)
InsertFragment ==
    /\ pc = "store" /\ ~LateStart
    /\ ~(call.mf = 0 /\ flows[Cur].len # 0)
    /\ LET end == call.off + call.size
           old == flows[Cur]
           ins == Insert(old.frags, FragInterval(call.off, end))
           new == [StorePrefix(old) EXCEPT
                     !.len = IF call.mf = 0 THEN end ELSE @,
                     !.frags = ins.list]
           delta == PrefixBytes + ins.inserted - ins.removed
       IN /\ flows' = [flows EXCEPT ![Cur] = new]
          /\ sources' = [sources EXCEPT ![call.s].mem = @ + delta]
          /\ totalMem' = totalMem + delta
          /\ IF new.len # 0 /\ IsContiguous(new.frags)
             THEN pc' = "build" /\ UNCHANGED <<call, result>>
             ELSE Return
    /\ UNCHANGED <<timers, timeout, perSourceLimit, totalLimit, clock>>

-----------------------------------------------------------------------------
(* build_complete_datagram, lines 422-481.                                 *)
TotLen == flows[Cur].unfrag + flows[Cur].len

\* htons of a u_int16_t: DatagramMax + 1 is 2^16, scaled.
U16(x) == x % (DatagramMax + 1)

\* Lines 445-448 and 470-473: the buffer of unfragmentable_length + len
\* bytes returned for flow f, with count payload bytes compacted into it
\* and the payload-length field of its IPv6 header rewritten.
Datagram(f, count) ==
    [id |-> f, len |-> count, size |-> flows[f].unfrag + flows[f].len,
     plen |-> U16(count + flows[f].unfrag - IPv6HeaderSize)]

\* Lines 437-442: the datagram with its prefix would be oversized.
BuildOversized ==
    /\ pc = "build" /\ TotLen > DatagramMax
    /\ DeleteFlowThenEmptySource(Cur) /\ Return
    /\ UNCHANGED <<timeout, perSourceLimit, totalLimit, clock>>

\* Lines 445-451: malloc of the output buffer fails.
BuildAllocFails ==
    /\ AllocMayFail
    /\ pc = "build" /\ TotLen <= DatagramMax
    /\ DeleteFlowThenEmptySource(Cur) /\ Return
    /\ UNCHANGED <<timeout, perSourceLimit, totalLimit, clock>>

\* Lines 457-467: compaction disagrees with the declared length; the buffer
\* is freed and the flow is kept.
BuildMismatch ==
    /\ pc = "build" /\ TotLen <= DatagramMax
    /\ Compact(flows[Cur].frags, flows[Cur].len) = -1
    /\ Return
    /\ UNCHANGED <<sources, flows, timers, totalMem, timeout, perSourceLimit,
                   totalLimit, clock>>

\* A plausible bug: the count == -1 test of line 464 is missing.
BuildCompleteUnchecked ==
    /\ pc = "build" /\ TotLen <= DatagramMax
    /\ DeleteFlowThenEmptySource(Cur)
    /\ pc' = "idle" /\ call' = NoCall
    /\ result' = Datagram(Cur, ByteCount(flows[Cur].frags))
    /\ UNCHANGED <<timeout, perSourceLimit, totalLimit, clock>>

\* Lines 469-480: the datagram, of count payload bytes, is returned and its
\* flow deleted, with the source when that was its last flow.
BuildComplete ==
    /\ pc = "build" /\ TotLen <= DatagramMax
    /\ Compact(flows[Cur].frags, flows[Cur].len) # -1
    /\ DeleteFlowThenEmptySource(Cur)
    /\ pc' = "idle" /\ call' = NoCall
    /\ result' = Datagram(Cur, Compact(flows[Cur].frags, flows[Cur].len))
    /\ UNCHANGED <<timeout, perSourceLimit, totalLimit, clock>>

-----------------------------------------------------------------------------
(* The setters, lines 176-204, store into the handle without the lock.     *)
SetPerSourceLimit(l) ==
    /\ perSourceLimit' = l
    /\ UNCHANGED <<sources, flows, timers, totalMem, timeout, totalLimit,
                   clock, pc, call, result>>

SetTotalLimit(l) ==
    /\ totalLimit' = l
    /\ UNCHANGED <<sources, flows, timers, totalMem, timeout, perSourceLimit,
                   clock, pc, call, result>>

SetReassemblyTimeout(t) ==
    /\ timeout' = t
    /\ UNCHANGED <<sources, flows, timers, totalMem, perSourceLimit,
                   totalLimit, clock, pc, call, result>>

\* Time passes for the callers.
Tick ==
    /\ clock < MaxTime
    /\ clock' = clock + 1
    /\ UNCHANGED <<sources, flows, timers, totalMem, timeout, perSourceLimit,
                   totalLimit, pc, call, result>>

-----------------------------------------------------------------------------
\* A call of dpi_reordering_manage_ipv6_fragment with arguments c.
Receive(c) ==
    \/ RejectOversized(c)
    \/ FindOrCreateSource(c)
    \/ SourceAllocFails(c)

Next ==
    \/ \E s \in Srcs, k \in Keys, off \in 0 .. MaxOffset, size \in FragSizes,
          mf \in {0, 1}, u \in UnfragSizes, t \in Readings :
          Receive([s |-> s, k |-> k, off |-> off, size |-> size, mf |-> mf,
                   u |-> u, t |-> t])
    \/ SourceEvict \/ SourceWithinLimit
    \/ SweepStep \/ SweepDone
    \/ FindOrCreateFlow \/ FlowAllocFails
    \/ DropLateStart \/ UnfragAllocFails \/ DropSecondLast \/ InsertFragment
    \/ BuildOversized \/ BuildAllocFails \/ BuildMismatch \/ BuildComplete
    \/ \E l \in PerSourceLimits : SetPerSourceLimit(l)
    \/ \E l \in TotalLimits : SetTotalLimit(l)
    \/ \E t \in Timeouts : SetReassemblyTimeout(t)
    \/ Tick

Spec == Init /\ [][Next]_vars

(* Fairness.  The call that holds the lock runs to its return: the engine  *)
(* has no suspension point inside the lock (spec section 5).  Arrivals are *)
(* the environment: while the engine is idle, some fragment keeps coming   *)
(* in and gets past the source lookup.                                     *)
Arrive ==
    \E s \in Srcs, k \in Keys, off \in 0 .. MaxOffset, size \in FragSizes,
       mf \in {0, 1}, u \in UnfragSizes, t \in Readings :
       FindOrCreateSource([s |-> s, k |-> k, off |-> off, size |-> size,
                           mf |-> mf, u |-> u, t |-> t])

LockedStep ==
    \/ SourceEvict \/ SourceWithinLimit
    \/ SweepStep \/ SweepDone
    \/ FindOrCreateFlow \/ FlowAllocFails
    \/ DropLateStart \/ UnfragAllocFails \/ DropSecondLast \/ InsertFragment
    \/ BuildOversized \/ BuildAllocFails \/ BuildMismatch \/ BuildComplete

FairSpec == Spec /\ WF_vars(LockedStep) /\ WF_vars(Arrive)

-----------------------------------------------------------------------------
(* Properties.                                                             *)

(* Spec sections 4.5 and 8: the engine implements AbstractReassembler.   *)
(* A flow is a datagram with its declared length and the bytes it covers; *)
(* result is what the call returned.  Every step of every call, with its  *)
(* evictions, expiries and failures, keeps fragments, forgets datagrams,   *)
(* or returns a datagram only when its bytes are exactly [0, len) and     *)
(* forgets it as it does (lines 457-480).                                 *)
Abstract == INSTANCE AbstractReassembler
              WITH Ids <- FlowIds, MaxLen <- DatagramMax, NULL <- [id |-> <<>>, len |-> 0],
                   dgrams <- [f \in DOMAIN flows |->
                                [len |-> flows[f].len, bytes |-> Covered(flows[f].frags)]],
                   out <- [id |-> result.id, len |-> result.len]

ImplementsAbstract == Abstract!Spec

FlowRec == [len: 0 .. DatagramMax, unfrag: {0} \cup UnfragSizes,
            frags: Seq(Pos \X (1 .. DatagramMax)), exp: 0 .. TimeWrap - 1, due: Nat]

TypeOK ==
    /\ DOMAIN sources \subseteq Srcs
    /\ \A s \in DOMAIN sources :
          sources[s].mem \in Nat /\ sources[s].flows \in Seq(Keys)
    /\ DOMAIN flows \subseteq FlowIds
    /\ \A f \in DOMAIN flows : flows[f] \in FlowRec
    /\ timers \in Seq(FlowIds)
    /\ totalMem \in Nat
    /\ clock \in 0 .. MaxTime
    /\ pc \in {"idle", "evict", "sweep", "flow", "store", "build"}
    /\ (pc = "idle") = (call = NoCall)
    /\ result \in {NoDatagram} \cup [id: FlowIds, len: 1 .. DatagramMax,
                                     size: 1 .. DatagramMax, plen: 0 .. DatagramMax]

(* Every flow is on exactly one source's flow list, once, and has exactly  *)
(* one timer on the timer list, across every path of delete_flow and      *)
(* delete_source (spec section 8).                                         *)
EveryFlowListedOnce ==
    /\ \A s \in DOMAIN sources : IsInjective(sources[s].flows)
    /\ DOMAIN flows = UNION {FlowsOf(s) : s \in DOMAIN sources}
    /\ IsInjective(timers)
    /\ ToSet(timers) = DOMAIN flows

(* source_used_mem is the size of the source record plus the cost of its   *)
(* flows, and total_used_mem is the sum of source_used_mem over the table: *)
(* every allocation and free on every path moves both counters alike.      *)
Charged(f) == FlowSize + flows[f].unfrag + ByteCount(flows[f].frags)

MemAccounting ==
    /\ \A s \in DOMAIN sources :
          sources[s].mem = SourceSize
                           + MapThenSumSet(Charged, {f \in DOMAIN flows : f[1] = s})
    /\ totalMem = MapThenSumSet(LAMBDA s : sources[s].mem, DOMAIN sources)

(* When the sweep of lines 630-645 ends, no flow has expired: the sweep    *)
(* only looks at the head timer, so this holds only if the timer list is  *)
(* ordered by expiration, as the comment at lines 624-628 says it is.     *)
SweepPostcondition ==
    pc = "flow" => \A f \in DOMAIN flows : ~(flows[f].exp < Now)

(* Spec section 6 and scenario 6: a flow is reaped for its timer only once *)
(* its timeout has elapsed.  When the sweep of lines 630-645 deletes the   *)
(* head flow while the global limit is not reached, the caller's time is   *)
(* past the flow's deadline on the real (unwrapped) clock.  The code       *)
(* compares u_int32 values (line 631) computed at line 402.                *)
ExpiryNotPremature ==
    [][/\ pc = "sweep" /\ totalMem < totalLimit
       /\ timers # <<>> /\ Head(timers) \notin DOMAIN flows'
       => call.t > flows[Head(timers)].due]_vars

(* Spec section 6 ("the sweep reaps expired flows") and scenario 6: as    *)
(* long as fragments keep arriving, a flow whose timer has expired is      *)
(* eventually deleted, by the sweep of lines 630-645 or otherwise.  The   *)
(* sweep only looks at the head timer (line 631) and a call can return    *)
(* from the eviction loop (line 614) or the sweep itself (line 638)       *)
(* before the flow is reached.                                             *)
Expired(f) == f \in DOMAIN flows /\ flows[f].exp < clock % TimeWrap

ExpiredFlowsReaped ==
    \A f \in FlowIds : Expired(f) ~> f \notin DOMAIN flows

(* Spec section 4 and step 10: once a fragment with MF=0 is stored, the   *)
(* length of the datagram is known, so a later MF=0 fragment is dropped   *)
(* as a duplicate.  Line 716 sets len to end, which is 0 for an empty     *)
(* last fragment at offset 0, and 0 is the value meaning "unknown".       *)
LastFragmentDeclaresLength ==
    [][pc = "store" /\ pc' # "store" /\ call.mf = 0 /\ Cur \in DOMAIN flows'
       => flows'[Cur].len # 0]_vars

(* Between calls, no source uses more than its limit plus what one call    *)
(* adds after the eviction loop of lines 609-620.  (Spec scenario 5 says  *)
(* the limit itself; the loop runs before the call's own additions.)     *)
SourceMemBound ==
    pc = "idle" =>
      \A s \in DOMAIN sources :
        sources[s].mem <= Max({perSourceLimit, SourceSize}) + FlowSize
                          + Max(UnfragSizes) + Max(FragSizes)

(* Spec sections 3 and 8: a source is in the table only while it owns a    *)
(* flow.  The timer sweep of lines 638-639 tests the current source but    *)
(* deletes the head flow's source, and lines 683-688 delete a flow without *)
(* its source, so a source can be left in the table with no flow.          *)
NoEmptySource ==
    pc = "idle" => \A s \in DOMAIN sources : sources[s].flows # <<>>

(* Spec section 7: a flow is destroyed only when its datagram completes or *)
(* fails on the current call, when its timer has expired, or when the     *)
(* per-source or global memory limit forces it out.                        *)
Justified(f) ==
    \/ f = Cur
    \/ flows[f].exp < Now
    \/ totalMem >= totalLimit
    \/ f[1] = call.s /\ sources[call.s].mem > perSourceLimit

FlowRemovalJustified ==
    [][\A f \in DOMAIN flows \ DOMAIN flows' : Justified(f)]_vars

(* Spec sections 7 and 8, scenario 5: the per-source limit loop of lines   *)
(* 609-620 evicts the OLDEST flow of the source.  Flows are inserted at    *)
(* the head of the list (lines 396-400) and the loop deletes the head.     *)
PerSourceEvictsOldest ==
    [][pc = "evict" =>
         \A f \in DOMAIN flows \ DOMAIN flows' :
            f[2] = Last(sources[f[1]].flows)]_vars

(* Spec section 3: once the length is declared, every stored fragment ends *)
(* at or before it.  Line 668 only rejects a fragment that STARTS after    *)
(* the declared length.                                                    *)
DeclaredLenBound ==
    \A f \in DOMAIN flows :
        flows[f].len # 0 => Covered(flows[f].frags) \subseteq 0 .. flows[f].len - 1
====
