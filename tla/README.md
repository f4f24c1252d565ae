# TLA+ models of the Peafowl IPv6 reassembly engine

This directory holds TLA+ models of `src/src/ipv6_reassembly.cpp`: the IPv6
fragment reassembly engine of Peafowl. The engine takes fragments from
packet-processing workers. It returns the reassembled datagram when the last
missing byte arrives, and NULL otherwise. Every run named here is listed in
`PROJECT.json` and checked with TLC.

## 1. Inventory

### Components and their state

| Component | Code | State | Operations |
|---|---|---|---|
| Engine handle | `dpi_ipv6_fragmentation_state_t` (93-114) | hash table of sources, `total_used_mem`, timer list head/tail, `per_source_memory_limit`, `total_memory_limit`, `timeout`, spin lock | `enable` (132), three setters (176-204), `disable` (210) |
| Source table | `find_or_create_source` (264), `delete_source` (490), hash (243) | per source: address, `row`, `flows` list, `source_used_mem`, chain links | lookup / create at the chain head, delete (deletes its flows first) |
| Flow record | `find_or_create_flow` (364), `delete_flow` (307) | per flow: `id`, `dstaddr`, fragment list, `unfragmentable` copy and length, `len` (0 = not yet known), timer, back-link to the source | lookup / create at the head of the source's list, delete (does not delete the source) |
| Timer list | `dpi_reassembly_add_timer` / `delete_timer` (in `reassembly.c`, **not in this repository**) | doubly linked list of `{expiration_time, data}` | append at the tail, unlink |
| Fragment list | `dpi_reassembly_insert_fragment`, `..._check_train_of_contiguous_fragments`, `..._compact_fragments` (in `reassembly.c`, **not in this repository**) | sorted, non-overlapping intervals with their bytes | insert and merge, contiguity test, compaction |
| Controller | `dpi_reordering_manage_ipv6_fragment` (549-757) | none of its own | the entry point; see below |
| Datagram builder | `build_complete_datagram` (422-481) | none | allocates the output, compacts, rewrites the payload length, deletes the flow |
| Concurrency shim | `ff::CLHSpinLock` (585-755) | lock | held from the source lookup to every return |
| Protocol identifiers | `protocols_identifiers.h` | none | an enum; nothing to model |

### How they interact

A call to the controller does these steps in this order:
1. Outside the lock, it drops a fragment whose `end` exceeds 65535.
2. It takes the lock and finds or creates the source.
3. It evicts the head flow of the source while the source is over its limit.
4. It sweeps the timer list from its head while the head has expired or the global limit is reached.
5. It finds or creates the flow.
6. It drops a fragment that starts after the declared length.
7. It stores the unfragmentable prefix once per flow.
8. It handles MF=0: a second MF=0 fragment is dropped, the first sets `len`.
9. It inserts the fragment.
10. If `len` is known and the fragment list is one train from offset 0, it builds the datagram.

Deleting a flow never deletes its source. Every caller of `delete_flow`
decides whether to delete the source. Memory is charged to both counters
on every allocation and debited on every free.

### What is hard

* **Concurrency.** Calls are serialised by the lock. The setters are not
  locked, so they can run between any two steps of a call. Each worker reads
  `current_time` before it wins the lock, so timers can be enrolled in a
  different order from their expirations.
* **Partial failure.** Any malloc can fail: the source, the flow, the prefix
  copy, or the output buffer. Each failure path releases a different subset
  of the state.
* **Eviction and expiry.** Two loops delete flows and sources while the call
  is still using its own source. The sweep only ever looks at the head of the
  timer list.
* **Malformed input.** Fragments can overlap, extend past the declared length,
  or repeat MF=0. Offsets can sit at the 65535 boundary.

### What makes each component correct

* **Accounting.** `source_used_mem` is the size of the source record plus the
  size, prefix and fragment bytes of its flows. `total_used_mem` is the sum of
  `source_used_mem` over all sources.
* **Structure.** Every flow is on one source list and one timer, once. A
  source stays in the table only while it owns a flow.
* **Eviction.** A flow is removed only for these reasons: its datagram
  completed or failed on this call, its timer expired, or a memory limit
  forced it out. Eviction takes the oldest flow first.
* **Expiry.** When the sweep ends, no flow has expired.
* **Fragments.** Once the length is declared, no fragment ends past it. A
  datagram is returned exactly when the bytes `[0, len)` are covered.
* **Liveness.** Every flow is eventually removed.

## 2. Modules and plan

| Module | Models | Status |
|---|---|---|
| `Ipv6Reassembly` (+ `MCIpv6Reassembly`) | controller, flows, sources as a map, timers, builder, setters | built |
| `AbstractReassembler` | what the engine promises its callers (spec sections 4.5 and 8) | built; `Ipv6Reassembly` refines it |
| `SourceHash` (+ `MCSourceHash`) | hash, bucket chains and per-source flow lists, lookup/insert/delete on a heap, `enable`, `disable` | built |
| `FragmentList` | the fragment-list primitive (insert, contiguity test, compaction) on a sequence of intervals, from the spec (its code, `reassembly.c`, is not in this repository) | built; used by `Ipv6Reassembly` |

Not run: a reconfiguration run where the setters take two values each.
With two values per setter, the liveness run took 13 minutes, and the core
run would exceed its time budget. Every passing run gives each setter one
value, so the setter actions fire but do not change a limit.

## 3. Module `Ipv6Reassembly`

**State.**
* `sources`: the table, a function from address to `[mem, flows]`. `flows` is
  the flow list from head to tail.
* `flows`: a function from `<<src, key>>` to `[len, unfrag, frags, exp]`.
  `unfrag` is 0 while the prefix is not stored. `frags` is the flow's
  fragment list, a sequence of intervals `<<offset, end>>` (section 3c).
* `timers`: the timer list from head to tail.
* `totalMem`, `timeout`, `perSourceLimit`, `totalLimit`.
* `clock`: the time source callers read.
* `pc` and `call`: the step and the arguments of the call that holds the lock.

**Actions.**

| Action | Code |
|---|---|
| `RejectOversized` | lines 561-583 |
| `FindOrCreateSource`, `SourceAllocFails` | lines 264-302 and 588-598 |
| `SourceEvict` (one loop iteration), `SourceWithinLimit` | lines 609-620 |
| `SweepStep` (one iteration), `SweepDone` | lines 630-645 |
| `FindOrCreateFlow`, `FlowAllocFails` | lines 364-412 and 649-660 |
| `DropLateStart` | lines 668-673 |
| `UnfragAllocFails` | lines 680-689 |
| `DropSecondLast` | lines 704-715 |
| `InsertFragment` | lines 680-751: prefix, MF, insert, counters, completeness |
| `BuildOversized`, `BuildAllocFails`, `BuildMismatch`, `BuildComplete` | `build_complete_datagram` |
| `SetPerSourceLimit`, `SetTotalLimit`, `SetReassemblyTimeout` | the setters |
| `Tick` | time passing |

`Discard(D, E)` is the combined effect of `delete_flow` on the flows in D and
`delete_source` on the sources in E. It is how the code's sequences of
`delete_flow` then maybe `delete_source` are written as one step.

**Abstractions.**
* Addresses and `(dst, id)` keys are model values.
* Record sizes are constants.
* The fragment list keeps its intervals but not their bytes.
* The payload bytes and the next-header rewrite are not modelled. No
  property tells them apart. The payload-length rewrite is modelled by its
  arithmetic: `U16` reduces modulo 2^16, scaled to `DatagramMax + 1`.
* `IPv6HeaderSize` (40 bytes) is 0 in the scaled cfgs: 40 is below one unit
  of the 65535 -> 3 scaling. The module assumes every prefix is at least the
  fixed header. The API comment at lines 524-528 sets no such minimum (it
  allows storing "only a part" of the header), so a shorter prefix, for
  which the next-header write (695) and the payload-length store (471-473)
  go past the copy, is outside the model.

**Result.** `result` is what the current call returns: `NoDatagram` or
the datagram `BuildComplete` returns (`Datagram`: its id, payload count,
buffer size and payload-length field). `Return` resets
it, as each call starts with nothing returned.

**Time.** Each call carries the caller's unwrapped reading `t` (`Readings`:
the clock, or up to `MaxSkew` behind it). `Now` is `t % TimeWrap`, the
u_int32 value the code sees. A flow stores the wrapped `exp` the code
computes at line 402, and a ghost `due` (= `t + timeout`, unwrapped) that
only properties read.

## 3a. Module `AbstractReassembler`

The contract, with no memory, sources, timers or locking. `dgrams` maps each
datagram being reassembled to its declared length (0 = unknown) and its set
of received bytes; `out` is what the last call returned. Actions: `Open` a
datagram, `Keep` a fragment (a last fragment declares the length, once),
`Forget` a set of datagrams (eviction, expiry, failure), `Idle`, and
`Deliver` a datagram exactly when its bytes are `[0, len)`, forgetting it.

`Ipv6Reassembly` instantiates it as `Abstract` with
`dgrams <- [f \in DOMAIN flows |-> [len |-> flows[f].len, bytes |-> Covered(flows[f].frags)]]`
and `out <- [id |-> result.id, len |-> result.len]`; the property `ImplementsAbstract == Abstract!Spec`
says every engine step is an abstract step or a stutter.

## 3b. Module `SourceHash`

The part of the source table that `Ipv6Reassembly` abstracts to a map:

* **State.** `handle` (`none`, `live`, `freed`, or `crashed` after a
  division by zero), `tableSize`, `table` (bucket -> head block), `heap`
  (block -> `[alloc, addr, row, flows, prev, next]`; a freed block keeps its
  stale contents, as freed memory does), `fheap` (flow block ->
  `[alloc, src, key, prev, next]`, the flow's list links and its
  `<id, dstaddr>` key as a model value), `held` (the source pointer the call under
  the lock holds), the teardown cursor `dpc`, `di`, `dcur` and `dnext`
  (`tmp_source`), the cursors of the two `delete_source` loops in progress
  (`cdel`/`cflow` for the call's, `dflow` for disable's), and the history
  flag `uaf`, set when a step reads or frees a freed block.
* **Hash.** `HashStep` is one byte of lines 247-249: `h ^ ((h << 5) + (h >> 2) + b)`
  stored into a `u_int16_t`. `HashLoop` is RECURSIVE over the 16 address
  bytes; `Hash` takes it modulo `tableSize` (line 251). The u16 hash of
  each address is computed once (`Hashes`, a constant function), so TLC does
  not redo the 16-step recursion in every state.
* **Actions.** `Enable(n)` and `EnableFails(n)` (lines 132-165, every malloc
  failure; `malloc(0)` may return a block or NULL); `Lookup(a)` (264-302:
  scan the bucket chain, or allocate and insert at the head) and
  `LookupAllocFails`; `delete_source` (490-514) as three actions:
  `DeleteSource(q)` reads the first flow, `DeleteSourceFlow` is one loop
  iteration (save `next`, `FreeFlow`, advance; 497-501), and
  `DeleteSourceUnlink` unlinks through `row`, `prev` and `next` once the
  loop ends, and returns;
  `FindOrCreateFlow(k)` (364-412: scan the held source's flow list for the
  key, or allocate a flow block at the head and back-link the old head);
  `FreeFlow(g)` is `delete_flow` (307-354: unlink through `source->flows`
  when the flow is the head, else through `prev`, and free it);
  `DeleteFlow(g)` applies it to any allocated flow, since the sweep deletes
  the head timer's flow whatever its source; `Release` (the unlock);
  `DisableStart`, `DisableBucket`, and for each source `DisableSource`
  (save `tmp_source`), `DisableFlow` (one flow of its `delete_source`) and
  `DisableUnlink` (210-235, without the lock). Memory counters and timers are left to
  `Ipv6Reassembly`; here only the pointers are modelled.
* **Bounds.** Three addresses, chosen so that with 3 buckets two share
  bucket 0 and one is alone in bucket 2. Their 16-bit hashes are 3, 1032 and
  18089; without the u16 truncation the third would be 6620841, bucket 0, so
  the choice tells the truncation apart. Three heap blocks (symmetric), table
  sizes 1 and 3, two flow blocks (symmetric) and two keys, so a source can
  hold a two-flow list and either end can be deleted first.

## 3c. Module `FragmentList`

Pure operators on a fragment list, a sequence of intervals `<<offset, end>>`,
modelled from spec section 4.1 because `reassembly.c` is not in this
repository:
* `Insert(L, iv)` returns the new list with `inserted` and `removed` byte
  counts. Each existing interval loses the part the newcomer covers
  (`Outside`: shrunk, split in two, or removed when subsumed; later arrivals
  win, spec 9.3), the trimmed list is built by `Trim` (RECURSIVE), and the
  newcomer is placed before the first interval starting at or after its end
  (`Place`, RECURSIVE). An empty fragment leaves the list as it is.
* `IsContiguous(L)`: one train from offset 0. `Compact(L, len)`: the byte
  count, or -1 when it differs from `len`.
* `Covered`, `ByteCount`, `WellFormed`: the offsets covered, the bytes held,
  sorted non-empty disjoint intervals.

The insert is checked through the properties of the engine that uses it:
`ImplementsAbstract` requires the covered set after an insert to be exactly
the old one plus the newcomer's offsets, and `MemAccounting` requires the
counters, moved by `inserted - removed` as lines 724-729 move them, to
equal the bytes the lists hold. Both rest on this spec-derived operator;
no property here can catch an error in `reassembly.c` itself, which is not
in the repository. (That every list stays sorted follows from `Insert`'s
definition alone, so it is not checked as a property.)

## 4. Runs

`MCIpv6Reassembly` runs use these bounds unless the table says otherwise:
* two sources and two keys (symmetric);
* `DatagramMax` = 3 (65535, scaled) and fragment sizes 1-2 (`FragSizes`), so
  `end` can exceed the maximum;
* offsets 0-2, a one-byte prefix, one-byte records;
* timeout 2 and a clock up to 3, so a flow created at time 0 has expired by
  time 3;
* per-source limit 5 and total limit 8.

With these bounds, two flows with a byte each exceed the per-source limit,
and two sources with flows reach the global limit. A flow can also have a
declared length with a gap in its fragments, which is what `DropLateStart`
needs. `TimeWrap` is 1024, more than any reachable time, which stands for
the unwrapped u_int32 arithmetic (TLC integers cannot hold 2^32); the
`time_wrap` run sets it to 4, so `current_time + timeout` wraps within the
reachable clock.

| Run | cfg | Expect | What it shows |
|---|---|---|---|
| core | `MCIpv6Reassembly.cfg` | pass | See below. |
| liveness_refinement | `MCLiveness.cfg` (one key, no malloc failures, timeout 1, clock up to 2, `FairSpec`) | pass | `ExpiredFlowsReaped` and `ImplementsAbstract`. |
| empty_source | `MCNoEmptySource.cfg` | violation | After the sweep aborts a call, a source stays in the table with no flows (line 638). |
| unjustified_removal | `MCFlowRemoval.cfg` (total limit 11, so there is no memory pressure) | violation | The first fragment of a new source makes the sweep delete **all** flows of another source, including unexpired ones. It also drops the fragment. |
| evict_newest | `MCEvictOldest.cfg` | violation | The per-source loop evicts the newest flow (head insertion at 396-400, head deletion at 612). |
| end_past_declared | `MCDeclaredLen.cfg` | violation | A fragment that ends past the declared length is stored (line 668). Its flow can then never complete (line 464). |
| timer_skew | `MCTimerSkew.cfg` (`MaxSkew` = 1) | violation | Callers' time readings reach the lock out of order. The timer list becomes unsorted, and the sweep leaves expired flows behind an unexpired head. |
| time_wrap | `MCTimeWrap.cfg` (`TimeWrap` = 4) | violation | `current_time + timeout` wraps (line 402), so the flow looks expired at once and the next call reaps it before its timeout elapsed (`ExpiryNotPremature`). |
| zero_last | `MCZeroLast.cfg` (fragment sizes 0-1) | violation | An empty MF=0 fragment at offset 0 sets `len` to 0, meaning "unknown", so a second MF=0 fragment is accepted (line 716; `LastFragmentDeclaresLength`). |
| source_hash | `MCSourceHash.cfg` | pass | See below. |
| disable_race | `MCDisableRace.cfg` (`DisableRaces`) | violation | `disable` takes no lock: it frees the source the call holds, and the call then deletes it again (`NoUseAfterFree`). |
| table_size_zero | `MCTableSizeZero.cfg` (table sizes 0 and 3) | violation | `enable(0)` succeeds when `malloc(0)` returns a block; the first lookup computes `h % 0` (`NoCrash`). |

The core run passes with about 2.1 M distinct states in about 2 minutes.
Malloc failures are on, the clock is monotone, and the limits are fixed. It
checks:
* `TypeOK`;
* `EveryFlowListedOnce`: flows, source lists and timers agree;
* `MemAccounting`: both counters are exact on every path;
* `SweepPostcondition`: no expired flow survives a completed sweep;
* `SourceMemBound`: between calls, a source exceeds its limit by at most one
  call's growth. Spec scenario 5 claims more (the counters stay at or below
  the limit); the code evicts before the call adds its flow, prefix and
  fragment (609-620 before 648-751), so only this weaker bound is checked.

`ExpiryNotPremature` is checked only in the time_wrap run: with `TimeWrap`
1024 the wrapped and unwrapped deadlines agree, and the property would only
restate the strict `<` of line 631.

The liveness_refinement run checks, under `FairSpec`:
* `ExpiredFlowsReaped`: a flow whose timer has expired is eventually
  deleted, although the sweep only looks at the head timer and a call can
  return early from the eviction loop or the sweep;
* `ImplementsAbstract`: the refinement of section 3a.

Malloc failures are off there: a source allocation that fails on every call
returns before the sweep, and nothing in the code prevents that, so
liveness would fail for a reason outside the engine. One key keeps the
temporal check within minutes; the cases the property is about (an early
return from the sweep and a non-head expired timer) occur with two sources.

The source_hash run (`MCSourceHash`, callers stop before `disable`, no
deadlock check because teardown ends the system) checks `TypeOK`,
`ChainsWellFormed` (each bucket's chain holds
exactly the allocated sources of that bucket, with consistent `prev`,
`next` and `row`), `FlowListsWellFormed` (each allocated source's flow
list is a finite, duplicate-free, doubly linked list of allocated flows
whose back-link is that source, with distinct keys, and every allocated
flow is on some list, including in the middle of a `delete_source` loop),
and `TeardownReleasesAll` (after `disable`, no source or flow block is
allocated). It passes with about 1.15 M distinct states in about a minute.
`NoUseAfterFree` is checked only in the disable_race run: without the race
every block a step touches is on a chain, on a flow list or held, so it
would follow from the two list properties.

Every property of a passing run has a mutant in `PROJECT.json` that breaks
it: an interval one byte too long; `delete_source` not deleting its flows;
the prefix not debited; a sweep without the expiry test; eviction against
the global limit; a build without the completeness check; a bucket array
initialised one past its end; an unlink that forgets the back link; a flow
unlink that leaves the new head's `prev` at the freed flow; a
`delete_source` loop that deletes only the first flow; teardown that skips
the last bucket.

**Fairness.** `FairSpec` adds weak fairness of `LockedStep`, the steps of
the call that holds the lock: the code has no suspension point inside the
lock (spec section 5), so the holder runs to its return. It adds weak
fairness of `Arrive` (a fragment gets past the source lookup while the
engine is idle): an assumption about traffic, since the engine does nothing
unless it is called. No fairness is assumed for `Tick` or the setters.

## 5. Not modelled

* `protocols_identifiers.h`: an enum with no behaviour.
* The byte contents of fragments and of the output buffer, and the
  next-header rewrite. No property tells them apart. The payload-length
  field is computed in `Datagram` (`plen`, lines 471-473), but with a prefix
  of at least the fixed header and the oversize test of line 437 it equals
  the buffer size minus the header whenever a datagram is returned, so no
  property is stated about it.
* A malloc failure inside `dpi_reassembly_insert_fragment`, and the exact
  code of the fragment and timer lists: `reassembly.c` is not in this
  repository. `FragmentList` and the timer sequence follow the spec.
* A prefix shorter than the IPv6 fixed header. The next-header write
  (line 695) and the payload-length store (lines 471-473) assume a full
  header, and the API comment (lines 524-528) does not demand one. Bytes
  are not modelled and the 40-byte header scales to 0, so the model cannot
  express such a prefix.
* The minimum-MTU screen. It is compiled out, because
  `DPI_DEBUG_FRAGMENTATION_v6` is defined (to 0) at line 44, so the
  `#ifndef` at line 569 is always false.
* `SourceHash` and `Ipv6Reassembly` are not composed into one module. The
  flow lists appear in both: at pointer level, with stale freed blocks, in
  `SourceHash`, and as sequences with memory, timers and fragments in
  `Ipv6Reassembly`. A product of the two exceeds TLC's budget (the core run
  alone has about 2 M states). `disable` racing a call is checked in
  `SourceHash` only.
* Changing the limits or the timeout between calls (the unlocked setters at
  lines 176-204) is modelled as actions but not run with more than one value
  each: the core run with two total limits did not finish in 30 minutes.
