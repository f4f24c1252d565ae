----------------------------- MODULE SourceHash -----------------------------
(***************************************************************************)
(* The source table of src/src/ipv6_reassembly.cpp at the level of its    *)
(* memory: the handle and its bucket array (enable, lines 132-165), the   *)
(* shift-add-XOR hash (lines 243-252), lookup with head insertion into a  *)
(* doubly linked bucket chain (lines 264-302), the unlink of              *)
(* delete_source (lines 490-514) and the bucket walk of disable (lines    *)
(* 210-235).                                                               *)
(*                                                                         *)
(* A source record is a heap block of Ptrs.  A freed block keeps its      *)
(* stale contents, so a read of freed memory returns what was last        *)
(* written; such a read is recorded in the history variable uaf.  A      *)
(* source owns a doubly linked list of flow records, blocks of FPtrs:     *)
(* find_or_create_flow inserts at its head (lines 364-412), delete_flow   *)
(* unlinks (lines 307-354), and delete_source deletes them one by one    *)
(* before its unlink (lines 495-501).  What a flow holds is the concern of Ipv6Reassembly. *)
(*                                                                         *)
(* The engine lock serialises the calls of dpi_reordering_manage_ipv6_    *)
(* fragment: a call looks its source up, finds or creates a flow and     *)
(* deletes flows (eviction, sweep, failure, completion), then either      *)
(* deletes one source (its own, lines 614/440/449/476, or the head        *)
(* timer's, line 638) and returns, or returns.  disable takes no lock.    *)
(***************************************************************************)
EXTENDS Integers, Sequences, FiniteSets, SequencesExt, Bitwise

CONSTANTS
    Addrs,          \* source addresses, as byte sequences
    Ptrs,           \* heap blocks a source record can occupy
    FPtrs,          \* heap blocks a flow record can occupy
    Keys,           \* (identification, dstaddr) of a flow
    NULL,
    TableSizes,     \* table_size values passed to enable
    AllocMayFail,   \* whether malloc may return NULL
    DisableRaces    \* whether disable may run while calls are still made

ASSUME /\ Addrs \subseteq Seq(0 .. 255) /\ NULL \notin Ptrs \cup FPtrs
       /\ TableSizes \subseteq 0 .. 65535
       /\ AllocMayFail \in BOOLEAN /\ DisableRaces \in BOOLEAN

VARIABLES
    handle,     \* "none" before enable, "live", "freed" after disable, "crashed"
    tableSize,  \* table_size
    table,      \* table: bucket index -> head source pointer or NULL
    heap,       \* Ptrs -> [alloc, addr, row, flows, prev, next]
    fheap,      \* FPtrs -> [alloc, src, key, prev, next]
    held,       \* the source pointer of the call holding the lock, or NULL
    dpc,        \* step of disable: "idle", "bucket", "chain", "flows", "done"
    di,         \* disable's bucket index i
    dcur,       \* disable's source pointer
    dnext,      \* disable's tmp_source, the successor saved at line 220
    dflow,      \* the flow cursor of the delete_source disable is in
    cdel,       \* the source the call's delete_source is deleting, or NULL
    cflow,      \* the flow cursor of that delete_source
    uaf         \* history: some step read or wrote a freed block

vars == <<handle, tableSize, table, heap, fheap, held, dpc, di, dcur, dnext, dflow,
          cdel, cflow, uaf>>

\* The cursors of the two delete_source loops.
loopVars == <<dnext, dflow, cdel, cflow>>

Blank == [alloc |-> FALSE, addr |-> <<>>, row |-> 0, flows |-> NULL,
          prev |-> NULL, next |-> NULL]
FBlank == [alloc |-> FALSE, src |-> NULL, key |-> NULL, prev |-> NULL, next |-> NULL]

-----------------------------------------------------------------------------
(* dpi_ipv6_fragmentation_hash_function, lines 243-252: for each byte,    *)
(* h ^= (h<<5) + (h>>2) + byte, with h a u_int16_t; then h % table_size.  *)
HashStep(h, b) == (h ^^ (h * 32 + h \div 4 + b)) % 65536

RECURSIVE HashLoop(_, _, _)
HashLoop(h, addr, i) ==
    IF i > Len(addr) THEN h ELSE HashLoop(HashStep(h, addr[i]), addr, i + 1)

\* The u_int16_t h of every address; a constant, so TLC computes it once.
Hashes == [a \in Addrs |-> HashLoop(0, a, 1)]

Hash(addr) == Hashes[addr] % tableSize

-----------------------------------------------------------------------------
\* The pointers met walking a chain from p along next, at most n of them.
RECURSIVE ChainFrom(_, _)
ChainFrom(p, n) ==
    IF p = NULL \/ n = 0 THEN <<>> ELSE <<p>> \o ChainFrom(heap[p].next, n - 1)

Chain(i) == ChainFrom(table[i], Cardinality(Ptrs) + 1)

Freed(P) == \E q \in P \ {NULL} : ~heap[q].alloc

\* The flow list of source p, from source->flows along next.
RECURSIVE FlowChainFrom(_, _)
FlowChainFrom(g, n) ==
    IF g = NULL \/ n = 0 THEN <<>> ELSE <<g>> \o FlowChainFrom(fheap[g].next, n - 1)

FlowChain(p) == FlowChainFrom(heap[p].flows, Cardinality(FPtrs) + 1)

FreedF(F) == \E g \in F \ {NULL} : ~fheap[g].alloc

(* dpi_ipv6_fragmentation_delete_flow, lines 307-354: a head flow is      *)
(* unlinked through source->flows and the new head's prev is cleared, any *)
(* other through prev->next and next->prev; then the block is freed.  It  *)
(* reads the flow, its source and its neighbours.                         *)
\* A plausible bug: a new head keeps its prev pointing at the freed flow.
FreeFlowNoHeadBackLink(g) ==
    LET r == fheap[g] IN
    /\ heap' = IF r.prev = NULL THEN [heap EXCEPT ![r.src].flows = r.next] ELSE heap
    /\ fheap' = [x \in FPtrs |->
                   [fheap[x] EXCEPT !.next = IF x = r.prev THEN r.next ELSE @,
                                    !.prev = IF x = r.next /\ r.prev # NULL
                                             THEN r.prev ELSE @,
                                    !.alloc = IF x = g THEN FALSE ELSE @]]
    /\ uaf' = (uaf \/ Freed({r.src}) \/ FreedF({g, r.prev, r.next}) \/ handle = "freed")

FreeFlow(g) ==
    LET r == fheap[g] IN
    /\ heap' = IF r.prev = NULL THEN [heap EXCEPT ![r.src].flows = r.next] ELSE heap
    /\ fheap' = [x \in FPtrs |->
                   [fheap[x] EXCEPT !.next = IF x = r.prev THEN r.next ELSE @,
                                    !.prev = IF x = r.next THEN r.prev ELSE @,
                                    !.alloc = IF x = g THEN FALSE ELSE @]]
    /\ uaf' = (uaf \/ Freed({r.src}) \/ FreedF({g, r.prev, r.next}) \/ handle = "freed")

(* dpi_ipv6_fragmentation_delete_source, lines 490-514, from the unlink:  *)
(* the predecessor or the bucket head is pointed past the source, the     *)
(* successor's prev is pointed back, the block is freed.                  *)
\* A plausible bug: the successor's prev is left pointing at the freed block.
UnlinkNoBackLink(p, late) ==
    LET r == heap[p] IN
    /\ table' = IF r.prev = NULL THEN [table EXCEPT ![r.row] = r.next] ELSE table
    /\ heap' = [q \in Ptrs |->
                  [heap[q] EXCEPT !.next = IF q = r.prev THEN r.next ELSE @,
                                  !.flows = IF q = p THEN NULL ELSE @,
                                  !.alloc = IF q = p THEN FALSE ELSE @]]
    /\ uaf' = (uaf \/ late \/ Freed({p, r.prev}))

\* late: the step also touches memory that is already freed.
Unlink(p, late) ==
    LET r == heap[p] IN
    /\ table' = IF r.prev = NULL THEN [table EXCEPT ![r.row] = r.next] ELSE table
    /\ heap' = [q \in Ptrs |->
                  [heap[q] EXCEPT !.next = IF q = r.prev THEN r.next ELSE @,
                                  !.prev = IF q = r.next THEN r.prev ELSE @,
                                  !.flows = IF q = p THEN NULL ELSE @,
                                  !.alloc = IF q = p THEN FALSE ELSE @]]
    /\ uaf' = (uaf \/ late \/ Freed({p, r.prev, r.next}))

-----------------------------------------------------------------------------
Init ==
    /\ handle = "none" /\ tableSize = 0 /\ table = <<>>
    /\ heap = [p \in Ptrs |-> Blank] /\ fheap = [g \in FPtrs |-> FBlank]
    /\ held = NULL /\ dpc = "idle" /\ di = 0 /\ dcur = NULL /\ uaf = FALSE
    /\ dnext = NULL /\ dflow = NULL /\ cdel = NULL /\ cflow = NULL

(* dpi_reordering_enable_ipv6_fragmentation, lines 132-165: the handle and *)
(* a table of n empty buckets.  A failed calloc or malloc leaves no        *)
(* engine; malloc(0) may return NULL or a block, as the C library chooses. *)
\* A plausible bug: the initialisation loop runs to i <= table_size.
EnableInitPastEnd(n) ==
    /\ handle = "none"
    /\ handle' = "live" /\ tableSize' = n
    /\ table' = [i \in 0 .. n |-> NULL]
    /\ UNCHANGED <<heap, fheap, held, dpc, di, dcur, uaf, loopVars>>

Enable(n) ==
    /\ handle = "none"
    /\ handle' = "live" /\ tableSize' = n
    /\ table' = [i \in 0 .. n - 1 |-> NULL]
    /\ UNCHANGED <<heap, fheap, held, dpc, di, dcur, uaf, loopVars>>

EnableFails(n) ==
    /\ handle = "none" /\ (AllocMayFail \/ n = 0)
    /\ UNCHANGED vars

(* Lines 585-598 and dpi_ipv6_fragmentation_find_or_create_source, lines  *)
(* 264-302: under the lock, the chain of the address's bucket is scanned;  *)
(* on a miss a block is allocated, given the bucket as its row and put at  *)
(* the head of the chain.  With table_size 0 the % of line 251 divides by  *)
(* zero and the process dies.                                              *)
Lookup(a) ==
    /\ handle = "live" /\ held = NULL
    /\ DisableRaces \/ dpc = "idle"
    /\ IF tableSize = 0
       THEN /\ handle' = "crashed"
            /\ UNCHANGED <<tableSize, table, heap, fheap, held, dpc, di, dcur, uaf, loopVars>>
       ELSE LET h == Hash(a)
                walk == Chain(h)
                hits == {j \in DOMAIN walk : heap[walk[j]].addr = a}
            IN IF hits # {}
               THEN /\ held' = walk[Min(hits)]
                    /\ uaf' = (uaf \/ Freed(ToSet(walk)))
                    /\ UNCHANGED <<handle, tableSize, table, heap, fheap, dpc, di, dcur, loopVars>>
               ELSE \E p \in Ptrs :
                      /\ ~heap[p].alloc
                      /\ heap' = [q \in Ptrs |->
                                   IF q = p
                                   THEN [alloc |-> TRUE, addr |-> a, row |-> h,
                                         flows |-> NULL,
                                         prev |-> NULL, next |-> table[h]]
                                   ELSE IF q = table[h]
                                        THEN [heap[q] EXCEPT !.prev = p]
                                        ELSE heap[q]]
                      /\ table' = [table EXCEPT ![h] = p]
                      /\ held' = p
                      /\ uaf' = (uaf \/ Freed(ToSet(walk)))
                      /\ UNCHANGED <<handle, tableSize, fheap, dpc, di, dcur, loopVars>>

\* Lines 281-285 and 591-598: malloc of the source fails; the lock is freed.
LookupAllocFails(a) ==
    /\ AllocMayFail
    /\ handle = "live" /\ held = NULL /\ tableSize # 0
    /\ DisableRaces \/ dpc = "idle"
    /\ UNCHANGED vars

(* dpi_ipv6_fragmentation_find_or_create_flow, lines 364-412: the held   *)
(* source's flow list is scanned for the key; on a miss a flow block is   *)
(* allocated and put at the head, the old head's prev pointed at it.  A  *)
(* failed malloc returns NULL and the call returns (Release).            *)
FindOrCreateFlow(k) ==
    /\ held # NULL /\ cdel = NULL
    /\ LET w == FlowChain(held)
           touched == Freed({held}) \/ FreedF(ToSet(w)) \/ handle = "freed"
       IN IF \E j \in DOMAIN w : fheap[w[j]].key = k
          THEN /\ uaf' = (uaf \/ touched)
               /\ UNCHANGED <<heap, fheap>>
          ELSE \E g \in FPtrs :
                 LET old == heap[held].flows IN
                 /\ ~fheap[g].alloc
                 /\ fheap' = [x \in FPtrs |->
                               IF x = g
                               THEN [alloc |-> TRUE, src |-> held, key |-> k,
                                     prev |-> NULL, next |-> old]
                               ELSE IF x = old THEN [fheap[x] EXCEPT !.prev = g]
                               ELSE fheap[x]]
                 /\ heap' = [heap EXCEPT ![held].flows = g]
                 /\ uaf' = (uaf \/ touched)
    /\ UNCHANGED <<handle, tableSize, table, held, dpc, di, dcur, loopVars>>

(* A call deletes a flow it reaches: its source's head (eviction, line   *)
(* 612), the head timer's (sweep, line 634) or its own (lines 684, 439,  *)
(* 448, 475).                                                             *)
DeleteFlow(g) ==
    /\ held # NULL /\ cdel = NULL /\ fheap[g].alloc
    /\ FreeFlow(g)
    /\ UNCHANGED <<handle, tableSize, table, held, dpc, di, dcur, dnext, dflow, cdel, cflow>>

(* The call deletes one source, its own or the head timer's, and returns   *)
(* (lines 614-618, 638-643, 440, 449, 476 with the unlock after them).     *)
(* dpi_ipv6_fragmentation_delete_source, lines 490-514: row and the first *)
(* flow are read (lines 493-496), then one loop iteration per flow        *)
(* (lines 497-501), then the unlink.                                      *)
DeleteSource(q) ==
    /\ held # NULL /\ cdel = NULL
    /\ q = held \/ heap[q].alloc
    /\ cdel' = q /\ cflow' = heap[q].flows
    /\ uaf' = (uaf \/ Freed({q}) \/ handle = "freed")
    /\ UNCHANGED <<handle, tableSize, table, heap, fheap, held, dpc, di, dcur, dnext, dflow>>

\* A plausible bug: the loop body runs once, as an if, not a while.
DeleteSourceFlowOnce ==
    /\ cdel # NULL /\ cflow # NULL
    /\ FreeFlow(cflow)
    /\ cflow' = NULL
    /\ UNCHANGED <<handle, tableSize, table, held, dpc, di, dcur, dnext, dflow, cdel>>

\* Lines 497-501: temp_flow = flow->next; delete_flow(flow); flow = temp_flow.
DeleteSourceFlow ==
    /\ cdel # NULL /\ cflow # NULL
    /\ FreeFlow(cflow)
    /\ cflow' = fheap[cflow].next
    /\ UNCHANGED <<handle, tableSize, table, held, dpc, di, dcur, dnext, dflow, cdel>>

\* Lines 503-513: the loop has ended; the source is unlinked and freed.
DeleteSourceUnlink ==
    /\ cdel # NULL /\ cflow = NULL
    /\ Unlink(cdel, handle = "freed")
    /\ held' = NULL /\ cdel' = NULL
    /\ UNCHANGED <<handle, tableSize, fheap, dpc, di, dcur, dnext, dflow, cflow>>

\* The call returns without deleting a source: the unlock of line 755.
Release ==
    /\ held # NULL /\ cdel = NULL
    /\ held' = NULL
    /\ uaf' = (uaf \/ handle = "freed")
    /\ UNCHANGED <<handle, tableSize, table, heap, fheap, dpc, di, dcur, loopVars>>

-----------------------------------------------------------------------------
(* dpi_reordering_disable_ipv6_fragmentation, lines 210-235, one step per  *)
(* bucket and per source.  It takes no lock; callers are expected to have *)
(* stopped, unless DisableRaces.                                          *)
DisableStart ==
    /\ handle = "live" /\ dpc = "idle"
    /\ DisableRaces \/ held = NULL
    /\ dpc' = "bucket" /\ di' = 0
    /\ UNCHANGED <<handle, tableSize, table, heap, fheap, held, dcur, uaf, loopVars>>

\* A plausible bug: the last bucket is never visited.
DisableBucketShort ==
    /\ dpc = "bucket"
    /\ IF di < tableSize - 1
       THEN IF table[di] = NULL
            THEN di' = di + 1 /\ UNCHANGED <<dpc, dcur, handle>>
            ELSE dcur' = table[di] /\ dpc' = "chain" /\ UNCHANGED <<di, handle>>
       ELSE handle' = "freed" /\ dpc' = "done" /\ UNCHANGED <<di, dcur>>
    /\ UNCHANGED <<tableSize, table, heap, fheap, held, uaf, loopVars>>

\* Lines 214-219 and 229-234: the next bucket, or, after the last one, the
\* table, the lock and the handle are freed.
DisableBucket ==
    /\ dpc = "bucket"
    /\ IF di < tableSize
       THEN IF table[di] = NULL
            THEN di' = di + 1 /\ UNCHANGED <<dpc, dcur, handle>>
            ELSE dcur' = table[di] /\ dpc' = "chain" /\ UNCHANGED <<di, handle>>
       ELSE handle' = "freed" /\ dpc' = "done" /\ UNCHANGED <<di, dcur>>
    /\ UNCHANGED <<tableSize, table, heap, fheap, held, uaf, loopVars>>

\* Lines 220-221: tmp_source = source->next, then delete_source reads the
\* source's first flow (line 496).
DisableSource ==
    /\ dpc = "chain"
    /\ dnext' = heap[dcur].next /\ dflow' = heap[dcur].flows
    /\ dpc' = "flows"
    /\ uaf' = (uaf \/ Freed({dcur}))
    /\ UNCHANGED <<handle, tableSize, table, heap, fheap, held, di, dcur, cdel, cflow>>

\* Lines 497-501 within the delete_source of line 221.
DisableFlow ==
    /\ dpc = "flows" /\ dflow # NULL
    /\ FreeFlow(dflow)
    /\ dflow' = fheap[dflow].next
    /\ UNCHANGED <<handle, tableSize, table, held, dpc, di, dcur, dnext, cdel, cflow>>

\* Lines 503-513 within that delete_source, then source = tmp_source (223).
DisableUnlink ==
    /\ dpc = "flows" /\ dflow = NULL
    /\ Unlink(dcur, FALSE)
    /\ dcur' = dnext
    /\ IF dnext = NULL THEN dpc' = "bucket" /\ di' = di + 1
                        ELSE dpc' = "chain" /\ UNCHANGED di
    /\ UNCHANGED <<handle, tableSize, held, fheap, dnext, dflow, cdel, cflow>>

Next ==
    \/ \E n \in TableSizes : Enable(n) \/ EnableFails(n)
    \/ \E a \in Addrs : Lookup(a) \/ LookupAllocFails(a)
    \/ \E k \in Keys : FindOrCreateFlow(k)
    \/ \E g \in FPtrs : DeleteFlow(g)
    \/ \E q \in Ptrs : DeleteSource(q)
    \/ DeleteSourceFlow \/ DeleteSourceUnlink
    \/ Release
    \/ DisableStart \/ DisableBucket \/ DisableSource \/ DisableFlow \/ DisableUnlink

Spec == Init /\ [][Next]_vars

-----------------------------------------------------------------------------
(* Properties.                                                             *)

Rec == [alloc: BOOLEAN, addr: Addrs \cup {<<>>}, row: 0 .. 65535,
        flows: FPtrs \cup {NULL}, prev: Ptrs \cup {NULL}, next: Ptrs \cup {NULL}]

FRec == [alloc: BOOLEAN, src: Ptrs \cup {NULL}, key: Keys \cup {NULL},
         prev: FPtrs \cup {NULL}, next: FPtrs \cup {NULL}]

TypeOK ==
    /\ handle \in {"none", "live", "freed", "crashed"}
    /\ tableSize \in {0} \cup TableSizes
    /\ table \in [0 .. tableSize - 1 -> Ptrs \cup {NULL}]
    /\ heap \in [Ptrs -> Rec] /\ fheap \in [FPtrs -> FRec]
    /\ held \in Ptrs \cup {NULL}
    /\ dpc \in {"idle", "bucket", "chain", "flows", "done"}
    /\ di \in 0 .. tableSize /\ dcur \in Ptrs \cup {NULL}
    /\ dnext \in Ptrs \cup {NULL} /\ cdel \in Ptrs \cup {NULL}
    /\ dflow \in FPtrs \cup {NULL} /\ cflow \in FPtrs \cup {NULL}
    /\ uaf \in BOOLEAN

Allocated == {p \in Ptrs : heap[p].alloc}

AllocatedFlows == {g \in FPtrs : fheap[g].alloc}

(* Spec section 3: the table is a set of doubly linked bucket chains.      *)
(* Across any sequence of lookups with head insertion (lines 293-299),    *)
(* deletes through row, prev and next (lines 504-510) and the disable     *)
(* walk: each chain ends, has no repeated block, links prev back to the   *)
(* block before it, holds only live sources hashed to that bucket whose   *)
(* row is that bucket; every live source is on a chain; and no address is *)
(* in the table twice.                                                     *)
ChainsWellFormed ==
    handle = "live" =>
      /\ \A i \in 0 .. tableSize - 1 :
           LET w == Chain(i) IN
           /\ Len(w) <= Cardinality(Ptrs) /\ IsInjective(w)
           /\ \A j \in 1 .. Len(w) :
                /\ heap[w[j]].alloc
                /\ heap[w[j]].row = i /\ Hash(heap[w[j]].addr) = i
                /\ heap[w[j]].prev = IF j = 1 THEN NULL ELSE w[j - 1]
      /\ Allocated = UNION {ToSet(Chain(i)) : i \in 0 .. tableSize - 1}
      /\ \A p, q \in Allocated : p # q => heap[p].addr # heap[q].addr

(* Spec sections 3 and 7: every flow is on its source's list, once.       *)
(* Across head insertions (lines 396-400), unlinks of head and inner     *)
(* flows (lines 340-350) in any order, and the flow loop of delete_source *)
(* (lines 495-501): each source's list ends, repeats no block, links prev *)
(* back to the flow before it (NULL at the head), holds only live flows   *)
(* whose source is that source, with distinct keys; and every live flow   *)
(* is on the list of a live source, so none is leaked.                    *)
FlowListsWellFormed ==
    handle = "live" =>
      /\ \A p \in Allocated :
           LET w == FlowChain(p) IN
           /\ Len(w) <= Cardinality(FPtrs) /\ IsInjective(w)
           /\ \A j \in 1 .. Len(w) :
                /\ fheap[w[j]].alloc /\ fheap[w[j]].src = p
                /\ fheap[w[j]].prev = IF j = 1 THEN NULL ELSE w[j - 1]
           /\ \A i, j \in DOMAIN w : i # j => fheap[w[i]].key # fheap[w[j]].key
      /\ AllocatedFlows = UNION {ToSet(FlowChain(p)) : p \in Allocated}

(* No step reads or writes a freed source or flow block or a freed       *)
(* handle: the disable walk saves the successor before delete_source      *)
(* (line 220), delete_source saves each flow's next before delete_flow    *)
(* (line 498), and a call never uses its source after deleting it.        *)
NoUseAfterFree == ~uaf

(* Once disable has freed the handle (line 234), no source or flow block   *)
(* is left allocated: the walk of lines 214-227 visits every bucket and   *)
(* chain, and delete_source every flow of each source.                    *)
TeardownReleasesAll ==
    handle = "freed" => Allocated = {} /\ AllocatedFlows = {}

(* Spec section 6 (configuration): the engine validates that the bucket   *)
(* count is at least 1.  enable (lines 132-165) accepts table_size 0 and  *)
(* the first lookup then takes h % 0 (line 251).                          *)
NoCrash == handle # "crashed"
====
