------------------------- MODULE AbstractReassembler -------------------------
(***************************************************************************)
(* What the reassembly engine promises its callers (spec sections 4.5 and *)
(* 8), without memory, sources, timers or locking.                         *)
(*                                                                         *)
(* The engine keeps a set of datagrams being reassembled.  Each has the   *)
(* payload bytes received so far and its declared length (0 while no      *)
(* last fragment is known).  A call either keeps a fragment, or forgets    *)
(* datagrams (eviction, expiry, failure), or returns a complete datagram. *)
(* What a call returns is out: a datagram, or NULL when it returns none.  *)
(***************************************************************************)
EXTENDS Integers, FiniteSets

CONSTANTS
    Ids,        \* datagram identities
    MaxLen,     \* largest payload length
    NULL        \* the none result

VARIABLES
    dgrams,     \* Ids being reassembled -> [len, bytes]
    out         \* the result of the last call

vars == <<dgrams, out>>

Pos == 0 .. MaxLen - 1
Result == [id: Ids, len: 1 .. MaxLen]

Init == dgrams = [d \in {} |-> 0] /\ out = NULL

\* A step may also end the call with a none result.
Done == out' \in {out, NULL}

\* A datagram is started with nothing received.
Open(d) ==
    /\ d \notin DOMAIN dgrams
    /\ dgrams' = [x \in DOMAIN dgrams \cup {d} |->
                    IF x = d THEN [len |-> 0, bytes |-> {}] ELSE dgrams[x]]
    /\ Done

\* A fragment [off, end) is kept; a last fragment declares the length,
\* once (a second one is dropped).
Keep(d, off, end, last) ==
    /\ d \in DOMAIN dgrams
    /\ last => dgrams[d].len = 0
    /\ dgrams' = [dgrams EXCEPT
                    ![d].bytes = @ \cup {b \in Pos : off <= b /\ b < end},
                    ![d].len = IF last THEN end ELSE @]
    /\ Done

\* Datagrams are forgotten: evicted, expired or failed.
Forget(D) ==
    /\ D # {} /\ D \subseteq DOMAIN dgrams
    /\ dgrams' = [x \in DOMAIN dgrams \ D |-> dgrams[x]]
    /\ Done

\* A call returns none and changes nothing kept.
Idle ==
    /\ out' = NULL
    /\ UNCHANGED dgrams

\* Spec section 8, round trip: a datagram is returned exactly once, when
\* its received bytes are exactly [0, len); it is then forgotten.
Deliver(d) ==
    /\ d \in DOMAIN dgrams
    /\ dgrams[d].len # 0
    /\ dgrams[d].bytes = 0 .. dgrams[d].len - 1
    /\ out' = [id |-> d, len |-> dgrams[d].len]
    /\ dgrams' = [x \in DOMAIN dgrams \ {d} |-> dgrams[x]]

Next ==
    \/ \E d \in Ids : Open(d) \/ Deliver(d)
    \/ \E d \in Ids, off \in 0 .. MaxLen, end \in 0 .. MaxLen, last \in BOOLEAN :
          Keep(d, off, end, last)
    \/ \E D \in SUBSET Ids : Forget(D)
    \/ Idle

Spec == Init /\ [][Next]_vars
====
