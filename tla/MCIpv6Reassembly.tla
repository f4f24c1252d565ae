------------------------- MODULE MCIpv6Reassembly --------------------------
(* Model-checking instance of Ipv6Reassembly: two sources, two flow keys,  *)
(* a datagram of three payload bytes, one-byte records.                    *)
EXTENDS Ipv6Reassembly

CONSTANTS s1, s2, k1, k2

MCSrcs == {s1, s2}
MCKeys == {k1, k2}

\* One flow key per source, for the liveness run.
MCOneKey == {k1}

Symmetry == Permutations(MCSrcs) \cup Permutations(MCKeys)
====
