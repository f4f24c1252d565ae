---------------------------- MODULE MCSourceHash ----------------------------
(* Model-checking instance of SourceHash: three 4-byte addresses, two of   *)
(* which share bucket 0 of a 3-bucket table, three source blocks, two    *)
(* flow blocks and two flow keys.                                         *)
EXTENDS SourceHash

CONSTANTS p1, p2, p3, f1, f2, k1, k2

MCPtrs == {p1, p2, p3}
MCFPtrs == {f1, f2}
MCKeys == {k1, k2}

\* Hashes 3, 1032 and 18089: buckets 0, 0 and 2 of three.  Without the
\* u_int16_t store the third would hash to 6620841, bucket 0.
MCAddrs == {<<0, 0, 0, 3>>, <<0, 1, 0, 1>>, <<200, 100, 50, 25>>}

Symmetry == Permutations(MCPtrs) \cup Permutations(MCFPtrs)
====
