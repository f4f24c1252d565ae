---------------------------- MODULE FragmentList ----------------------------
(***************************************************************************)
(* The fragment-list primitive of reassembly.c (spec section 4.1), used by *)
(* the IPv6 engine at lines 719-741 and 459-460.  Its code is not in this  *)
(* repository; every operator here is modelled from the specification.    *)
(*                                                                         *)
(* A list is a sequence of half-open intervals <<offset, end>>, sorted by *)
(* offset.  Byte contents are not modelled: an interval stands for the     *)
(* buffer holding its end - offset bytes.                                  *)
(***************************************************************************)
EXTENDS Integers, Sequences, SequencesExt

\* The payload offsets an interval stands for.
Span(iv) == iv[1] .. iv[2] - 1

\* The offsets a list covers.
Covered(L) == UNION {Span(L[i]) : i \in DOMAIN L}

\* The bytes its buffers hold, which is what the engine's counters charge.
RECURSIVE ByteCount(_)
ByteCount(L) == IF L = <<>> THEN 0
                ELSE Head(L)[2] - Head(L)[1] + ByteCount(Tail(L))

\* Spec section 4.1: the parts of an existing interval that the newcomer
\* [off, end) does not cover; it is shrunk, split, or removed when the
\* newcomer subsumes it (later arrivals win on contested bytes, 9.3).
Outside(iv, off, end) ==
    SelectSeq(<<<<iv[1], Min({iv[2], off})>>, <<Max({iv[1], end}), iv[2]>>>>,
              LAMBDA p : p[1] < p[2])

RECURSIVE Trim(_, _, _)
Trim(L, off, end) ==
    IF L = <<>> THEN <<>>
    ELSE Outside(Head(L), off, end) \o Trim(Tail(L), off, end)

\* The newcomer is placed before the first interval that starts at or after
\* its end, which keeps the trimmed list sorted.
RECURSIVE Place(_, _)
Place(L, iv) ==
    IF L = <<>> \/ Head(L)[1] >= iv[2] THEN <<iv>> \o L
    ELSE <<Head(L)>> \o Place(Tail(L), iv)

\* Insert(list, bytes, offset, end) -> (bytes_inserted, bytes_removed).
\* Its precondition is offset < end; an empty fragment (offset = end),
\* which the engine passes on, leaves the list as it is.
Insert(L, iv) ==
    IF iv[1] >= iv[2] THEN [list |-> L, inserted |-> 0, removed |-> 0]
    ELSE LET T == Trim(L, iv[1], iv[2])
         IN [list |-> Place(T, iv),
             inserted |-> iv[2] - iv[1],
             removed |-> ByteCount(L) - ByteCount(T)]

\* dpi_reassembly_ip_check_train_of_contiguous_fragments: the list is one
\* train starting at offset 0.
IsContiguous(L) ==
    /\ L # <<>> /\ L[1][1] = 0
    /\ \A i \in 1 .. Len(L) - 1 : L[i + 1][1] = L[i][2]

\* dpi_reassembly_ip_compact_fragments: the count of bytes written, or -1
\* when it disagrees with the length declared by the last fragment.
Compact(L, len) == IF ByteCount(L) = len THEN len ELSE -1
====
