---- MODULE MCV4Compression ----
(* A small instance of V4Compression for TLC: three finished teacher runs, and one *)
(* session at a time.                                                              *)
EXTENDS V4Compression

CONSTANTS v1, v2, v3

\* "a" fits, "b", "d" and "e" are too long and wordy, "c" was cut off by the token limit,
\* "x" is too long although it kept its budget.  The second run has nothing to compress.
MCRecords == [v \in Sources |->
    CASE v = v1 -> <<"b", "a", "c", "d", "e">> [] v = v2 -> <<"a", "c">> [] v = v3 -> <<"b", "x">>]
====
