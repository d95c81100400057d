----------------------------- MODULE MCLokiScan -----------------------------
(* Instances of LokiScan: window [1, 4), pages and chunks of unequal sizes. *)
EXTENDS LokiScan

CONSTANTS a, b, m

SparseEntries ==
    [ts : 1 .. 2, content : {a, b}, meta : {m}] \cup [ts : {3, 4}, content : {a}, meta : {m}]

\* The hypothesis of SparseNeverTruncated and PagingIsInvisible.
ASSUME NothingEndsTheScanEarly == Sparse
=============================================================================
