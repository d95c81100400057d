--------------------------- MODULE MCStreamPager ---------------------------
(* Instances of StreamPager: window [1, 4), one nanosecond outside it.     *)
EXTENDS StreamPager

CONSTANTS a, b, c, m, n

\* A burst of three entries in one nanosecond, and neighbours of it.
BurstEntries ==
    [ts : {2}, content : {a, b, c}, meta : {m}] \cup [ts : {1, 3}, content : {a, b}, meta : {m}]

GarbledEntries == [ts : {2}, content : {c}, meta : {m}]

\* A burst with a twin and a garbled entry, an entry outside the window.
MixedEntries ==
    [ts : {2}, content : {a, b, c}, meta : {m}] \cup [ts : {3}, content : {a, b}, meta : {m}]
        \cup [ts : {0, 1}, content : {a}, meta : {m}] \cup [ts : {2}, content : {a}, meta : {n}]
=============================================================================
