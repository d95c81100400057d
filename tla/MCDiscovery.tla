----------------------------- MODULE MCDiscovery -----------------------------
(* Instances of Discovery and TimeBounds: a 6-bit word, base 3, a day of 7  *)
(* nanoseconds, chunks of two rows.                                        *)
EXTENDS Discovery

MCInstants == [at : -18 .. 18]

MCBound ==
    [months : {0}, days : -6 .. 6, micros : Word]
        \cup [months : {1}, days : {0}, micros : {0}] \cup MCInstants

MCNow == {0 - MaxNs - 1, -9, 0, 20, MaxNs}

MCUnits == [ms |-> 1, s |-> 2, m |-> 4, h |-> 8, d |-> 16]

Digits == UNION {[1 .. n -> 0 .. Radix - 1] : n \in 0 .. 4}

MCDuration == [digits : Digits, unit : {"", "ms", "s", "m", "h", "d", "w"}]

\* Bounds at, around and far from the epoch, from both ends of the word.
LookupBounds ==
    {Omitted} \cup [at : {-16, -1, 0, 1, 15, 16}]
        \cup [months : {0}, days : {-2, 1}, micros : {-3, 0}]
        \cup [months : {1}, days : {0}, micros : {0}]

MCLookup ==
    [kind : {"discovery"}, via : {"loki_labels", "loki_label_values", "loki_series"},
     argument : BOOLEAN, start : LookupBounds, end : LookupBounds, now : {20}]
        \cup [kind : {"discovery"}, via : {"labels table", "series table"},
              argument : BOOLEAN, start : {Omitted}, end : {Omitted}, now : {20}]
=============================================================================
