----------------------------- MODULE PagedScan -----------------------------
(***************************************************************************)
(* What a scan of a log window promises its caller, with no pages, cursors *)
(* or requests in it: the entries of the window are delivered in batches,  *)
(* each entry at most once, in the order of the scan, never past the       *)
(* user's limit; the scan finishes at the limit or when nothing that was   *)
(* stored at its start is missing.  The store may grow meanwhile.          *)
(***************************************************************************)
EXTENDS Integers, FiniteSets

CONSTANTS Entry, StartNs, EndNs, Direction, UserLimit

VARIABLES store, atStart, delivered, finished

vars == <<store, atStart, delivered, finished>>

Due == {e \in atStart : StartNs <= e.ts /\ e.ts < EndNs}

Precedes(e, f) == IF Direction = "forward" THEN e.ts < f.ts ELSE e.ts > f.ts

Init ==
    /\ store \in SUBSET Entry
    /\ atStart = store
    /\ delivered = {}
    /\ finished = FALSE

Grow ==
    /\ store' \in SUBSET Entry
    /\ store \subseteq store'
    /\ UNCHANGED <<atStart, delivered, finished>>

\* A batch of new entries: none precedes what was delivered, and nothing due
\* that precedes it is left behind.
Deliver(batch) ==
    /\ ~finished
    /\ \A e \in batch : StartNs <= e.ts /\ e.ts < EndNs
    /\ Cardinality(delivered \cup batch) <= UserLimit
    /\ \A e \in batch, d \in delivered : ~Precedes(e, d)
    /\ \A e \in Due, f \in batch : Precedes(e, f) => e \in delivered \cup batch
    /\ delivered' = delivered \cup batch
    /\ finished' \in BOOLEAN
    /\ finished' => Cardinality(delivered') = UserLimit \/ Due \subseteq delivered'
    /\ UNCHANGED <<store, atStart>>

Next ==
    \/ Grow
    \/ \E batch \in SUBSET (store \ delivered) : Deliver(batch)

Spec == Init /\ [][Next]_vars
=============================================================================
