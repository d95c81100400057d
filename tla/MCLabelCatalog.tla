--------------------------- MODULE MCLabelCatalog ---------------------------
(* Instances of LabelCatalog. Connections and label sets are interchangeable. *)
EXTENDS LabelCatalog, TLC

Interchangeable == Permutations(Conn) \cup Permutations(LabelSet)
=============================================================================
