--------------------------- MODULE MCEnrichWorker ---------------------------
(* EnrichWorker on small instances. *)
EXTENDS EnrichWorker, TLC

(* Goroutines of the same kind are interchangeable (safety runs only). *)
Goroutines == Permutations(Workers) \cup Permutations(Clients)
=============================================================================
