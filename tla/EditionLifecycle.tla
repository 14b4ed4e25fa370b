-------------------------- MODULE EditionLifecycle --------------------------
(***************************************************************************)
(* What enrichment promises, without queue, goroutines or in-flight map:   *)
(* every ISBN has one edition row and at most one fetch at a time; a fetch *)
(* never runs on an enriched edition; the cover is attached during the     *)
(* fetch, before the step that makes the edition enriched; and a fetch may *)
(* always be abandoned.  EnrichWorker implements this specification, and   *)
(* BookShelf composes the HTTP handlers with it.                           *)
(***************************************************************************)
EXTENDS EditionTable

VARIABLES
    editions,   \* the table
    fetching    \* the ISBNs that are being fetched

lifecycleVars == <<editions, fetching>>

LifecycleTypeOK ==
    /\ editions \in Tables
    /\ fetching \in SUBSET Isbns

LifecycleInit ==
    /\ editions = EmptyTable
    /\ fetching = {}

-----------------------------------------------------------------------------
(* A book that references ISBN i was stored. *)
Request(i) ==
    /\ editions' = EnsureEdition(editions, i)
    /\ UNCHANGED fetching

(* A manual refresh of ISBN i was accepted. *)
Refresh(i) ==
    /\ editions' = MarkEditionPending(editions, i)
    /\ UNCHANGED fetching

BeginFetch(i) ==
    /\ i \notin fetching
    /\ editions[i].status \in {"pending", "failed"}
    /\ fetching' = fetching \cup {i}
    /\ UNCHANGED editions

AttachCover(i) ==
    /\ i \in fetching
    /\ editions[i].status \in {"pending", "failed"}
    /\ editions' = SaveCover(editions, i)
    /\ UNCHANGED fetching

CompleteFetch(i, m) ==
    /\ i \in fetching
    /\ editions' = SaveEnrichment(editions, i, m, "enriched")
    /\ fetching' = fetching \ {i}

FailFetch(i) ==
    /\ i \in fetching
    /\ editions' = SaveEnrichment(editions, i, NoMeta, "failed")
    /\ fetching' = fetching \ {i}

(* The outcome of the fetch could not be stored. *)
AbandonFetch(i) ==
    /\ i \in fetching
    /\ fetching' = fetching \ {i}
    /\ UNCHANGED editions

FetchStep(i) ==
    \/ BeginFetch(i)
    \/ AttachCover(i)
    \/ \E m \in Metas : CompleteFetch(i, m)
    \/ FailFetch(i)
    \/ AbandonFetch(i)

LifecycleRestart ==
    /\ editions' = AfterRestart(editions)
    /\ fetching' = {}

LifecycleNext ==
    \/ \E i \in Isbns : Request(i) \/ Refresh(i) \/ FetchStep(i)
    \/ LifecycleRestart

LifecycleSpec == LifecycleInit /\ [][LifecycleNext]_lifecycleVars
=============================================================================
