---------------------------- MODULE EditionTable ----------------------------
(***************************************************************************)
(* The shared `editions` and `book_covers` tables as the two stores of     *)
(* internal/books keep them, and the operations on them, as pure operators *)
(* on a table value.                                                       *)
(*                                                                         *)
(* A table is a function from ISBNs to rows.  A row whose status is "none" *)
(* is a row that does not exist (no map entry, no SQL row).  `meta` stands *)
(* for the metadata columns and enriched_at, which are always written      *)
(* together; NoMeta is their state before the first successful lookup.     *)
(* `hasCover` is the column has_cover of the edition and `bytes` says that *)
(* book_covers has a row for the ISBN: the first decides the cover URL,    *)
(* the second what the cover endpoint finds.                               *)
(* ISBNs are positive integers because PendingEnrichment orders them.      *)
(***************************************************************************)
EXTENDS Naturals, FiniteSets

CONSTANTS
    Isbns,      \* canonical ISBNs, the keys of the table
    Metas,      \* the metadata records a lookup can return
    NoMeta,     \* no metadata stored, or a nil *Metadata
    Durable     \* TRUE: PostgresStore; FALSE: MemoryStore, lost on restart

ASSUME EditionTableAssumption ==
    /\ Isbns \subseteq Nat \ {0}
    /\ IsFiniteSet(Isbns)
    /\ NoMeta \notin Metas
    /\ Durable \in BOOLEAN

Statuses == {"pending", "enriched", "failed"}

Rows == [status   : Statuses \cup {"none"},
         meta     : Metas \cup {NoMeta},
         hasCover : BOOLEAN,
         bytes    : BOOLEAN]

Tables == [Isbns -> Rows]

NoRow == [status |-> "none", meta |-> NoMeta, hasCover |-> FALSE, bytes |-> FALSE]

EmptyTable == [i \in Isbns |-> NoRow]

HasRow(t, i) == t[i].status # "none"

(* What a restart of the process leaves in the table. *)
AfterRestart(t) == IF Durable THEN t ELSE EmptyTable

-----------------------------------------------------------------------------
(* EnsureEdition: INSERT ... ON CONFLICT DO NOTHING. *)
EnsureEdition(t, i) ==
    IF HasRow(t, i) THEN t ELSE [t EXCEPT ![i].status = "pending"]

(* Faulty variant: the conflict clause of EnsureEdition used by mistake. *)
MarkEditionPendingDoNothing(t, i) == EnsureEdition(t, i)

(* MarkEditionPending: upsert that forces the status and keeps the rest. *)
MarkEditionPending(t, i) == [t EXCEPT ![i].status = "pending"]

(* Faulty variant: the metadata columns are written even from a nil m. *)
SaveEnrichmentOverwrites(t, i, m, s) ==
    [t EXCEPT ![i].status = s, ![i].meta = m]

(* SaveEnrichment: a nil m (NoMeta) updates the status alone. *)
SaveEnrichment(t, i, m, s) ==
    [t EXCEPT ![i].status = s, ![i].meta = IF m = NoMeta THEN @ ELSE m]

(* book_covers.isbn references editions(isbn): Postgres refuses a cover    *)
(* for an ISBN that has no edition row.                                    *)
CoverAccepted(t, i) == Durable => HasRow(t, i)

(* Faulty variant: the flag is set and the bytes are not kept. *)
SaveCoverFlagOnly(t, i) ==
    IF CoverAccepted(t, i)
    THEN [t EXCEPT ![i].hasCover = TRUE,
                   ![i].status   = IF @ = "none" THEN "pending" ELSE @]
    ELSE t

(* SaveCover: bytes and flag in one transaction (one critical section), or *)
(* nothing when the foreign key refuses.  MemoryStore has no foreign key   *)
(* and creates the missing row.                                            *)
SaveCover(t, i) ==
    IF CoverAccepted(t, i)
    THEN [t EXCEPT ![i].bytes    = TRUE,
                   ![i].hasCover = TRUE,
                   ![i].status   = IF @ = "none" THEN "pending" ELSE @]
    ELSE t

(* The editions that still need work. *)
Due(t) == {i \in Isbns : t[i].status \in {"pending", "failed"}}

(* PendingEnrichment: the `limit` smallest due ISBNs (ORDER BY isbn LIMIT). *)
PendingEnrichment(t, limit) ==
    {i \in Due(t) : Cardinality({j \in Due(t) : j < i}) < limit}
=============================================================================
