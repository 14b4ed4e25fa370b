# Verification of the ex-libris book API

TLA+ models of the book-tracking API in this repository: the in-process
enrichment worker that fetches metadata and covers per ISBN, the HTTP handlers
and the two stores, the search endpoint with its cache, the upstream providers,
and how a process starts, migrates its database and lets callers in. TLC checks
them on small instances; TLAPS proves every safety invariant and action property
that the passing runs check, and that the worker implements an abstract
specification, for every instance.

## The system

| Component | State | Operations | Modelled in |
|---|---|---|---|
| Enrichment worker, `internal/enrich/worker.go` | in-flight map (mutex), bounded queue (channel), worker goroutines, reconciler, context | `Enqueue`, `Run`, `process`, `reconcile`, `markInFlight`, `unmarkInFlight` | `EnrichWorker`, abstractly `EditionLifecycle` |
| Editions and covers, `store_postgres.go`, `store_memory.go`, migration 0003 | one row per ISBN: status, metadata, has_cover; cover bytes | `EnsureEdition`, `MarkEditionPending`, `PendingEnrichment`, `EditionStatus`, `SaveEnrichment`, `SaveCover` | `EditionTable` |
| Book handlers, `internal/books/handlers.go`, `book.go` | one goroutine per request with its local copy of a book | create, list, get, update, delete, cover, refresh | `BookShelf` |
| Books table, both stores | one row per book, owned by a user | `Create`, `Get`, `List`, `Update`, `Delete`, `CoverForBook` | `BookShelf` |
| Process, `cmd/api/main.go` | the context, the HTTP server | start, signal, shutdown, restart | `EnrichWorker`, `BookShelf`, `Startup` |
| ISBN rules, `isbn.go`, migration 0004, `pickISBN` | none | `canonicalISBN`, `pickISBN`, the column check | `Isbn` |
| Providers, `fallback.go`, `httpclient.go`, `openlibrary.go`, `googlebooks.go` | none between calls | `Lookup`, `FetchCover`, `Search`, retry with backoff | `Provider`; their outcomes in `EnrichWorker` and `SearchEndpoint` |
| Search, `internal/search/handlers.go` | TTL cache, size-bounded | search, cache get and put | `SearchEndpoint` |
| Authentication, `internal/auth/auth.go` | verifier | `Verify`, both middlewares, `requireUser` | `Startup` |
| Migrations, `migrations/`, `Migrate` | schema and rows of the database | `Migrate` on every start | `Startup` |

How they interact. A handler stores a book, makes sure the ISBN has an edition
row, calls `Enqueue` and re-reads the book joined with the edition. `Enqueue`
never blocks: a duplicate is coalesced through the in-flight map and a full
queue drops the ISBN. A worker goroutine reads the edition's status, looks the
ISBN up, fetches and saves the cover, saves the metadata with status `enriched`
(or marks it `failed`) and only then removes the mark. The reconciler sweeps
pending and failed editions at start and every 15 minutes and enqueues them.
All of them share the store and the process, which can be told to stop, or
crash, anywhere. A search is answered from the cache or by Open Library under a
deadline. Before any of this a process runs every migration again and builds the
auth middleware, or exits.

What is hard here: callers, workers and the reconciler interleave on the map,
the channel and the table without a common lock; a job is five separate calls
any of which can fail or be cut by a crash; shutdown cancels the context of the
store calls too and does not wait for the worker; a PATCH is a read and a write
with everything in between; searches overlap on a cache at its limit; retries,
backoffs, the client's timeout and the caller's deadline race; migrations run
beside other processes, one of them of an older release. `PROJECT.json` lists these hazards line by line.

What makes each part correct. Worker: one fetch per ISBN at a time, no mark
outlives its job, cover before `enriched`, nothing is lost for ever. Editions:
metadata and covers are never erased, every queued ISBN has a row. Handlers:
users are isolated, every book gets an edition, deleted books stay deleted,
announced covers exist, PATCH changes what it names. Search: the cache stays
bounded, answers are recent and as short as asked, what is shown can be posted.
Providers: what a catalogue holds is found if it can be heard, errors say what
happened, calls end in time. Start: no book is deleted that is not a ghost, the
service comes up, and never open by accident.

## Modules

* `EditionTable` - the editions table as a value and its operations as
  operators. `meta` stands for all metadata columns with `enriched_at`, which are
  always written together; `bytes` is the row of book_covers and `hasCover` the
  flag that announces it; status `"none"` is a missing row. `Durable` chooses
  PostgresStore or MemoryStore. ISBNs are numbers because sweeps order them.
* `EditionLifecycle` - the abstract specification: a table and the set of ISBNs
  being fetched. A fetch begins only on a pending or failed edition, is the only
  one of its ISBN, may attach a cover and then completes, fails or is abandoned.
* `EnrichWorker` - worker.go in detail, one action per critical section, channel
  operation, store call or upstream call. `wpc/wisbn/wmeta` are a worker
  goroutine's position and locals, `epc/eisbn` a caller's inside `Enqueue`,
  `rpc/due` the reconciler's. `owed` is a history variable: which accepted
  refreshes have not been followed by a `Lookup`. It INSTANCEs
  `EditionLifecycle` with `fetching` as the ISBNs of workers between status
  check and save.
* `BookShelf` - handlers.go over the books table, one action per store call,
  extending `EditionLifecycle`, whose steps stand for the worker. This is sound
  because `EnrichWorker` is proved to implement it. In a book, `title` is the
  pair of names the edition may supply and `notes` the fields only the user
  writes. 401 and 422 answers, timestamps and list order are left out: they
  change no state the properties see (`Startup` has them). `response` is what the
  step sent. `seen`, the title a PATCH read, is history. The ISBN shape check of a PATCH comes
  after the read and before the write, and a refused PATCH writes nothing.
* `Isbn` - ISBNs as text: the characters that remain without separators, their
  shape, and how they are spelled (hyphens and spaces, tabs and no-break spaces,
  a lower-case x). Kind "ten" is what `pickISBN` counts as ten bytes and is no
  ISBN: an ASIN, or nine digits and a tab. `canonicalISBN`, `pickISBN`, the request schema and the check
  of migration 0004 are operators on such texts, so where they disagree shows.
  The loop of `pickISBN` is the first position of each kind in the list, and the
  one of `Search` (`HitsOf`) the n-th usable position, rather than `SelectSeq`,
  which the prover does not know.
* `SearchEndpoint` - handlers.go of the search package: a request looks the key
  up, calls Open Library, and stores and returns the answer, in separate steps;
  `put` is one step (it holds the mutex). Time is relative: `elapsed` of a
  request, `left` of an entry until it expires, and the history `age` of an
  answer. `Tick` moves all of them. That Open Library honours `limit` is assumed,
  an assumption on an external service: the code sends `limit` and does not cut
  the answer itself, so `LimitRespected` is about the cache.
* `Provider` - one call of `Lookup`, `FetchCover` or `Search` down to the attempts
  of `httpGetWithRetry`: send, wait for headers, read the body, back off. What
  the catalogues hold (a record, a link to a cover, image bytes behind it) is
  chosen by `Call` and stays hidden from the code; at any
  moment an attempt may be answered, refused, broken off or met with silence.
  Calls share no state, so one caller is enough. `EnrichWorker` uses its outcomes
  as record, no record or failure, `SearchEndpoint` as answer, deadline or failure.
* `Startup` - processes run the migrations, configure authentication and serve,
  while a process of an older release may still write rows without owner, without
  ISBN or with an ISBN as it was typed. A migration is one transaction. That of
  0004 is two steps: `DeleteGhosts` notes in `deleted` what it removes, unseen by
  others, and `Alter` checks what is left and commits, or `AlterFails` rolls back
  and exits; rows written in between count. An ALTER waits for every transaction
  that has used the table, so two processes between the steps deadlock and
  Postgres ends one of them (`Deadlocked`). In 0001 to 0003 the processes in the
  same migration may lose to the one that commits. All seven operations on books
  are there, reduced to what authentication, ownership and the ISBN rules decide.
* `MCEnrichWorker`, `MCBookShelf`, `MCSearchEndpoint`, `MCStartup` - small input
  sets and symmetry sets for TLC. `Provider` needs none.
* `EnrichWorkerProofs`, `BookShelfProofs`, `ProviderProofs`, `IsbnProofs`,
  `SearchEndpointProofs`, `StartupProofs` - the theorems.

Definitions whose comment starts with "Faulty variant" are used by nothing: each
is a plausible bug that one of the properties detects when it replaces the
definition that follows (see `mutants` in `PROJECT.json`).

Failures. A worker's store write takes effect or fails; an error reported after
the write took effect behaves like success, since the worker only logs. A
handler's store call may also fail after taking effect, and the handler then
returns early. A cancelled context makes Postgres and upstream calls fail for
free. All other errors, crashes and shutdown requests are counted against
`MaxDisruptions` (`MaxFaults` in `BookShelf`).

## Runs

| Run | Instance | Shows |
|---|---|---|
| `enrich_postgres` | 2 workers, 1 handler and the reconciler, 2 ISBNs, queue of 1, 1 disruption | type correctness, `OneFetchPerIsbn`, `NoLeakedMark`, `CoverBeforeEnriched`, `QueuedHaveRow`, `QuietRefreshStaysPending`, `EnrichmentNeverErased`, and that the worker implements `EditionLifecycle` |
| `enrich_backstop` | 1 worker, 2 ISBNs of which 1 always fails, queue and sweep of 1, 1 disruption | liveness: `Backstop`, with drops, with more due than a sweep takes, and through an error, a crash or a shutdown |
| `sweep_starvation` | sweep of 1, ISBN 1 always fails | counterexample to "nothing is permanently lost" |
| `lost_refresh` | 1 worker, 1 ISBN | counterexample to "so the worker re-fetches" |
| `shelf` | 2 overlapping requests, 2 users, 1 book, 2 ISBNs, the worker, 1 fault | `TenantIsolation`, `NoResurrection`, `EveryBookHasEdition`, `CoverURLResolves`, `UserTitleWins`, types |
| `patch_bakes_title`, `patch_lost_update`, `book_without_edition` | 1 book | counterexamples to what comments say of PATCH and of the reconciler |
| `search_cache` | 2 overlapping requests, 4 queries with 3 keys, room for 2 entries, TTL 2, deadline 1 | `CacheBounded`, `EvictsOldestOnly`, `AnswersAreRecent`, `LimitRespected`, `HitsKeyTheirEdition`, types |
| `unpostable_hit` | 1 request; a work that lists ten bytes which are no ISBN | counterexample to "all POST /books needs" |
| `provider` | client timeout 7, search deadline 6, backoff unit 1 | `FindsWhatIsHeld`, `VerdictIsReal`, `BoundedEffort`, types; liveness: `CallReturns` |
| `startup` | 2 processes and an older one, 1 row, 5 environments, 5 tokens, 1 fault | `NeverSilentlyOpen`, `PreAuthRowsUntouched`, `OnlyGhostsDeleted`, `AcceptedIsStorable`, types; liveness: `ComesUp` |

Bounds. Two workers, and a handler beside the reconciler, are the fewest with
every race of interest: two goroutines on one ISBN, a caller between a failed
send and its unmark while another calls `Enqueue`. A queue of one is full as
soon as it is used. Two ISBNs let one fill the queue or the sweep while the
other is dropped. One disruption anywhere covers any single failure at any
point; the proofs cover any number. `Backstop` says of each ISBN that it does not
stay for ever pending and among the smallest `SweepLimit` due ones, once requests
stop. In `enrich_backstop` the second ISBN overfills the queue of one, so that
`Enqueue` drops it, and is due beyond the sweep of one until the first is
enriched. The queue holds a whole sweep, as in the code (128 against 100); with a
smaller queue (1 against 2) TLC finds that the smallest ISBNs can fill it in every
sweep. `Backstop` was also checked with `Isbns = {1, 2, 3}`, `Missing = {1, 3}`,
`QueueSize = SweepLimit = 2` and no disruption; with a disruption that instance
takes too long for a regular run. In `shelf` two handlers are the fewest
that overlap, two users the fewest that can interfere, and two ISBNs let one
PATCH move a book while another still holds the old copy; PATCHes give one field
each, and those of the ISBN move a book to the second (the proofs are about any). In `search_cache` one key more than there is room for forces eviction while
requests overlap, and a TTL longer than the deadline leaves an old answer time to
be stored again. In `provider` the client timeout exceeds the search deadline,
which exceeds the sum of the backoffs, as in the code (10 s, 5 s, 1 s); three
attempts are the code's. In `startup` two processes meet in one migration, the one row
may be written between the steps of 0004, and the old texts are one ghost, one legal spelling and one that the check refuses. None
of the specifications deadlocks.

The `enrich_*` runs use PostgresStore; for MemoryStore the
same safety properties are proved.

Fairness. `enrich_backstop`, `sweep_starvation`: weak fairness for every
goroutine's next step: the Go scheduler runs what can run, calls return (HTTP
clients and contexts have deadlines), the ticker ticks, a process told to stop
stops and is started again. Requests, errors and crashes are not fair. Liveness
is claimed only once requests stop arriving; disruptions are finitely many.
`provider`: weak fairness for the call's next step, time included; no catalogue
has to answer and nobody has to cancel. `startup`: weak fairness for each process
that is starting: the container runtime restarts one that exits, and it runs.
`ComesUp` is claimed for environments that can work and once every row is blank
or of the checked shape; one row that is neither keeps every process from
starting until somebody repairs it. The older release writes finitely many rows
(`Ids`): one that wrote a ghost between the DELETE and the ALTERs of every attempt
would make every attempt fail.

## Where code and comments disagree

1. A refresh that arrives between a worker's `Lookup` and its save is coalesced
   and overwritten (`lost_refresh`; handlers.go:431). `QuietRefreshStaysPending`
   is the part of the promise that holds.
2. Failed editions stay in every sweep and a sweep takes the smallest 100, so
   more than 100 of them starve larger ISBNs (`sweep_starvation`;
   worker.go:55-57). In the run the job is lost to an error or a restart; a full
   queue loses it in the same way. `Backstop` is the part that holds.
3. PATCH writes back the merged view, so the edition's title becomes the user's
   (`patch_bakes_title`; handlers.go:54-56).
4. Overlapping PATCHes of different fields lose one (`patch_lost_update`; same
   comment).
5. A crash between `Create` and `EnsureEdition` leaves a book that no sweep after
   the restart can find (`book_without_edition`; worker.go:18-20): the run
   creates a book and crashes. Only a refresh, or a PATCH to another ISBN,
   repairs it. A store error between the two has the same effect.
6. `pickISBN` takes any ten bytes for an ISBN-10, so search can suggest a book
   that POST /books refuses with 422 (`unpostable_hit`; search/handlers.go:87,
   openlibrary.go:168).

Noted while modelling, without a run of their own. search/handlers.go:27-29 speaks
of "some twenty seconds" without the deadline; `BoundedEffort` gives three client
timeouts and two backoffs, 31 s. `FallbackProvider` returns the secondary's
verdict even when the primary merely failed, so `ErrNotFound` can mean that one
catalogue was not heard (`VerdictIsReal` speaks of the last one asked); the worker
treats all errors alike. Storing a key that is already present in a full cache
still evicts another entry, which `EvictsOldestOnly` allows.

## Proofs

`EnrichWorkerProofs` proves, for all sets of workers, clients and ISBNs, every
queue size, sweep limit and number of disruptions, and for both stores, from the
assumptions `EditionTableAssumption` and `EnrichWorkerAssumption` alone:
`TypeCorrect`, `NeverFetchedTwice`, `MarksDoNotLeak`, `EnrichedAfterCover`,
`QueuedIsStored`, `QuietRefreshKept`, `DataNeverErased` and `Refinement`.

None of the invariants is inductive alone. `IndInv` adds what they rest on:
* `Marked` and `Unique`: queue entries, busy workers and callers past
  `markInFlight` each hold a marked ISBN, and no two of them the same one. With
  `NoLeakedMark` this says that every mark has exactly one owner; `Enqueue`,
  `Take` and `Unmark` hand the mark on.
* `LocalsSet`, `QueuedHaveRow`, `DueHaveRow`: locals are set where they are used
  and every ISBN under way has a row.
* `FetchedIsDue`: a fetch runs on a pending or failed edition. It needs `Unique`:
  the step that makes an edition enriched ends the only fetch of it.
* `QuietInv`: a quiet refresh is pending and no worker holds an older result.

The lemmas `*Facts` say what each table operation does; `TypeStep`,
`OwnershipStep`, `LocalsStep`, `RowsStep`, `FetchedStep` and `QuietStep` have one
step per action. `Refinement` maps `Take`, `Lookup`, `FetchCover`, `Unmark`, the
queue and the reconciler to stuttering, `ReadStatus` to `BeginFetch` or nothing,
the saves to `AttachCover`, `CompleteFetch`, `FailFetch` or `AbandonFetch`, and
exit and crash to `LifecycleRestart`.

`BookShelfProofs` proves, for all sets of handlers, users, books and ISBNs, every
PATCH body and number of faults, and for both stores, from
`EditionTableAssumption` and `BookShelfAssumption`: `ShelfTypeCorrect`,
`BooksHaveEditions`, `UsersAreIsolated`, `DeletedStaysDeleted`, `TypedTitleWins`
and `AnnouncedCoversResolve`, every property of the `shelf` run. The invariant has two parts:
* `ShelfInv`: types, and what a PATCH between its read and its write holds: a copy
  with the owner it acts for (so that the write cannot change hands) and with the
  title it read, if a client typed it (so that an edition's title reaches the row
  only where the row had none, or had another one when it was read).
* `EditionInv`: `EveryBookHasEdition` for stored books and also for the copies
  that PATCHes hold. A PATCH that keeps the ISBN ensures nothing, and may write
  back an ISBN that another PATCH has replaced meanwhile; the row behind it is
  there because rows never go, or is promised by the handler still at "ensure".

There is one lemma per action (`CreateStep` to `CrashOK`), each showing `StepOK`:
the invariant, what the action properties ask of one step (`BooksStep`,
`OwnResponse`), and `Sourced`, where the ISBNs in the new state come from, from
which `EditionStep` derives `EditionInv` once for all actions. `Answered` and
`Continued` are the two ways a handler's step ends. `UsersAreIsolated` covers the
content of books: a stored book changes only in the write of a PATCH that acts
for its owner. `AnnouncedCoversResolve` needs that the flag is never set without
the bytes (`TableTyped`), which `SaveCover` writes in one transaction.

`NoneMissedWithoutFault` delimits finding 5: as long as nothing has failed, the
sweeps see every book once no request is in progress.

`ProviderProofs` proves, for every client timeout, search deadline and backoff
unit (`ProviderAssumption`; the search deadline is not zero, in the code it is
5 s), every property of the `provider` run but liveness: `ProviderTypeCorrect`,
`HeldIsFound`, `VerdictsAreReal` and `EffortIsBounded`. `ProviderInv` adds
* `Route`: which catalogue is asked by which operation, and in which GET of it
  the call is;
* `Clock`: how much of the client's timeout and of the backoffs the current GET
  has used, so that the elapsed time is bounded by the GETs that are done and the
  attempt in progress; `BoundedEffort` alone says nothing of the attempt;
* `Effort`: the requests sent to each catalogue are those of the attempts made;
* `PrimaryDone`: the secondary is asked only after the primary has been asked,
  and had nothing or was not heard. `FindsWhatIsHeld` needs it at the end.

`IsbnProofs` proves `CanonicalIsCanonical`: among texts of ISBN shape the
canonical form decides equality of ISBNs, is canonical itself and passes the
check of migration 0004. Its lemmas on `pickISBN` (`PickFacts`, `PickKind`,
`CleanIsStored`, `CleanIsAccepted`) rest on `LeastNumber`: a nonempty set of
natural numbers has a least member, from the library's well-foundedness of `<`.

`SearchEndpointProofs` proves, for any requests, queries and answers (queries
need not be finitely many), every cache size above zero, TTL and deadline
(`SearchEndpointAssumption`): `SearchTypeCorrect`, `CacheNeverOutgrown`,
`ShownAnswersAreRecent`, `LimitAlwaysRespected`, `HitsLandOnTheirEdition` and
`OldestEvictedOnly`, every property of the `search_cache` run. `SearchInv` adds
* `EntriesFit`: an entry's age and remaining time add up to at most one TTL and
  one deadline, which `Tick` preserves as it takes from one and gives to the
  other; and an entry is no longer than the limit in its key;
* `RequestsFit`: an answer is no older than its request (so that its age is within
  the deadline when it is stored) and no longer than was asked for;
* `CacheFits`: the keys in the cache are finitely many.

`RoomFacts` says what `put` keeps: if a full cache stays full without its expired
entries, none had expired, so the one it evicts is the nearest to expiry of all.
`NthFacts` shows that `HitsOf` is defined, which `HitsLandOnTheirEdition` needs:
every suggestion is `pickISBN` of some work. Beyond the run's properties,
`RoomIsAlwaysMade` shows that `put` is never without an entry to evict, and
`PostableUnlessTenBytes` that finding 6 has no other cause than an entry of ten
bytes that is no ISBN in an ISBN list.

`StartupProofs` proves, for any number of processes, rows, subjects, tokens,
environments and faults, and all texts that an older release may have stored or a
client may send (`StartupAssumption`): `StartupTypeCorrect`, `ApiNeverOpen`,
`AcceptedInputIsStorable`, `PreAuthRowsSafe` and `GhostsOnly`, every property of
the `startup` run but liveness. `StartupInv` adds
* `Checked`: every row passes the check once migration 0004 has succeeded, which
  no later write undoes, the older release's included, and which leaves the
  repeated migration nothing to delete;
* `GhostsPending`: what an open transaction of 0004 has deleted are ghosts that
  are still there for everybody else, so that a commit removes nothing more, and
  (`NoGhostsLeft`) nothing at all where the constraint is in place;
* `NobodysHidden`: no response holds a row of user `''`.

Every inductive invariant was checked by TLC on the instance of its run before it
was proved.

Only model-checked: `Backstop`, `CallReturns` and `ComesUp`, because liveness
under fairness is out of the prover's reach, and the counterexamples.

## Plan

All components with logic of their own are modelled, and all safety and action
properties of the passing runs are proved. Left are the parts of the process
lifecycle below that change what runs (`ENRICH_DISABLED`, the drain of requests
in `srv.Shutdown`), and to say as a theorem when the two PATCH findings cannot
happen, as `NoneMissedWithoutFault` and `PostableUnlessTenBytes` do for two
others: while PATCHes of one book do not overlap, and for books with a title.

## Not modelled

JSON, HTTP and image details of the providers, OpenAPI generation, logging, the
request collection and CI carry no state of their own. Signatures, keys and
expiry of tokens are go-oidc's, transactions and locks Postgres's. The choice of
store and addresses from the environment, `ENRICH_DISABLED`, and the drain of
requests in `srv.Shutdown` are left out; a request that is cut off is covered by
`Crash`. Timestamps and the order of lists change nothing the properties see.
