------------------------------ MODULE BookShelf ------------------------------
(***************************************************************************)
(* The HTTP handlers of internal/books/handlers.go over the books table,   *)
(* composed with EditionLifecycle, which stands for the enrichment worker  *)
(* they hand ISBNs to (Enqueue itself changes nothing a handler can see).  *)
(*                                                                         *)
(* A handler is a goroutine per request.  Each store call is one action,   *)
(* so requests of the same or of different users, the worker and a crash   *)
(* interleave between the calls of one handler.  In a book, `title` stands *)
(* for the two names the edition can supply (title, author) and `notes`    *)
(* for the fields only the user writes (status, rating, opinion, tags).    *)
(***************************************************************************)
EXTENDS EditionLifecycle

CONSTANTS
    Handlers,       \* request goroutines
    Users,          \* authenticated subjects
    Ids,            \* bound: the book IDs newID hands out in a behaviour
    Titles,         \* titles a client can type
    NoTitle,        \* the empty title
    Titled,         \* the metadata records whose title is not empty
    Notes,          \* values of the user's own fields
    Unset,          \* a nil field of a BookPatch
    Patches,        \* the bodies of PATCH requests
    MaxFaults       \* bound: store errors and crashes per behaviour

ASSUME BookShelfAssumption ==
    /\ Titled \subseteq Metas
    /\ NoTitle \notin Titles \cup Metas
    /\ Unset \notin Isbns \cup Titles \cup Notes
    /\ Patches \subseteq [isbn  : Isbns \cup {Unset},
                          title : Titles \cup {Unset},
                          notes : Notes \cup {Unset}]
    /\ MaxFaults \in Nat

VARIABLES
    books,      \* the books table
    used,       \* the IDs newID has returned
    hpc,        \* the store call each handler makes next
    job,        \* the handler's local variables
    response,   \* the response this step has sent, if it sent one
    faults      \* how much of the budget is spent

handlerVars == <<hpc, job>>
shelfVars == <<lifecycleVars, books, used, handlerVars, response, faults>>

StoredTitles == Titles \cup Titled \cup {NoTitle}
Books == [owner : Users, isbn : Isbns, title : StoredTitles, notes : Notes]
NoBook == [owner |-> "nobody"]

(* What a BookOutput shows: the stored book joined with its edition. *)
Views == [id : Ids, owner : Users, isbn : Isbns, title : StoredTitles,
          notes : Notes, status : Statuses, hasCover : BOOLEAN]

NoJob == [user |-> "nobody"]
EditionJobs == [user : Users, id : Ids, isbn : Isbns]
(* `seen` is the title the row had when it was read (history). *)
PatchJobs == [user : Users, id : Ids, old : Books, seen : StoredTitles, patch : Patches]
Responses == [user : Users, code : {200, 202, 204, 404, 500}, books : SUBSET Views]
NoResponse == [user |-> "nobody", code |-> 0, books |-> {}]

ShelfTypeOK ==
    /\ LifecycleTypeOK
    /\ books \in [Ids -> Books \cup {NoBook}]
    /\ used \in SUBSET Ids
    /\ \A id \in Ids : books[id] # NoBook => id \in used
    /\ \A h \in Handlers :
          \/ hpc[h] = "idle" /\ job[h] = NoJob
          \/ hpc[h] \in {"ensure", "reread", "mark"} /\ job[h] \in EditionJobs
          \/ hpc[h] = "write" /\ job[h] \in PatchJobs
    /\ response.books \in SUBSET Views
    /\ faults \in 0..MaxFaults

ShelfInit ==
    /\ LifecycleInit
    /\ books = [id \in Ids |-> NoBook]
    /\ used = {}
    /\ hpc = [h \in Handlers |-> "idle"]
    /\ job = [h \in Handlers |-> NoJob]
    /\ response = NoResponse
    /\ faults = 0

-----------------------------------------------------------------------------
(* Store operations on books *)

(* ownedBook, WHERE id AND user_id: a foreign book is a missing one. *)
Owned(u, id) == books[id] # NoBook /\ books[id].owner = u

(* Faulty variant: the edition's title wins over the one the user typed. *)
CanonicalTitleOverrides(title, row) ==
    IF row.meta \in Titled THEN row.meta ELSE title

(* Faulty variant: the names of an edition that has none yet are taken. *)
CanonicalTitleUnguarded(title, row) ==
    IF title = NoTitle THEN row.meta ELSE title

(* applyCanonicalNames: the edition names a book that has no name. *)
CanonicalTitle(title, row) ==
    IF title = NoTitle /\ row.meta \in Titled THEN row.meta ELSE title

(* scanBook / applyEdition, enrichmentStatusFor and setCoverURL. *)
View(id) ==
    LET b == books[id]  e == editions[b.isbn]
    IN [id |-> id, owner |-> b.owner, isbn |-> b.isbn,
        title |-> CanonicalTitle(b.title, e), notes |-> b.notes,
        status |-> IF HasRow(editions, b.isbn) THEN e.status ELSE "pending",
        hasCover |-> e.hasCover]

(* What Get hands the update handler: the same merge, as a Book value. *)
Copy(id) == [books[id] EXCEPT !.title = CanonicalTitle(@, editions[books[id].isbn])]

(* CoverForBook finds a row: the book is the caller's, its ISBN has bytes. *)
CoverForBook(u, id) == Owned(u, id) /\ editions[books[id].isbn].bytes

(* Store.Create, Update and Delete, as the table they leave. *)
Created(id, b) == [books EXCEPT ![id] = b]
Updated(u, id, b) == IF Owned(u, id) THEN [books EXCEPT ![id] = b] ELSE books
Deleted(u, id) == IF Owned(u, id) THEN [books EXCEPT ![id] = NoBook] ELSE books

(* BookPatch.applyTo *)
ApplyTo(p, b) ==
    [b EXCEPT !.isbn  = IF p.isbn  = Unset THEN @ ELSE p.isbn,
              !.title = IF p.title = Unset THEN @ ELSE p.title,
              !.notes = IF p.notes = Unset THEN @ ELSE p.notes]

-----------------------------------------------------------------------------
(* Handlers *)

NoFault == UNCHANGED faults
Fault   == faults < MaxFaults /\ faults' = faults + 1

(* A failed Postgres call; MemoryStore returns no such error. *)
StoreError == Durable /\ Fault

Continue(h, pc, j) ==
    /\ hpc' = [hpc EXCEPT ![h] = pc]
    /\ job' = [job EXCEPT ![h] = j]
    /\ response' = NoResponse

Respond(h, u, code, views) ==
    /\ hpc' = [hpc EXCEPT ![h] = "idle"]
    /\ job' = [job EXCEPT ![h] = NoJob]
    /\ response' = [user |-> u, code |-> code, books |-> views]

(* create: store.Create under a new ID.  A failure reported to the handler *)
(* may come after the row was inserted; one that comes before it changes   *)
(* nothing but the response.                                               *)
CreateBook(h, u, b) ==
    /\ hpc[h] = "idle"
    /\ b.owner = u
    /\ \E id \in Ids \ used :
          /\ used' = used \cup {id}
          /\ \/ /\ books' = Created(id, b)
                /\ Continue(h, "ensure", [user |-> u, id |-> id, isbn |-> b.isbn])
                /\ NoFault
             \/ /\ books' \in {books, Created(id, b)}
                /\ Respond(h, u, 500, {})
                /\ StoreError
    /\ UNCHANGED lifecycleVars

(* enqueueEnrichment: an error is logged and the handler carries on. *)
EnsureStep(h) ==
    /\ hpc[h] = "ensure"
    /\ \/ Request(job[h].isbn) /\ NoFault
       \/ UNCHANGED lifecycleVars /\ StoreError
    /\ Continue(h, "reread", job[h])
    /\ UNCHANGED <<books, used>>

(* The re-read at the end of create and update.  There a book that was     *)
(* deleted meanwhile is an internal error.                                 *)
Reread(h) ==
    /\ hpc[h] = "reread"
    /\ LET u == job[h].user  id == job[h].id
       IN \/ /\ IF Owned(u, id)
                THEN Respond(h, u, 200, {View(id)})
                ELSE Respond(h, u, 500, {})
             /\ NoFault
          \/ Respond(h, u, 500, {}) /\ StoreError
    /\ UNCHANGED <<lifecycleVars, books, used>>

(* update: store.Get. *)
PatchRead(h, u, id, p) ==
    /\ hpc[h] = "idle"
    /\ \/ /\ IF Owned(u, id)
             THEN Continue(h, "write", [user |-> u, id |-> id, old |-> Copy(id),
                                        seen |-> books[id].title, patch |-> p])
             ELSE Respond(h, u, 404, {})
          /\ NoFault
       \/ Respond(h, u, 500, {}) /\ StoreError
    /\ UNCHANGED <<lifecycleVars, books, used>>

(* Faulty variant: Update as an upsert. *)
PatchWriteUpserts(h) ==
    /\ hpc[h] = "write"
    /\ LET j == job[h]
       IN /\ books' = [books EXCEPT ![j.id] = ApplyTo(j.patch, j.old)]
          /\ Continue(h, IF ApplyTo(j.patch, j.old).isbn # j.old.isbn THEN "ensure" ELSE "reread",
                      [user |-> j.user, id |-> j.id, isbn |-> ApplyTo(j.patch, j.old).isbn])
          /\ NoFault
    /\ UNCHANGED <<lifecycleVars, used>>

(* Faulty variant: oldISBN is read after applyTo. *)
PatchWriteNeverEnsures(h) ==
    /\ hpc[h] = "write"
    /\ LET j == job[h]  new == ApplyTo(j.patch, j.old)
       IN IF Owned(j.user, j.id)
          THEN /\ books' = [books EXCEPT ![j.id] = new]
               /\ Continue(h, "reread", [user |-> j.user, id |-> j.id, isbn |-> new.isbn])
          ELSE Respond(h, j.user, 404, {}) /\ UNCHANGED books
    /\ NoFault
    /\ UNCHANGED <<lifecycleVars, used>>

(* update: store.Update writes the whole patched copy; a new ISBN is       *)
(* enqueued.  A failure may again be reported after the row was written.   *)
PatchWrite(h) ==
    /\ hpc[h] = "write"
    /\ LET j == job[h]
           new == ApplyTo(j.patch, j.old)
           written == Updated(j.user, j.id, new)
       IN \/ /\ Owned(j.user, j.id)
             /\ books' = written
             /\ Continue(h, IF new.isbn # j.old.isbn THEN "ensure" ELSE "reread",
                         [user |-> j.user, id |-> j.id, isbn |-> new.isbn])
             /\ NoFault
          \/ /\ ~Owned(j.user, j.id)
             /\ Respond(h, j.user, 404, {})
             /\ UNCHANGED books /\ NoFault
          \/ /\ books' \in {books, written}
             /\ Respond(h, j.user, 500, {})
             /\ StoreError
    /\ UNCHANGED <<lifecycleVars, used>>

(* refresh: store.Get. *)
RefreshRead(h, u, id) ==
    /\ hpc[h] = "idle"
    /\ \/ /\ IF Owned(u, id)
             THEN Continue(h, "mark", [user |-> u, id |-> id, isbn |-> books[id].isbn])
             ELSE Respond(h, u, 404, {})
          /\ NoFault
       \/ Respond(h, u, 500, {}) /\ StoreError
    /\ UNCHANGED <<lifecycleVars, books, used>>

(* refresh: MarkEditionPending of the ISBN that was read, and Enqueue. *)
RefreshMark(h) ==
    /\ hpc[h] = "mark"
    /\ \/ Refresh(job[h].isbn) /\ Respond(h, job[h].user, 202, {}) /\ NoFault
       \/ /\ Refresh(job[h].isbn) \/ UNCHANGED lifecycleVars
          /\ Respond(h, job[h].user, 500, {}) /\ StoreError
    /\ UNCHANGED <<books, used>>

(* Faulty variant: DELETE ... WHERE id, without the user. *)
DeleteAnyones(h, u, id) ==
    /\ hpc[h] = "idle"
    /\ books[id] # NoBook
    /\ books' = [books EXCEPT ![id] = NoBook] /\ Respond(h, u, 204, {}) /\ NoFault
    /\ UNCHANGED <<lifecycleVars, used>>

Delete(h, u, id) ==
    /\ hpc[h] = "idle"
    /\ \/ /\ books' = Deleted(u, id)
          /\ Respond(h, u, IF Owned(u, id) THEN 204 ELSE 404, {})
          /\ NoFault
       \/ books' \in {books, Deleted(u, id)} /\ Respond(h, u, 500, {}) /\ StoreError
    /\ UNCHANGED <<lifecycleVars, used>>

(* get, list and cover are one store call and a response. *)
Get(h, u, id) ==
    /\ hpc[h] = "idle"
    /\ \/ /\ IF Owned(u, id) THEN Respond(h, u, 200, {View(id)}) ELSE Respond(h, u, 404, {})
          /\ NoFault
       \/ Respond(h, u, 500, {}) /\ StoreError
    /\ UNCHANGED <<lifecycleVars, books, used>>

List(h, u) ==
    /\ hpc[h] = "idle"
    /\ \/ Respond(h, u, 200, {View(id) : id \in {b \in Ids : Owned(u, b)}}) /\ NoFault
       \/ Respond(h, u, 500, {}) /\ StoreError
    /\ UNCHANGED <<lifecycleVars, books, used>>

Cover(h, u, id) ==
    /\ hpc[h] = "idle"
    /\ \/ Respond(h, u, IF CoverForBook(u, id) THEN 200 ELSE 404, {}) /\ NoFault
       \/ Respond(h, u, 500, {}) /\ StoreError
    /\ UNCHANGED <<lifecycleVars, books, used>>

HandlerStep(h) == EnsureStep(h) \/ Reread(h) \/ PatchWrite(h) \/ RefreshMark(h)

(* A request arrives, with an input huma and isbnFromInput accept. *)
Arrival(h) ==
    \E u \in Users :
        \/ \E i \in Isbns, t \in Titles \cup {NoTitle}, n \in Notes :
              CreateBook(h, u, [owner |-> u, isbn |-> i, title |-> t, notes |-> n])
        \/ \E id \in Ids, p \in Patches : PatchRead(h, u, id, p)
        \/ \E id \in Ids :
              RefreshRead(h, u, id) \/ Delete(h, u, id) \/ Get(h, u, id) \/ Cover(h, u, id)
        \/ List(h, u)

(* The worker's part of the lifecycle. *)
WorkerStep ==
    /\ \E i \in Isbns : FetchStep(i)
    /\ response' = NoResponse
    /\ UNCHANGED <<books, used, handlerVars, faults>>

(* The process stops, its requests unanswered, and starts again. *)
Crash ==
    /\ Fault
    /\ LifecycleRestart
    /\ books' = IF Durable THEN books ELSE [id \in Ids |-> NoBook]
    /\ hpc' = [h \in Handlers |-> "idle"]
    /\ job' = [h \in Handlers |-> NoJob]
    /\ response' = NoResponse
    /\ UNCHANGED used

ShelfNext ==
    \/ \E h \in Handlers : Arrival(h) \/ HandlerStep(h)
    \/ WorkerStep
    \/ Crash

ShelfSpec == ShelfInit /\ [][ShelfNext]_shelfVars

-----------------------------------------------------------------------------
(* Properties *)

(* Users do not see or touch each other's books: every response, whichever *)
(* store call it was built from, holds only books of the user who asked;   *)
(* what a stored book says changes only when a PATCH of its owner writes   *)
(* to it, and it keeps its owner then; and it only ever disappears in      *)
(* answer to its owner (or with MemoryStore's memory).                     *)
TenantIsolation ==
    [][/\ \A v \in response'.books : v.owner = response'.user
       /\ \A id \in Ids : books[id] # NoBook /\ books'[id] # books[id] =>
             \/ /\ books'[id] # NoBook /\ books'[id].owner = books[id].owner
                /\ \E h \in Handlers :
                      /\ hpc[h] = "write" /\ hpc'[h] # "write"
                      /\ job[h].id = id /\ job[h].user = books[id].owner
             \/ /\ books'[id] = NoBook
                /\ response'.user = books[id].owner /\ response'.code \in {204, 500}
             \/ ~Durable /\ \A h \in Handlers : hpc'[h] = "idle"]_shelfVars

(* A deleted book stays deleted: store.Update of a PATCH that read the     *)
(* book before the delete must not bring it back.                          *)
NoResurrection ==
    [][\A id \in used : books[id] = NoBook => books'[id] = NoBook]_shelfVars

(* Every stored book's ISBN has the edition row that the worker and the    *)
(* sweeps act on, or a handler is on its way to creating it, however many  *)
(* creates, PATCHes of the ISBN and deletes overlap (until a fault).       *)
EveryBookHasEdition ==
    faults = 0 =>
        \A id \in Ids : books[id] # NoBook =>
            \/ HasRow(editions, books[id].isbn)
            \/ \E h \in Handlers : hpc[h] = "ensure" /\ job[h].isbn = books[id].isbn

(* The sweeps read edition rows only, so the ISBN of every stored book     *)
(* needs one to be found by them.                                          *)
SweepsSeeEveryBook ==
    \A id \in Ids : books[id] # NoBook => HasRow(editions, books[id].isbn)

(* worker.go: the reconciler backstops anything "missed across a restart": *)
(* whatever request the restart cut short, the sweeps of the new process   *)
(* see every stored book.                                                  *)
NothingMissed == [][Crash => SweepsSeeEveryBook']_shelfVars

(* A cover URL stays good: once setCoverURL announces a book's cover (by   *)
(* the has_cover flag of its edition), the cover endpoint finds the bytes  *)
(* in book_covers as long as the book keeps its ISBN, through refreshes,   *)
(* failed fetches, PATCHes and restarts.                                   *)
CoverURLResolves ==
    [][\A id \in Ids :
          /\ books[id] # NoBook /\ View(id).hasCover
          /\ books'[id] # NoBook /\ books'[id].isbn = books[id].isbn
          => CoverForBook(books[id].owner, id)']_shelfVars

(* book.go: "a book the user titled themselves is left alone, because      *)
(* their wording beats the upstream one": whatever the worker stores while *)
(* requests run, a title a client typed is replaced by one that no client  *)
(* typed only when a PATCH that read the book before it was typed comes    *)
(* too late.                                                               *)
UserTitleWins ==
    [][\A id \in Ids :
          books[id] # NoBook /\ books'[id] # NoBook /\ books[id].title \in Titles
              => \/ books'[id].title \in Titles
                 \/ \E h \in Handlers :
                       /\ hpc[h] = "write" /\ hpc'[h] # "write"
                       /\ job[h].id = id /\ job[h].seen # books[id].title]_shelfVars

(* BookPatch: 'a nil field means "not provided" (leave unchanged)', for    *)
(* the title: a PATCH without a title leaves the stored title alone.       *)
PatchKeepsTitle ==
    [][\A h \in Handlers :
          hpc[h] = "write" /\ hpc'[h] \in {"ensure", "reread"} /\ job[h].patch.title = Unset
              => books'[job[h].id].title = books[job[h].id].title]_shelfVars

(* The same for the user's own fields: a PATCH without them leaves what    *)
(* is stored alone.                                                        *)
PatchKeepsNotes ==
    [][\A h \in Handlers :
          hpc[h] = "write" /\ hpc'[h] \in {"ensure", "reread"} /\ job[h].patch.notes = Unset
              => books'[job[h].id].notes = books[job[h].id].notes]_shelfVars
=============================================================================
