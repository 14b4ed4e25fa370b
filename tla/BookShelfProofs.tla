--------------------------- MODULE BookShelfProofs ---------------------------
(***************************************************************************)
(* Proofs about BookShelf for any number of overlapping requests, users,   *)
(* books, ISBNs and faults, over both stores.                              *)
(***************************************************************************)
EXTENDS BookShelf, TLAPS

Stages == {"idle", "ensure", "reread", "mark", "write"}

(* SaveCover writes flag and bytes together: a flag that is set has bytes. *)
TableTyped ==
    /\ LifecycleTypeOK
    /\ \A i \in Isbns : editions[i].hasCover => editions[i].bytes

BooksTyped ==
    /\ books \in [Ids -> Books \cup {NoBook}]
    /\ used \in SUBSET Ids
    /\ \A id \in Ids : books[id] # NoBook => id \in used

(* What a handler holds where: a PATCH past its read holds a copy that has *)
(* the owner it acts for and the title it saw, if a client had typed it.   *)
JobFits(pc, j) ==
    \/ pc = "idle" /\ j = NoJob
    \/ pc \in {"ensure", "reread", "mark"} /\ j \in EditionJobs
    \/ /\ pc = "write" /\ j \in PatchJobs
       /\ j.old.owner = j.user
       /\ j.seen \in Titles => j.old.title = j.seen

HandlersTyped ==
    /\ hpc \in [Handlers -> Stages]
    /\ job \in [Handlers -> {NoJob} \cup EditionJobs \cup PatchJobs]
    /\ \A h \in Handlers : JobFits(hpc[h], job[h])

ShelfInv ==
    /\ TableTyped
    /\ BooksTyped
    /\ HandlersTyped
    /\ response.books \in SUBSET Views
    /\ faults \in 0..MaxFaults

-----------------------------------------------------------------------------
(* The values of the store *)

(* A book is not the absence of one. *)
LEMMA BookIsSome == \A b \in Books : b # NoBook
BY DEF Books, NoBook

(* Get shows the caller's own book, as a BookOutput has it. *)
LEMMA ViewFacts ==
    ASSUME TableTyped, BooksTyped, NEW u \in Users, NEW id \in Ids, Owned(u, id)
    PROVE  View(id) \in Views /\ View(id).owner = u
<1>1. books[id] \in Books /\ books[id].owner = u
    BY DEF BooksTyped, Owned
<1>2. editions[books[id].isbn] \in Rows /\ books[id].isbn \in Isbns
    BY <1>1 DEF TableTyped, LifecycleTypeOK, Tables, Books
<1>3. CanonicalTitle(books[id].title, editions[books[id].isbn]) \in StoredTitles
    BY <1>1, <1>2 DEF CanonicalTitle, Books, StoredTitles
<1>4. (IF HasRow(editions, books[id].isbn) THEN editions[books[id].isbn].status ELSE "pending")
          \in Statuses
    BY <1>2 DEF HasRow, Rows, Statuses
<1>5. editions[books[id].isbn].hasCover \in BOOLEAN
    BY <1>2 DEF Rows
<1> QED
    BY <1>1, <1>2, <1>3, <1>4, <1>5 DEF View, Views, Books

(* The copy a PATCH works on keeps the owner, and the title if it is not empty. *)
LEMMA CopyFacts ==
    ASSUME TableTyped, BooksTyped, NEW u \in Users, NEW id \in Ids, Owned(u, id)
    PROVE  /\ Copy(id) \in Books
           /\ Copy(id).owner = u
           /\ books[id].title \in Titles => Copy(id).title = books[id].title
           /\ Copy(id).isbn = books[id].isbn
           /\ books[id].title \in StoredTitles
<1>1. books[id] \in Books /\ books[id].owner = u
    BY DEF BooksTyped, Owned
<1>2. CanonicalTitle(books[id].title, editions[books[id].isbn]) \in StoredTitles
    BY <1>1 DEF CanonicalTitle, Books, StoredTitles
<1>3. books[id].title \in Titles
          => CanonicalTitle(books[id].title, editions[books[id].isbn]) = books[id].title
    BY BookShelfAssumption DEF CanonicalTitle
<1> QED
    BY <1>1, <1>2, <1>3 DEF Copy, Books

(* applyTo changes the fields that are given, and never the owner. *)
LEMMA ApplyToFacts ==
    ASSUME NEW p \in Patches, NEW b \in Books
    PROVE  /\ ApplyTo(p, b) \in Books
           /\ ApplyTo(p, b).owner = b.owner
           /\ ApplyTo(p, b).title \in Titles \/ ApplyTo(p, b).title = b.title
           /\ p.isbn \in Isbns \cup {Unset}
<1>1. /\ p.isbn \in Isbns \cup {Unset}
      /\ p.title \in Titles \cup {Unset}
      /\ p.notes \in Notes \cup {Unset}
    BY BookShelfAssumption
<1> QED
    BY <1>1 DEF ApplyTo, Books, StoredTitles

(* What a store call does to the books table: it removes or rewrites a     *)
(* book of user u only.                                                    *)
Rewritten(t, u, id) ==
    /\ t \in [Ids -> Books \cup {NoBook}]
    /\ \A i \in Ids \ {id} : t[i] = books[i]
    /\ books[id] = NoBook => t[id] = NoBook
    /\ books[id] # NoBook /\ t[id] # books[id] => books[id].owner = u

(* Store.Update writes the new book over one of the same user, or nothing. *)
LEMMA UpdatedFacts ==
    ASSUME BooksTyped, NEW u \in Users, NEW id \in Ids, NEW b \in Books, b.owner = u
    PROVE  /\ Rewritten(Updated(u, id, b), u, id)
           /\ Updated(u, id, b)[id] \in {books[id], b}
           /\ Updated(u, id, b)[id] = NoBook => books[id] = NoBook
BY BookIsSome DEF BooksTyped, Updated, Owned, Rewritten

(* Store.Delete removes a book of the user, or nothing. *)
LEMMA DeletedFacts ==
    ASSUME BooksTyped, NEW u \in Users, NEW id \in Ids
    PROVE  /\ Rewritten(Deleted(u, id), u, id)
           /\ Deleted(u, id)[id] \in {books[id], NoBook}
BY DEF BooksTyped, Deleted, Owned, Rewritten

(* Store.Create fills an ID that was free and leaves the others alone. *)
LEMMA CreatedFacts ==
    ASSUME BooksTyped, NEW id \in Ids \ used, NEW b \in Books
    PROVE  /\ Created(id, b) \in [Ids -> Books \cup {NoBook}]
           /\ books[id] = NoBook
           /\ \A i \in Ids \ {id} : Created(id, b)[i] = books[i]
           /\ Created(id, b)[id] = b
BY DEF BooksTyped, Created

-----------------------------------------------------------------------------
(* The ends of a handler's step *)

(* Between two store calls only the locals of this handler change. *)
LEMMA ContinueFacts ==
    ASSUME HandlersTyped, NEW h \in Handlers, NEW pc \in Stages, NEW j,
           JobFits(pc, j), Continue(h, pc, j)
    PROVE  /\ HandlersTyped'
           /\ response' = NoResponse
           /\ hpc'[h] = pc /\ job'[h] = j
           /\ \A k \in Handlers \ {h} : hpc'[k] = hpc[k] /\ job'[k] = job[k]
<1>1. j \in {NoJob} \cup EditionJobs \cup PatchJobs
    BY DEF JobFits
<1>2. /\ hpc' \in [Handlers -> Stages]
      /\ job' \in [Handlers -> {NoJob} \cup EditionJobs \cup PatchJobs]
      /\ hpc'[h] = pc /\ job'[h] = j
      /\ \A k \in Handlers \ {h} : hpc'[k] = hpc[k] /\ job'[k] = job[k]
    BY <1>1 DEF HandlersTyped, Continue
<1>3. \A k \in Handlers : JobFits(hpc'[k], job'[k])
    BY <1>2 DEF HandlersTyped
<1> QED
    BY <1>2, <1>3 DEF HandlersTyped, Continue, JobFits

(* A handler that has answered is idle, the others are where they were. *)
LEMMA RespondFacts ==
    ASSUME HandlersTyped, NEW h \in Handlers, NEW u, NEW code, NEW views,
           Respond(h, u, code, views)
    PROVE  /\ HandlersTyped'
           /\ response'.user = u /\ response'.code = code /\ response'.books = views
           /\ hpc'[h] = "idle"
           /\ \A k \in Handlers \ {h} : hpc'[k] = hpc[k] /\ job'[k] = job[k]
<1>1. /\ hpc' \in [Handlers -> Stages]
      /\ job' \in [Handlers -> {NoJob} \cup EditionJobs \cup PatchJobs]
      /\ hpc'[h] = "idle" /\ job'[h] = NoJob
      /\ \A k \in Handlers \ {h} : hpc'[k] = hpc[k] /\ job'[k] = job[k]
    BY DEF HandlersTyped, Respond, Stages
<1>2. \A k \in Handlers : JobFits(hpc'[k], job'[k])
    BY <1>1 DEF HandlersTyped, JobFits
<1> QED
    BY <1>1, <1>2 DEF HandlersTyped, Respond, JobFits

-----------------------------------------------------------------------------
(* Steps on the editions *)

(* No row and no cover goes, and no flag is set without bytes. *)
EditionsKept ==
    /\ TableTyped'
    /\ \A i \in Isbns : HasRow(editions, i) => HasRow(editions', i)
    /\ \A i \in Isbns : editions[i].bytes => editions'[i].bytes

(* A store call on books alone. *)
LEMMA EditionsUntouched ==
    ASSUME TableTyped, UNCHANGED lifecycleVars
    PROVE  EditionsKept
BY DEF EditionsKept, TableTyped, LifecycleTypeOK, lifecycleVars, HasRow

(* EnsureEdition leaves a row for its ISBN. *)
LEMMA RequestKeeps ==
    ASSUME TableTyped, NEW i \in Isbns, Request(i)
    PROVE  EditionsKept /\ HasRow(editions', i)
BY DEF EditionsKept, TableTyped, LifecycleTypeOK, Request, EnsureEdition, HasRow,
       Tables, Rows, Statuses

(* MarkEditionPending changes a status, never the cover. *)
LEMMA RefreshKeeps ==
    ASSUME TableTyped, NEW i \in Isbns, Refresh(i)
    PROVE  EditionsKept
BY DEF EditionsKept, TableTyped, LifecycleTypeOK, Refresh, MarkEditionPending, HasRow,
       Tables, Rows, Statuses

(* No step of the worker removes a row or a cover. *)
LEMMA FetchKeeps ==
    ASSUME TableTyped, NEW i \in Isbns, FetchStep(i)
    PROVE  EditionsKept
<1> USE DEF EditionsKept, TableTyped, LifecycleTypeOK, HasRow, Tables, Rows, Statuses
<1>1. CASE BeginFetch(i)
    BY <1>1 DEF BeginFetch
<1>2. CASE AttachCover(i)
  <2>1. /\ fetching' = fetching
        /\ editions' = [editions EXCEPT ![i] = [@ EXCEPT !.bytes = TRUE, !.hasCover = TRUE]]
      BY <1>2 DEF AttachCover, SaveCover, CoverAccepted
  <2>2. LifecycleTypeOK'
      BY <2>1
  <2>3. \A k \in Isbns : /\ HasRow(editions, k) => HasRow(editions', k)
                         /\ editions'[k].hasCover => editions'[k].bytes
                         /\ editions[k].bytes => editions'[k].bytes
      BY <2>1
  <2> QED
      BY <2>2, <2>3
<1>3. CASE \E m \in Metas : CompleteFetch(i, m)
  <2> PICK m \in Metas : CompleteFetch(i, m)
      BY <1>3
  <2>1. /\ fetching' = fetching \ {i}
        /\ editions' = [editions EXCEPT ![i] = [@ EXCEPT !.status = "enriched", !.meta = m]]
      BY EditionTableAssumption DEF CompleteFetch, SaveEnrichment
  <2>2. LifecycleTypeOK'
      BY <2>1
  <2>3. \A k \in Isbns : /\ HasRow(editions, k) => HasRow(editions', k)
                         /\ editions'[k].hasCover => editions'[k].bytes
                         /\ editions[k].bytes => editions'[k].bytes
      BY <2>1
  <2> QED
      BY <2>2, <2>3
<1>4. CASE FailFetch(i)
    BY <1>4 DEF FailFetch, SaveEnrichment
<1>5. CASE AbandonFetch(i)
    BY <1>5 DEF AbandonFetch
<1> QED
    BY <1>1, <1>2, <1>3, <1>4, <1>5 DEF FetchStep

-----------------------------------------------------------------------------
(* What the properties ask of the books in one step *)

HandsKept ==
    \A id \in Ids : books[id] # NoBook /\ books'[id] # books[id] =>
        \/ /\ books'[id] # NoBook /\ books'[id].owner = books[id].owner
           /\ \E h \in Handlers :
                 /\ hpc[h] = "write" /\ hpc'[h] # "write"
                 /\ job[h].id = id /\ job[h].user = books[id].owner
        \/ /\ books'[id] = NoBook
           /\ response'.user = books[id].owner /\ response'.code \in {204, 500}
        \/ ~Durable /\ \A h \in Handlers : hpc'[h] = "idle"

NoneBack == \A id \in used : books[id] = NoBook => books'[id] = NoBook

TitlesKept ==
    \A id \in Ids :
        books[id] # NoBook /\ books'[id] # NoBook /\ books[id].title \in Titles
            => \/ books'[id].title \in Titles
               \/ \E h \in Handlers :
                     /\ hpc[h] = "write" /\ hpc'[h] # "write"
                     /\ job[h].id = id /\ job[h].seen # books[id].title

CoversKept ==
    \A id \in Ids :
        /\ books[id] # NoBook /\ View(id).hasCover
        /\ books'[id] # NoBook /\ books'[id].isbn = books[id].isbn
        => CoverForBook(books[id].owner, id)'

BooksStep == BooksTyped' /\ HandsKept /\ NoneBack /\ TitlesKept /\ CoversKept

(* Covers stay as long as the editions do, whatever happens to the books. *)
LEMMA CoversFollow ==
    ASSUME TableTyped, BooksTyped, EditionsKept
    PROVE  CoversKept
<1> SUFFICES ASSUME NEW id \in Ids, books[id] # NoBook, View(id).hasCover,
                    books'[id] # NoBook, books'[id].isbn = books[id].isbn
             PROVE  CoverForBook(books[id].owner, id)'
    BY DEF CoversKept
<1>1. books[id].isbn \in Isbns
    BY DEF BooksTyped, Books
<1>2. editions[books[id].isbn].bytes
    BY <1>1 DEF View, TableTyped
<1> QED
    BY <1>1, <1>2 DEF EditionsKept, CoverForBook, Owned

(* A step that leaves the books alone. *)
LEMMA SameBooks ==
    ASSUME TableTyped, BooksTyped, EditionsKept, UNCHANGED <<books, used>>
    PROVE  BooksStep
BY CoversFollow DEF BooksStep, BooksTyped, HandsKept, NoneBack, TitlesKept

(* store.Create, whether its failure came before or after the insert. *)
LEMMA CreateBooks ==
    ASSUME TableTyped, BooksTyped, EditionsKept, NEW id \in Ids \ used, NEW b \in Books,
           used' = used \cup {id}, books' \in {books, Created(id, b)}
    PROVE  BooksStep
<1>1. /\ books' \in [Ids -> Books \cup {NoBook}]
      /\ books[id] = NoBook
      /\ \A i \in Ids \ {id} : books'[i] = books[i]
    BY CreatedFacts DEF BooksTyped
<1> QED
    BY <1>1, CoversFollow DEF BooksStep, BooksTyped, HandsKept, NoneBack, TitlesKept

(* store.Delete, answered to the owner. *)
LEMMA DeleteBooks ==
    ASSUME TableTyped, BooksTyped, EditionsKept, NEW u \in Users, NEW id \in Ids,
           used' = used, books' \in {books, Deleted(u, id)},
           response'.user = u, Owned(u, id) => response'.code \in {204, 500}
    PROVE  BooksStep
<1>1. /\ books' \in [Ids -> Books \cup {NoBook}]
      /\ \A i \in Ids \ {id} : books'[i] = books[i]
      /\ books'[id] \in {books[id], NoBook}
      /\ books'[id] # books[id] => Owned(u, id)
    BY DEF BooksTyped, Deleted
<1> QED
    BY <1>1, CoversFollow DEF BooksStep, BooksTyped, HandsKept, NoneBack, TitlesKept, Owned

(* store.Update with the patched copy of a handler that stood before it. *)
LEMMA WriteBooks ==
    ASSUME TableTyped, BooksTyped, HandlersTyped, EditionsKept,
           NEW h \in Handlers, hpc[h] = "write", hpc'[h] # "write",
           used' = used,
           books' \in {books, Updated(job[h].user, job[h].id,
                                      ApplyTo(job[h].patch, job[h].old))}
    PROVE  BooksStep
<1> DEFINE j == job[h]  new == ApplyTo(j.patch, j.old)
<1>1. /\ j \in PatchJobs
      /\ j.old.owner = j.user
      /\ j.seen \in Titles => j.old.title = j.seen
    BY DEF HandlersTyped, JobFits
<1>2. j.user \in Users /\ j.id \in Ids /\ j.old \in Books /\ j.patch \in Patches
    BY <1>1 DEF PatchJobs
<1>3. new \in Books /\ new.owner = j.user /\ (new.title \in Titles \/ new.title = j.old.title)
    BY <1>1, <1>2, ApplyToFacts
<1>4. /\ books' \in [Ids -> Books \cup {NoBook}]
      /\ \A i \in Ids \ {j.id} : books'[i] = books[i]
      /\ books'[j.id] # books[j.id] =>
            books[j.id] # NoBook /\ books[j.id].owner = j.user /\ books'[j.id] = new
    BY <1>2, <1>3 DEF BooksTyped, Updated, Owned
<1>5. BooksTyped'
    BY <1>4 DEF BooksTyped
<1>6. HandsKept
    BY <1>3, <1>4, BookIsSome DEF HandsKept
<1>7. NoneBack
    BY <1>4 DEF NoneBack, BooksTyped
<1>8. TitlesKept
  <2> SUFFICES ASSUME NEW id \in Ids, books[id].title \in Titles, books'[id].title \notin Titles
               PROVE  job[h].id = id /\ job[h].seen # books[id].title
      BY DEF TitlesKept
  <2>1. id = j.id /\ books'[id] = new
      BY <1>4
  <2> QED
      BY <2>1, <1>1, <1>3
<1> QED
    BY <1>5, <1>6, <1>7, <1>8, CoversFollow DEF BooksStep

-----------------------------------------------------------------------------
(* What every step guarantees *)

OwnResponse == \A v \in response'.books : v.owner = response'.user

(* Where the ISBNs of a step without fault come from: a handler leaves     *)
(* "ensure" only once the row is there; the ISBN of a stored book was      *)
(* stored before, was held by a PATCH, or is about to be ensured; and a    *)
(* PATCH starts from a stored book.                                        *)
Sourced ==
    faults' = 0 =>
        /\ faults = 0
        /\ \A i \in Isbns : HasRow(editions, i) => HasRow(editions', i)
        /\ \A h \in Handlers : hpc[h] = "ensure" =>
              \/ hpc'[h] = "ensure" /\ job'[h] = job[h]
              \/ HasRow(editions', job[h].isbn)
        /\ \A id \in Ids : books'[id] # NoBook =>
              \/ books'[id] = books[id]
              \/ \E h \in Handlers : hpc'[h] = "ensure" /\ job'[h].isbn = books'[id].isbn
              \/ \E h \in Handlers : hpc[h] = "write" /\ job[h].old.isbn = books'[id].isbn
        /\ \A h \in Handlers : hpc'[h] = "write" =>
              \/ hpc[h] = "write" /\ job'[h] = job[h]
              \/ \E id \in Ids : books[id] # NoBook /\ job'[h].old.isbn = books[id].isbn

StepOK == ShelfInv' /\ BooksStep /\ OwnResponse /\ Sourced

(* A step that ends with a response: a handler that was not at "ensure"    *)
(* answers, and without a fault stores no book that was not there.         *)
LEMMA Answered ==
    ASSUME ShelfInv, NEW h \in Handlers, hpc[h] # "ensure",
           NEW u, NEW code, NEW views, Respond(h, u, code, views),
           views \in SUBSET Views, \A v \in views : v.owner = u,
           NoFault \/ StoreError,
           NoFault => \A id \in Ids : books'[id] # NoBook => books'[id] = books[id],
           EditionsKept, BooksStep
    PROVE  StepOK
<1>1. faults' \in 0..MaxFaults /\ (faults' = 0 => NoFault /\ faults = 0)
    BY BookShelfAssumption DEF ShelfInv, NoFault, StoreError, Fault
<1>2. /\ HandlersTyped'
      /\ response'.user = u /\ response'.books = views
      /\ hpc'[h] = "idle"
      /\ \A k \in Handlers \ {h} : hpc'[k] = hpc[k] /\ job'[k] = job[k]
    BY RespondFacts DEF ShelfInv
<1>3. OwnResponse
    BY <1>2 DEF OwnResponse
<1>4. Sourced
    BY <1>1, <1>2 DEF Sourced, EditionsKept
<1> QED
    BY <1>1, <1>2, <1>3, <1>4 DEF StepOK, ShelfInv, EditionsKept, BooksStep

(* A step after which the handler goes on. *)
LEMMA Continued ==
    ASSUME ShelfInv, NEW h \in Handlers, hpc[h] # "ensure",
           NEW pc \in Stages, NEW j, JobFits(pc, j), Continue(h, pc, j), NoFault,
           \A id \in Ids : books'[id] # NoBook =>
              \/ books'[id] = books[id]
              \/ pc = "ensure" /\ j.isbn = books'[id].isbn
              \/ hpc[h] = "write" /\ job[h].old.isbn = books'[id].isbn,
           pc = "write" => \E id \in Ids : books[id] # NoBook /\ j.old.isbn = books[id].isbn,
           EditionsKept, BooksStep
    PROVE  StepOK
<1>1. faults' \in 0..MaxFaults /\ faults' = faults
    BY DEF ShelfInv, NoFault
<1>2. /\ HandlersTyped'
      /\ response' = NoResponse
      /\ hpc'[h] = pc /\ job'[h] = j
      /\ \A k \in Handlers \ {h} : hpc'[k] = hpc[k] /\ job'[k] = job[k]
    BY ContinueFacts DEF ShelfInv
<1>3. OwnResponse /\ response'.books \in SUBSET Views
    BY <1>2 DEF OwnResponse, NoResponse
<1>4. Sourced
    BY <1>1, <1>2 DEF Sourced, EditionsKept
<1> QED
    BY <1>1, <1>2, <1>3, <1>4 DEF StepOK, ShelfInv, EditionsKept, BooksStep

-----------------------------------------------------------------------------
(* One lemma per action *)

(* create: the row is inserted under an ID that was never used. *)
LEMMA CreateStep ==
    ASSUME ShelfInv, NEW h \in Handlers, NEW u \in Users, NEW b \in Books,
           CreateBook(h, u, b)
    PROVE  StepOK
<1>1. hpc[h] = "idle" /\ b.owner = u /\ EditionsKept
    BY EditionsUntouched DEF CreateBook, ShelfInv
<1> PICK id \in Ids \ used :
        /\ used' = used \cup {id}
        /\ \/ /\ books' = Created(id, b)
              /\ Continue(h, "ensure", [user |-> u, id |-> id, isbn |-> b.isbn])
              /\ NoFault
           \/ /\ books' \in {books, Created(id, b)}
              /\ Respond(h, u, 500, {})
              /\ StoreError
    BY DEF CreateBook
<1>2. BooksStep
    BY <1>1, CreateBooks DEF ShelfInv
<1>3. CASE /\ books' = Created(id, b)
           /\ Continue(h, "ensure", [user |-> u, id |-> id, isbn |-> b.isbn])
           /\ NoFault
  <2> DEFINE j == [user |-> u, id |-> id, isbn |-> b.isbn]
  <2>1. JobFits("ensure", j) /\ j.isbn = b.isbn
      BY DEF JobFits, EditionJobs, Books
  <2>2. \A i \in Ids : books'[i] = books[i] \/ books'[i] = b
      BY <1>3, CreatedFacts DEF ShelfInv
  <2> HIDE DEF j
  <2> QED
      BY <1>1, <1>2, <1>3, <2>1, <2>2, Continued DEF Stages, j
<1>4. CASE /\ books' \in {books, Created(id, b)}
           /\ Respond(h, u, 500, {})
           /\ StoreError
  <2>1. ~NoFault
      BY <1>4, BookShelfAssumption DEF ShelfInv, NoFault, StoreError, Fault
  <2> QED
      BY <1>1, <1>2, <1>4, <2>1, Answered
<1> QED
    BY <1>3, <1>4

(* enqueueEnrichment: the handler leaves "ensure" with the row in place,   *)
(* unless the store failed.                                                *)
LEMMA EnsureStepOK ==
    ASSUME ShelfInv, NEW h \in Handlers, EnsureStep(h)
    PROVE  StepOK
<1>1. /\ hpc[h] = "ensure" /\ job[h] \in EditionJobs /\ job[h].isbn \in Isbns
      /\ JobFits("reread", job[h])
    BY DEF EnsureStep, ShelfInv, HandlersTyped, JobFits, EditionJobs
<1>2. \/ NoFault /\ EditionsKept /\ HasRow(editions', job[h].isbn)
      \/ StoreError /\ EditionsKept
  <2>1. \/ Request(job[h].isbn) /\ NoFault
        \/ UNCHANGED lifecycleVars /\ StoreError
      BY DEF EnsureStep
  <2>2. CASE Request(job[h].isbn) /\ NoFault
      BY <1>1, <2>2, RequestKeeps DEF ShelfInv
  <2> QED
      BY <2>1, <2>2, EditionsUntouched DEF ShelfInv
<1>3. BooksStep
    BY <1>2, SameBooks DEF EnsureStep, ShelfInv
<1>4. faults' \in 0..MaxFaults /\ (faults' = 0 => NoFault /\ faults = 0 /\ ~StoreError)
    BY <1>2, BookShelfAssumption DEF ShelfInv, NoFault, StoreError, Fault
<1>5. /\ HandlersTyped'
      /\ response' = NoResponse
      /\ hpc'[h] = "reread"
      /\ \A k \in Handlers \ {h} : hpc'[k] = hpc[k] /\ job'[k] = job[k]
    BY <1>1, ContinueFacts DEF ShelfInv, EnsureStep, Stages
<1>6. OwnResponse /\ response'.books \in SUBSET Views
    BY <1>5 DEF OwnResponse, NoResponse
<1>7. Sourced
    BY <1>2, <1>4, <1>5 DEF Sourced, EditionsKept, EnsureStep, HasRow
<1> QED
    BY <1>2, <1>3, <1>4, <1>5, <1>6, <1>7 DEF StepOK, ShelfInv, EditionsKept, BooksStep

(* The handlers that only read: a response of the caller's own books. *)
LEMMA ReadOK ==
    ASSUME ShelfInv, NEW h \in Handlers, hpc[h] # "ensure",
           NEW u, NEW code, NEW views, Respond(h, u, code, views),
           views \in SUBSET Views, \A v \in views : v.owner = u,
           NoFault \/ StoreError, EditionsKept, UNCHANGED <<books, used>>
    PROVE  StepOK
<1>1. BooksStep
    BY SameBooks DEF ShelfInv
<1> QED
    BY <1>1, Answered

(* The re-read at the end of create and update. *)
LEMMA RereadOK ==
    ASSUME ShelfInv, NEW h \in Handlers, Reread(h)
    PROVE  StepOK
<1> DEFINE u == job[h].user  id == job[h].id
<1>1. hpc[h] = "reread" /\ u \in Users /\ id \in Ids
    BY DEF Reread, ShelfInv, HandlersTyped, JobFits, EditionJobs
<1>2. EditionsKept /\ UNCHANGED <<books, used>>
    BY EditionsUntouched DEF Reread, ShelfInv
<1>3. \/ Owned(u, id) /\ Respond(h, u, 200, {View(id)}) /\ NoFault
      \/ Respond(h, u, 500, {}) /\ (NoFault \/ StoreError)
    BY DEF Reread
<1> HIDE DEF u, id
<1>4. CASE Owned(u, id) /\ Respond(h, u, 200, {View(id)}) /\ NoFault
  <2>1. {View(id)} \in SUBSET Views /\ \A v \in {View(id)} : v.owner = u
      BY <1>1, <1>4, ViewFacts DEF ShelfInv
  <2> QED
      BY <1>1, <1>2, <1>4, <2>1, ReadOK
<1>5. CASE Respond(h, u, 500, {}) /\ (NoFault \/ StoreError)
    BY <1>1, <1>2, <1>5, ReadOK
<1> QED
    BY <1>3, <1>4, <1>5

(* get *)
LEMMA GetOK ==
    ASSUME ShelfInv, NEW h \in Handlers, NEW u \in Users, NEW id \in Ids, Get(h, u, id)
    PROVE  StepOK
<1>1. hpc[h] = "idle" /\ EditionsKept /\ UNCHANGED <<books, used>>
    BY EditionsUntouched DEF Get, ShelfInv
<1>2. CASE Owned(u, id) /\ Respond(h, u, 200, {View(id)}) /\ NoFault
  <2>1. {View(id)} \in SUBSET Views /\ \A v \in {View(id)} : v.owner = u
      BY <1>2, ViewFacts DEF ShelfInv
  <2> QED
      BY <1>1, <1>2, <2>1, ReadOK
<1>3. CASE \E code \in {404, 500} : Respond(h, u, code, {}) /\ (NoFault \/ StoreError)
    BY <1>1, <1>3, ReadOK
<1> QED
    BY <1>2, <1>3 DEF Get

(* list *)
LEMMA ListOK ==
    ASSUME ShelfInv, NEW h \in Handlers, NEW u \in Users, List(h, u)
    PROVE  StepOK
<1> DEFINE mine == {View(id) : id \in {b \in Ids : Owned(u, b)}}
<1>1. hpc[h] = "idle" /\ EditionsKept /\ UNCHANGED <<books, used>>
    BY EditionsUntouched DEF List, ShelfInv
<1>2. mine \in SUBSET Views /\ \A v \in mine : v.owner = u
    BY ViewFacts DEF ShelfInv
<1>3. \/ Respond(h, u, 200, mine) /\ NoFault
      \/ Respond(h, u, 500, {}) /\ StoreError
    BY DEF List
<1> HIDE DEF mine
<1> QED
    BY <1>1, <1>2, <1>3, ReadOK

(* cover *)
LEMMA CoverOK ==
    ASSUME ShelfInv, NEW h \in Handlers, NEW u \in Users, NEW id \in Ids, Cover(h, u, id)
    PROVE  StepOK
<1>1. hpc[h] = "idle" /\ EditionsKept /\ UNCHANGED <<books, used>>
    BY EditionsUntouched DEF Cover, ShelfInv
<1>2. \E code \in {200, 404, 500} : Respond(h, u, code, {}) /\ (NoFault \/ StoreError)
    BY DEF Cover
<1> QED
    BY <1>1, <1>2, ReadOK

(* update, up to store.Get: the handler holds a copy of the caller's book. *)
LEMMA PatchReadOK ==
    ASSUME ShelfInv, NEW h \in Handlers, NEW u \in Users, NEW id \in Ids, NEW p \in Patches,
           PatchRead(h, u, id, p)
    PROVE  StepOK
<1> DEFINE j == [user |-> u, id |-> id, old |-> Copy(id), seen |-> books[id].title, patch |-> p]
<1>1. hpc[h] = "idle" /\ EditionsKept /\ UNCHANGED <<books, used>>
    BY EditionsUntouched DEF PatchRead, ShelfInv
<1>2. \/ Owned(u, id) /\ Continue(h, "write", j) /\ NoFault
      \/ \E code \in {404, 500} : Respond(h, u, code, {}) /\ (NoFault \/ StoreError)
    BY DEF PatchRead
<1>3. CASE Owned(u, id) /\ Continue(h, "write", j) /\ NoFault
  <2>1. JobFits("write", j)
      BY <1>3, CopyFacts DEF JobFits, PatchJobs, ShelfInv
  <2>2. books[id] # NoBook /\ j.old.isbn = books[id].isbn
      BY <1>3, CopyFacts DEF ShelfInv, Owned
  <2>3. BooksStep
      BY <1>1, SameBooks DEF ShelfInv
  <2> HIDE DEF j
  <2> QED
      BY <1>1, <1>3, <2>1, <2>2, <2>3, Continued DEF Stages
<1>4. CASE \E code \in {404, 500} : Respond(h, u, code, {}) /\ (NoFault \/ StoreError)
    BY <1>1, <1>4, ReadOK
<1> QED
    BY <1>2, <1>3, <1>4

(* update, store.Update: the patched copy replaces the caller's book if it *)
(* is still there, and a new ISBN sends the handler to "ensure".           *)
LEMMA PatchWriteOK ==
    ASSUME ShelfInv, NEW h \in Handlers, PatchWrite(h)
    PROVE  StepOK
<1> DEFINE j == job[h]
           new == ApplyTo(j.patch, j.old)
           written == Updated(j.user, j.id, new)
           next == IF new.isbn # j.old.isbn THEN "ensure" ELSE "reread"
           rest == [user |-> j.user, id |-> j.id, isbn |-> new.isbn]
<1>1. /\ hpc[h] = "write" /\ used' = used /\ EditionsKept
      /\ j.user \in Users /\ j.id \in Ids /\ j.old \in Books /\ j.patch \in Patches
      /\ j.old.owner = j.user
    BY EditionsUntouched DEF PatchWrite, ShelfInv, HandlersTyped, JobFits, PatchJobs
<1>2. new \in Books /\ new.owner = j.user
    BY <1>1, ApplyToFacts
<1>3. \/ books' = written /\ Continue(h, next, rest) /\ NoFault
      \/ UNCHANGED books /\ Respond(h, j.user, 404, {}) /\ NoFault
      \/ books' \in {books, written} /\ Respond(h, j.user, 500, {}) /\ StoreError
    BY DEF PatchWrite
<1>4. hpc'[h] # "write"
    BY <1>3 DEF Continue, Respond, ShelfInv, HandlersTyped
<1>5. BooksStep
    BY <1>1, <1>3, <1>4, WriteBooks DEF ShelfInv
<1>6. CASE books' = written /\ Continue(h, next, rest) /\ NoFault
  <2>1. JobFits(next, rest) /\ rest.isbn = new.isbn /\ next \in Stages /\ next # "write"
      BY <1>1, <1>2 DEF JobFits, EditionJobs, Books, Stages
  <2>2. \A id \in Ids : books'[id] = books[id] \/ books'[id] = new
      BY <1>6 DEF Updated, ShelfInv, BooksTyped
  <2>3. \A id \in Ids : books'[id] # NoBook =>
            \/ books'[id] = books[id]
            \/ next = "ensure" /\ rest.isbn = books'[id].isbn
            \/ hpc[h] = "write" /\ job[h].old.isbn = books'[id].isbn
      BY <1>1, <2>1, <2>2
  <2> HIDE DEF next, rest
  <2> QED
      BY <1>1, <1>5, <1>6, <2>1, <2>3, Continued
<1>7. CASE UNCHANGED books /\ Respond(h, j.user, 404, {}) /\ NoFault
    BY <1>1, <1>5, <1>7, Answered
<1>8. CASE books' \in {books, written} /\ Respond(h, j.user, 500, {}) /\ StoreError
  <2>1. ~NoFault
      BY <1>8, BookShelfAssumption DEF ShelfInv, NoFault, StoreError, Fault
  <2> HIDE DEF written
  <2> QED
      BY <1>1, <1>5, <1>8, <2>1, Answered
<1> QED
    BY <1>3, <1>6, <1>7, <1>8

(* refresh, up to store.Get. *)
LEMMA RefreshReadOK ==
    ASSUME ShelfInv, NEW h \in Handlers, NEW u \in Users, NEW id \in Ids, RefreshRead(h, u, id)
    PROVE  StepOK
<1> DEFINE j == [user |-> u, id |-> id, isbn |-> books[id].isbn]
<1>1. hpc[h] = "idle" /\ EditionsKept /\ UNCHANGED <<books, used>>
    BY EditionsUntouched DEF RefreshRead, ShelfInv
<1>2. \/ Owned(u, id) /\ Continue(h, "mark", j) /\ NoFault
      \/ \E code \in {404, 500} : Respond(h, u, code, {}) /\ (NoFault \/ StoreError)
    BY DEF RefreshRead
<1>3. CASE Owned(u, id) /\ Continue(h, "mark", j) /\ NoFault
  <2>1. books[id] \in Books
      BY <1>3 DEF Owned, ShelfInv, BooksTyped
  <2>2. JobFits("mark", j)
      BY <2>1 DEF JobFits, EditionJobs, Books
  <2>3. BooksStep
      BY <1>1, SameBooks DEF ShelfInv
  <2> HIDE DEF j
  <2> QED
      BY <1>1, <1>3, <2>2, <2>3, Continued DEF Stages
<1>4. CASE \E code \in {404, 500} : Respond(h, u, code, {}) /\ (NoFault \/ StoreError)
    BY <1>1, <1>4, ReadOK
<1> QED
    BY <1>2, <1>3, <1>4

(* refresh, MarkEditionPending. *)
LEMMA RefreshMarkOK ==
    ASSUME ShelfInv, NEW h \in Handlers, RefreshMark(h)
    PROVE  StepOK
<1>1. hpc[h] = "mark" /\ job[h].isbn \in Isbns /\ UNCHANGED <<books, used>>
    BY DEF RefreshMark, ShelfInv, HandlersTyped, JobFits, EditionJobs
<1>2. /\ Refresh(job[h].isbn) \/ UNCHANGED lifecycleVars
      /\ \E code \in {202, 500} : Respond(h, job[h].user, code, {}) /\ (NoFault \/ StoreError)
    BY DEF RefreshMark
<1>3. EditionsKept
    BY <1>1, <1>2, RefreshKeeps, EditionsUntouched DEF ShelfInv
<1> QED
    BY <1>1, <1>2, <1>3, ReadOK

(* delete *)
LEMMA DeleteOK ==
    ASSUME ShelfInv, NEW h \in Handlers, NEW u \in Users, NEW id \in Ids, Delete(h, u, id)
    PROVE  StepOK
<1>1. hpc[h] = "idle" /\ EditionsKept /\ used' = used
    BY EditionsUntouched DEF Delete, ShelfInv
<1>2. PICK code \in {204, 404, 500} :
        /\ Respond(h, u, code, {}) /\ (NoFault \/ StoreError)
        /\ books' \in {books, Deleted(u, id)}
        /\ Owned(u, id) => code \in {204, 500}
    BY DEF Delete
<1>3. response'.user = u /\ response'.code = code
    BY <1>2, RespondFacts DEF ShelfInv
<1>4. BooksStep
    BY <1>1, <1>2, <1>3, DeleteBooks DEF ShelfInv
<1>5. \A i \in Ids : books'[i] # NoBook => books'[i] = books[i]
    BY <1>2 DEF Deleted, ShelfInv, BooksTyped
<1> QED
    BY <1>1, <1>2, <1>4, <1>5, Answered

(* The worker's steps touch no book and no handler. *)
LEMMA WorkerOK ==
    ASSUME ShelfInv, WorkerStep
    PROVE  StepOK
<1>1. EditionsKept
    BY FetchKeeps DEF WorkerStep, ShelfInv
<1>2. BooksStep
    BY <1>1, SameBooks DEF WorkerStep, ShelfInv
<1>3. HandlersTyped' /\ OwnResponse /\ response'.books \in SUBSET Views
    BY DEF WorkerStep, ShelfInv, HandlersTyped, JobFits, handlerVars, OwnResponse, NoResponse
<1>4. Sourced
    BY <1>1 DEF Sourced, WorkerStep, EditionsKept, handlerVars
<1> QED
    BY <1>1, <1>2, <1>3, <1>4 DEF StepOK, ShelfInv, EditionsKept, BooksStep, WorkerStep

(* A crash ends every request; a durable store keeps what it holds and the *)
(* other one loses all of it.                                              *)
LEMMA CrashOK ==
    ASSUME ShelfInv, Crash
    PROVE  StepOK
<1>1. faults' \in 0..MaxFaults /\ faults' # 0
    BY BookShelfAssumption DEF ShelfInv, Crash, Fault
<1>2. HandlersTyped' /\ OwnResponse /\ response'.books \in SUBSET Views
    BY DEF Crash, HandlersTyped, JobFits, Stages, OwnResponse, NoResponse
<1>3. TableTyped'
    BY DEF Crash, LifecycleRestart, AfterRestart, EmptyTable, NoRow, ShelfInv, TableTyped,
       LifecycleTypeOK, Tables, Rows, Statuses
<1>4. BooksStep
  <2>1. CASE Durable
    <3>1. EditionsKept
        BY <1>3, <2>1 DEF EditionsKept, Crash, LifecycleRestart, AfterRestart
    <3> QED
        BY <2>1, <3>1, SameBooks DEF Crash, ShelfInv
  <2>2. CASE ~Durable
    <3>1. \A id \in Ids : books'[id] = NoBook
        BY <2>2 DEF Crash
    <3>2. BooksTyped'
        BY <2>2 DEF Crash, BooksTyped, ShelfInv
    <3>3. HandsKept
        BY <2>2 DEF HandsKept, Crash
    <3> QED
        BY <3>1, <3>2, <3>3 DEF BooksStep, NoneBack, TitlesKept, CoversKept, ShelfInv, BooksTyped
  <2> QED
      BY <2>1, <2>2
<1> QED
    BY <1>1, <1>2, <1>3, <1>4 DEF StepOK, ShelfInv, BooksStep, Sourced

(* Every step of the shelf. *)
LEMMA NextOK ==
    ASSUME ShelfInv, ShelfNext
    PROVE  StepOK
<1>1. ASSUME NEW h \in Handlers, Arrival(h) PROVE StepOK
  <2> PICK u \in Users :
        \/ \E i \in Isbns, t \in Titles \cup {NoTitle}, n \in Notes :
              CreateBook(h, u, [owner |-> u, isbn |-> i, title |-> t, notes |-> n])
        \/ \E id \in Ids, p \in Patches : PatchRead(h, u, id, p)
        \/ \E id \in Ids :
              RefreshRead(h, u, id) \/ Delete(h, u, id) \/ Get(h, u, id) \/ Cover(h, u, id)
        \/ List(h, u)
      BY <1>1 DEF Arrival
  <2>1. ASSUME NEW i \in Isbns, NEW t \in Titles \cup {NoTitle}, NEW n \in Notes,
               CreateBook(h, u, [owner |-> u, isbn |-> i, title |-> t, notes |-> n])
        PROVE  StepOK
    <3>1. [owner |-> u, isbn |-> i, title |-> t, notes |-> n] \in Books
        BY DEF Books, StoredTitles
    <3> QED
        BY <2>1, <3>1, CreateStep
  <2> QED
      BY <2>1, PatchReadOK, RefreshReadOK, DeleteOK, GetOK, CoverOK, ListOK
<1>2. ASSUME NEW h \in Handlers, HandlerStep(h) PROVE StepOK
    BY <1>2, EnsureStepOK, RereadOK, PatchWriteOK, RefreshMarkOK DEF HandlerStep
<1> QED
    BY <1>1, <1>2, WorkerOK, CrashOK DEF ShelfNext

-----------------------------------------------------------------------------
(* The edition row of every book *)

Promised(i) ==
    \/ HasRow(editions, i)
    \/ \E h \in Handlers : hpc[h] = "ensure" /\ job[h].isbn = i

(* EveryBookHasEdition is not inductive: a PATCH that keeps the ISBN       *)
(* writes back the one it read, possibly after another PATCH changed it,   *)
(* and then ensures nothing.  The ISBN it holds has to be promised too.    *)
EditionInv ==
    faults = 0 =>
        /\ \A id \in Ids : books[id] # NoBook => Promised(books[id].isbn)
        /\ \A h \in Handlers : hpc[h] = "write" => Promised(job[h].old.isbn)

(* A promise lasts until it is kept. *)
LEMMA PromiseLasts ==
    ASSUME Sourced, faults' = 0, NEW i \in Isbns, Promised(i)
    PROVE  Promised(i)'
<1>1. CASE HasRow(editions, i)
    BY <1>1 DEF Sourced, Promised
<1>2. ASSUME NEW h \in Handlers, hpc[h] = "ensure", job[h].isbn = i PROVE Promised(i)'
    BY <1>2 DEF Sourced, Promised
<1> QED
    BY <1>1, <1>2 DEF Promised

(* No step takes a stored or a held ISBN that is not promised. *)
LEMMA EditionStep ==
    ASSUME ShelfInv, EditionInv, StepOK
    PROVE  EditionInv'
<1> SUFFICES ASSUME faults' = 0
             PROVE  /\ \A id \in Ids : books'[id] # NoBook => Promised(books[id].isbn)'
                    /\ \A h \in Handlers : hpc'[h] = "write" => Promised(job[h].old.isbn)'
    BY DEF EditionInv
<1>1. /\ Sourced /\ faults = 0
      /\ \A id \in Ids : books[id] # NoBook => Promised(books[id].isbn)
      /\ \A h \in Handlers : hpc[h] = "write" => Promised(job[h].old.isbn)
    BY DEF StepOK, Sourced, EditionInv
<1>2. \A id \in Ids : books[id] # NoBook => books[id].isbn \in Isbns
    BY DEF ShelfInv, BooksTyped, Books
<1>3. \A h \in Handlers : hpc[h] = "write" => job[h].old.isbn \in Isbns
    BY DEF ShelfInv, HandlersTyped, JobFits, PatchJobs, Books
<1>4. ASSUME NEW id \in Ids, books'[id] # NoBook
      PROVE  \E i \in Isbns : i = books'[id].isbn /\ Promised(i)'
  <2>1. CASE books'[id] = books[id]
      BY <1>1, <1>2, <1>4, <2>1, PromiseLasts
  <2>2. CASE \E h \in Handlers : hpc'[h] = "ensure" /\ job'[h].isbn = books'[id].isbn
    <3>1. books'[id].isbn \in Isbns
        BY <1>4 DEF StepOK, ShelfInv, BooksTyped, Books
    <3> QED
        BY <2>2, <3>1 DEF Promised
  <2>3. CASE \E h \in Handlers : hpc[h] = "write" /\ job[h].old.isbn = books'[id].isbn
      BY <1>1, <1>3, <2>3, PromiseLasts
  <2> QED
      BY <1>1, <1>4, <2>1, <2>2, <2>3 DEF Sourced
<1>5. ASSUME NEW h \in Handlers, hpc'[h] = "write"
      PROVE  \E i \in Isbns : i = job'[h].old.isbn /\ Promised(i)'
    BY <1>1, <1>2, <1>3, <1>5, PromiseLasts DEF Sourced
<1> QED
    BY <1>4, <1>5 DEF Promised, HasRow

-----------------------------------------------------------------------------
(* The theorems *)

(* An empty shelf without requests. *)
LEMMA InitShelf == ShelfInit => ShelfInv /\ EditionInv
<1> SUFFICES ASSUME ShelfInit PROVE ShelfInv /\ EditionInv
    OBVIOUS
<1>1. TableTyped
    BY DEF ShelfInit, LifecycleInit, TableTyped, LifecycleTypeOK, EmptyTable, NoRow, Tables,
       Rows, Statuses
<1>2. BooksTyped /\ HandlersTyped
    BY DEF ShelfInit, BooksTyped, HandlersTyped, JobFits, Stages
<1>3. response.books \in SUBSET Views /\ faults \in 0..MaxFaults
    BY BookShelfAssumption DEF ShelfInit, NoResponse
<1>4. EditionInv
    BY DEF ShelfInit, EditionInv
<1> QED
    BY <1>1, <1>2, <1>3, <1>4 DEF ShelfInv

(* A stuttering step changes none of it. *)
LEMMA StutterShelf ==
    ASSUME ShelfInv, EditionInv, UNCHANGED shelfVars
    PROVE  ShelfInv' /\ EditionInv'
<1> USE DEF shelfVars, lifecycleVars, handlerVars
<1>1. ShelfInv'
    BY DEF ShelfInv, TableTyped, LifecycleTypeOK, BooksTyped, HandlersTyped, JobFits
<1>2. EditionInv'
    BY DEF EditionInv, Promised, HasRow
<1> QED
    BY <1>1, <1>2

(* handlers.go: however many requests overlap, fail or are cut short, the  *)
(* handlers hold what their next store call needs and the tables stay well *)
(* formed.                                                                 *)
THEOREM ShelfInvariance == ShelfSpec => [](ShelfInv /\ EditionInv)
<1>1. ShelfInv /\ EditionInv /\ [ShelfNext]_shelfVars => ShelfInv' /\ EditionInv'
    BY NextOK, EditionStep, StutterShelf DEF StepOK
<1> QED
    BY <1>1, InitShelf, PTL DEF ShelfSpec

(* Type correctness: every book is under an ID that was handed out, and    *)
(* every handler's locals fit the store call it makes next.                *)
THEOREM ShelfTypeCorrect == ShelfSpec => []ShelfTypeOK
<1>1. ShelfInv => ShelfTypeOK
    BY DEF ShelfInv, ShelfTypeOK, TableTyped, BooksTyped, HandlersTyped, JobFits
<1> QED
    BY <1>1, ShelfInvariance, PTL

(* enqueueEnrichment: without faults every stored book's ISBN has its      *)
(* edition row or a handler that is about to create it.                    *)
THEOREM BooksHaveEditions == ShelfSpec => []EveryBookHasEdition
<1>1. EditionInv => EveryBookHasEdition
    BY DEF EditionInv, EveryBookHasEdition, Promised
<1> QED
    BY <1>1, ShelfInvariance, PTL

(* ownedBook and the user_id conditions: no response shows a book of       *)
(* another user, a book's content changes only in a write of its owner's   *)
(* PATCH, and only its owner's request removes it.                         *)
THEOREM UsersAreIsolated == ShelfSpec => TenantIsolation
<1>1. ShelfInv /\ [ShelfNext]_shelfVars =>
        [/\ \A v \in response'.books : v.owner = response'.user
         /\ \A id \in Ids : books[id] # NoBook /\ books'[id] # books[id] =>
               \/ /\ books'[id] # NoBook /\ books'[id].owner = books[id].owner
                  /\ \E h \in Handlers :
                        /\ hpc[h] = "write" /\ hpc'[h] # "write"
                        /\ job[h].id = id /\ job[h].user = books[id].owner
               \/ /\ books'[id] = NoBook
                  /\ response'.user = books[id].owner /\ response'.code \in {204, 500}
               \/ ~Durable /\ \A h \in Handlers : hpc'[h] = "idle"]_shelfVars
    BY NextOK DEF StepOK, BooksStep, HandsKept, OwnResponse
<1> QED
    BY <1>1, ShelfInvariance, PTL DEF ShelfSpec, TenantIsolation

(* Store.Update and newID: a deleted book never comes back, not even       *)
(* through a PATCH that read it before the delete.                         *)
THEOREM DeletedStaysDeleted == ShelfSpec => NoResurrection
<1>1. ShelfInv /\ [ShelfNext]_shelfVars =>
        [\A id \in used : books[id] = NoBook => books'[id] = NoBook]_shelfVars
    BY NextOK DEF StepOK, BooksStep, NoneBack
<1> QED
    BY <1>1, ShelfInvariance, PTL DEF ShelfSpec, NoResurrection

(* applyCanonicalNames: an edition's title never displaces one that a      *)
(* client typed, except through a PATCH that read the book earlier.        *)
THEOREM TypedTitleWins == ShelfSpec => UserTitleWins
<1>1. ShelfInv /\ [ShelfNext]_shelfVars =>
        [\A id \in Ids :
            books[id] # NoBook /\ books'[id] # NoBook /\ books[id].title \in Titles
                => \/ books'[id].title \in Titles
                   \/ \E h \in Handlers :
                         /\ hpc[h] = "write" /\ hpc'[h] # "write"
                         /\ job[h].id = id /\ job[h].seen # books[id].title]_shelfVars
    BY NextOK DEF StepOK, BooksStep, TitlesKept
<1> QED
    BY <1>1, ShelfInvariance, PTL DEF ShelfSpec, UserTitleWins

(* setCoverURL and CoverForBook: an announced cover stays served as long   *)
(* as the book keeps its ISBN.                                             *)
THEOREM AnnouncedCoversResolve == ShelfSpec => CoverURLResolves
<1>1. ShelfInv /\ [ShelfNext]_shelfVars =>
        [\A id \in Ids :
            /\ books[id] # NoBook /\ View(id).hasCover
            /\ books'[id] # NoBook /\ books'[id].isbn = books[id].isbn
            => CoverForBook(books[id].owner, id)']_shelfVars
    BY NextOK DEF StepOK, BooksStep, CoversKept
<1> QED
    BY <1>1, ShelfInvariance, PTL DEF ShelfSpec, CoverURLResolves

(* worker.go and enqueueEnrichment: as long as no store call has failed    *)
(* and no crash has cut a request short, the sweeps see every book once no *)
(* request is in progress.  NothingMissed is violated by such a crash.     *)
THEOREM NoneMissedWithoutFault ==
    ShelfSpec => [](faults = 0 /\ (\A h \in Handlers : hpc[h] = "idle") => SweepsSeeEveryBook)
<1>1. EveryBookHasEdition =>
        (faults = 0 /\ (\A h \in Handlers : hpc[h] = "idle") => SweepsSeeEveryBook)
    BY DEF EveryBookHasEdition, SweepsSeeEveryBook
<1> QED
    BY <1>1, BooksHaveEditions, PTL
=============================================================================
