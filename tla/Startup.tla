------------------------------- MODULE Startup -------------------------------
(***************************************************************************)
(* How a process of cmd/api comes up and whom it lets in: newStore running *)
(* the migrations against a database that older releases wrote to and may  *)
(* still be writing to, newAuthMiddleware, and then the requests, through  *)
(* the auth middleware and requireUser, to the rows of that database.      *)
(*                                                                         *)
(* Postgres is external: a migration file has no arguments, so it is one   *)
(* simple query and one transaction, which commits or leaves no trace.     *)
(* That of 0004 is two steps here, its DELETEs and its ALTERs, since other *)
(* processes write between them: a DELETE lets them, an ALTER waits until  *)
(* no transaction is using the table.                                      *)
(* A row is [owner, isbn]; the other columns play no part here.  What the  *)
(* handlers do beyond the checks of this module is in BookShelf.           *)
(***************************************************************************)
EXTENDS Isbn

CONSTANTS
    Procs,          \* processes of this release
    Ids,            \* bound: rows of the books table
    Subjects,       \* OIDC subjects
    NoOwner,        \* user_id '', the default of migration 0002
    Dev,            \* the subject of AUTH_DISABLED
    Envs,           \* environments: [disabled, issuer, audience, group]
    Tokens,         \* Authorization headers: [bearer, valid, sub, member]
    LegacyTexts,    \* what older releases write to books.isbn
    Inputs,         \* the ISBNs of requests that meet huma's schema
    MaxFaults       \* bound: failed statements, failed discoveries, crashes

ASSUME StartupAssumption ==
    /\ NoOwner \notin Subjects \cup {Dev}
    /\ Envs \subseteq [disabled : BOOLEAN, issuer : BOOLEAN, audience : BOOLEAN, group : BOOLEAN]
    /\ Tokens \subseteq [bearer : BOOLEAN, valid : BOOLEAN,
                         sub : Subjects \cup {NoOwner}, member : BOOLEAN]
    /\ LegacyTexts \subseteq Texts \cup {NoText}
    /\ Inputs \subseteq Texts
    /\ \A input \in Inputs : SchemaAccepts(input)
    /\ MaxFaults \in Nat

VARIABLES
    env,        \* the environment of the deployment
    schema,     \* how many migrations the database has
    books,      \* the books table
    editions,   \* the keys of the editions table
    oldRelease, \* a process of an older release is still running
    stage,      \* how far each process has come
    step,       \* the migration it runs next
    deleted,    \* what its open transaction of 0004 has deleted
    response,   \* the last response of this release
    faults      \* how much of the budget is spent

dbVars   == <<schema, books, editions>>
procVars == <<stage, step, deleted>>
startupVars == <<env, dbVars, oldRelease, procVars, response, faults>>

Last   == 4
Owners == Subjects \cup {NoOwner, Dev}
Isbns  == LegacyTexts \cup {CanonicalISBN(t) : t \in Inputs}
Rows   == [owner : Owners, isbn : Isbns]
NoBook == [owner |-> "none"]
Nothing == [books |-> {}, editions |-> {}]
NoResponse == [code |-> 0]
StatusCodes == {200, 201, 202, 204, 401, 403, 404, 422, 500}

StartupTypeOK ==
    /\ env \in Envs
    /\ schema \in 0..Last
    /\ books \in [Ids -> Rows \cup {NoBook}]
    /\ editions \in SUBSET Isbns
    /\ oldRelease \in BOOLEAN
    /\ stage \in [Procs -> {"down", "migrate", "alter", "auth", "serving"}]
    /\ step \in [Procs -> 1..Last]
    /\ deleted \in [Procs -> [books : SUBSET Ids, editions : SUBSET Isbns]]
    /\ \A p \in Procs : stage[p] = "migrate" => step[p] <= schema + 1
    /\ \A p \in Procs : stage[p] = "alter" => Last <= schema + 1
    /\ \A p \in Procs : stage[p] \in {"auth", "serving"} => schema = Last
    /\ \/ response = NoResponse
       \/ response \in [code : StatusCodes, token : Tokens, owners : SUBSET Owners]
    /\ faults \in 0..MaxFaults

(* A new database, or one that an older release has migrated. *)
StartupInit ==
    /\ env \in Envs
    /\ schema \in 0..Last
    /\ books = [id \in Ids |-> NoBook]
    /\ editions = {}
    /\ oldRelease = (schema > 0)
    /\ stage = [p \in Procs |-> "down"]
    /\ step = [p \in Procs |-> 1]
    /\ deleted = [p \in Procs |-> Nothing]
    /\ response = NoResponse
    /\ faults = 0

NoFault == UNCHANGED faults
Fault   == faults < MaxFaults /\ faults' = faults + 1

-----------------------------------------------------------------------------
(* The older release *)

(* The constraint of migration 0004, once it is there. *)
Storable(isbn) == schema = Last => BooksIsbnShape(isbn)

(* It stores what it was given, without an owner if it predates 0002. *)
OldWrite(id, isbn, owner) ==
    /\ oldRelease /\ books[id] = NoBook
    /\ Storable(isbn)
    /\ schema < 2 => owner = NoOwner
    /\ books' = [books EXCEPT ![id] = [owner |-> owner, isbn |-> isbn]]
    /\ editions' \in {editions} \cup IF schema >= 3 THEN {editions \cup {isbn}} ELSE {}
    /\ UNCHANGED <<env, schema, oldRelease, procVars, response, faults>>

OldGone ==
    /\ oldRelease /\ oldRelease' = FALSE
    /\ UNCHANGED <<env, dbVars, procVars, response, faults>>

-----------------------------------------------------------------------------
(* newStore and Migrate *)

(* The process exits; what its transaction did is undone. *)
Exit(gone) ==
    /\ stage' = [p \in Procs |-> IF p \in gone THEN "down" ELSE stage[p]]
    /\ deleted' = [p \in Procs |-> IF p \in gone THEN Nothing ELSE deleted[p]]

Start(p) ==
    /\ stage[p] = "down"
    /\ stage' = [stage EXCEPT ![p] = "migrate"]
    /\ step' = [step EXCEPT ![p] = 1]
    /\ UNCHANGED <<env, dbVars, oldRelease, deleted, response, faults>>

(* 0001 to 0003 create tables and a column with a default, and do nothing  *)
(* to a database that has them already.  Processes running the same one    *)
(* meanwhile may lose to it (a table that exists by now) and exit.         *)
Migrate(p) ==
    /\ stage[p] = "migrate" /\ step[p] < Last
    /\ schema' = IF schema < step[p] THEN step[p] ELSE schema
    /\ \E losers \in SUBSET {q \in Procs \ {p} : stage[q] = "migrate" /\ step[q] = step[p]} :
          Exit(losers)
    /\ step' = [step EXCEPT ![p] = @ + 1]
    /\ UNCHANGED <<env, books, editions, oldRelease, response, faults>>

(* Faulty variant: 0004 deletes every row its check would refuse. *)
GhostRowsStrict == {id \in Ids : books[id] # NoBook /\ ~BooksIsbnShape(books[id].isbn)}

(* 0004: DELETE FROM books WHERE isbn IS NULL OR btrim(isbn) = ''. *)
GhostRows == {id \in Ids : books[id] # NoBook /\ Ghost(books[id].isbn)}

(* 0004 deletes the ghosts it finds, which nobody sees before it commits.  *)
(* A process whose DELETE waits for another's has come as far: the other's *)
(* ALTER waits for it in turn.                                             *)
DeleteGhosts(p) ==
    /\ stage[p] = "migrate" /\ step[p] = Last
    /\ deleted' = [deleted EXCEPT ![p] = [books |-> GhostRows,
                                         editions |-> {e \in editions : Ghost(e)}]]
    /\ stage' = [stage EXCEPT ![p] = "alter"]
    /\ UNCHANGED <<env, dbVars, oldRelease, step, response, faults>>

(* 0004: ADD CONSTRAINT fails on a row that violates it. *)
ConstraintHolds(table) ==
    \A id \in Ids : table[id] # NoBook => BooksIsbnShape(table[id].isbn)

(* The table as the process's transaction sees it. *)
Left(p) == [id \in Ids |-> IF id \in deleted[p].books THEN NoBook ELSE books[id]]

(* Faulty variant: ADD CONSTRAINT without the catalogue probe. *)
CommitsUnprobed(p) == schema < Last /\ ConstraintHolds(Left(p))

(* The ALTERs succeed on what is left, ghosts that were written since the  *)
(* DELETE included; nothing is altered where the constraint is in place.   *)
Commits(p) == schema < Last => ConstraintHolds(Left(p))

(* Those whose DELETEs keep p's ALTER waiting while theirs would wait for  *)
(* p: Postgres ends their transactions as a deadlock, and they exit.       *)
Deadlocked(p) == {q \in Procs \ {p} : stage[q] = "alter"}

(* 0004 commits. *)
Alter(p) ==
    /\ stage[p] = "alter" /\ Commits(p)
    /\ schema' = Last
    /\ books' = Left(p)
    /\ editions' = editions \ deleted[p].editions
    /\ stage' = [q \in Procs |-> CASE q \in Deadlocked(p) -> "down"
                                  [] q = p -> "auth"
                                  [] OTHER -> stage[q]]
    /\ deleted' = [q \in Procs |-> IF stage[q] = "alter" THEN Nothing ELSE deleted[q]]
    /\ UNCHANGED <<env, oldRelease, step, response, faults>>

(* Faulty variant: the error is logged and the process goes on. *)
AlterFailsCarriesOn(p) ==
    /\ stage[p] = "alter" /\ ~Commits(p)
    /\ stage' = [stage EXCEPT ![p] = "auth"]
    /\ deleted' = [deleted EXCEPT ![p] = Nothing]
    /\ UNCHANGED <<env, dbVars, oldRelease, step, response, faults>>

(* 0004 fails on the rows it finds, and newStore exits. *)
AlterFails(p) ==
    /\ stage[p] = "alter" /\ ~Commits(p)
    /\ Exit({p} \cup Deadlocked(p))
    /\ UNCHANGED <<env, dbVars, oldRelease, step, response, faults>>

(* A migration fails for any other reason: newStore exits. *)
MigrateFails(p) ==
    /\ stage[p] \in {"migrate", "alter"}
    /\ Fault
    /\ Exit({p})
    /\ UNCHANGED <<env, dbVars, oldRelease, step, response>>

(* newAuthMiddleware: no issuer, or one that cannot be reached, is fatal.  *)
ConfigureAuth(p) ==
    /\ stage[p] = "auth"
    /\ \/ (env.disabled \/ env.issuer) /\ NoFault
          /\ stage' = [stage EXCEPT ![p] = "serving"] /\ UNCHANGED deleted
       \/ ~env.disabled /\ ~env.issuer /\ NoFault /\ Exit({p})
       \/ ~env.disabled /\ env.issuer /\ Fault /\ Exit({p})
    /\ UNCHANGED <<env, dbVars, oldRelease, step, response>>

Crash(p) ==
    /\ stage[p] # "down"
    /\ Fault
    /\ Exit({p})
    /\ UNCHANGED <<env, dbVars, oldRelease, step, response>>

-----------------------------------------------------------------------------
(* Requests *)

(* Faulty variant: the group is not checked. *)
VerifyAnyGroup(t) == IF ~t.valid \/ ~env.audience THEN 401 ELSE 200

(* OIDCVerifier.Verify: go-oidc refuses every token when it has no client  *)
(* ID to compare the audience with.                                        *)
Verify(t) ==
    CASE ~t.valid \/ ~env.audience -> 401
      [] t.valid /\ env.audience /\ env.group /\ ~t.member -> 403
      [] OTHER -> 200

(* The middleware main installed: NewHumaMiddleware or StaticHumaMiddleware. *)
Middleware(t) ==
    CASE env.disabled -> 200
      [] ~env.disabled /\ ~t.bearer -> 401
      [] OTHER -> Verify(t)

Subject(t) == IF env.disabled THEN Dev ELSE t.sub

(* Faulty variant: the guard is taken to be superfluous. *)
AdmissionUnguarded(t) == Middleware(t)

(* The middleware and requireUser's guard against an empty subject. *)
Admission(t) == IF Middleware(t) = 200 /\ Subject(t) = NoOwner THEN 401 ELSE Middleware(t)

Respond(t, code, owners) == response' = [code |-> code, token |-> t, owners |-> owners]

Owned(t, id) == books[id] # NoBook /\ books[id].owner = Subject(t)

Requests == UNCHANGED <<env, schema, oldRelease, procVars, faults>>

Refuse(t) ==
    /\ Admission(t) # 200
    /\ Respond(t, Admission(t), {})
    /\ UNCHANGED <<books, editions>> /\ Requests

List(t) ==
    /\ Admission(t) = 200
    /\ Respond(t, 200, {books[id].owner : id \in {i \in Ids : Owned(t, i)}})
    /\ UNCHANGED <<books, editions>> /\ Requests

(* The handlers find no book under that ID, or another user's. *)
NotFound(t, id) ==
    /\ ~Owned(t, id)
    /\ Respond(t, 404, {})
    /\ UNCHANGED <<books, editions>>

Get(t, id) ==
    /\ Admission(t) = 200
    /\ \/ NotFound(t, id)
       \/ Owned(t, id)
          /\ Respond(t, 200, {books[id].owner}) /\ UNCHANGED <<books, editions>>
    /\ Requests

(* The bytes are the edition's, and served to those who have the book. *)
Cover(t, id) ==
    /\ Admission(t) = 200
    /\ \/ NotFound(t, id)
       \/ Owned(t, id)
          /\ \/ Respond(t, 404, {})
             \/ books[id].isbn \in editions /\ Respond(t, 200, {books[id].owner})
          /\ UNCHANGED <<books, editions>>
    /\ Requests

(* MarkEditionPending inserts the edition if there is none. *)
Refresh(t, id) ==
    /\ Admission(t) = 200
    /\ \/ NotFound(t, id)
       \/ /\ Owned(t, id)
          /\ IF books[id].isbn = NoText
             THEN Respond(t, 422, {}) /\ UNCHANGED editions
             ELSE /\ editions' = editions \cup {books[id].isbn}
                  /\ Respond(t, 202, {books[id].owner})
          /\ UNCHANGED books
    /\ Requests

Delete(t, id) ==
    /\ Admission(t) = 200
    /\ \/ NotFound(t, id)
       \/ Owned(t, id)
          /\ books' = [books EXCEPT ![id] = NoBook] /\ UNCHANGED editions
          /\ Respond(t, 204, {})
    /\ Requests

(* The row is written, or the check constraint refuses it.  An ISBN that  *)
(* the row did not have before gets its edition.                           *)
Store(t, id, isbn, code) ==
    IF Storable(isbn)
    THEN /\ books' = [books EXCEPT ![id] = [owner |-> Subject(t), isbn |-> isbn]]
         /\ editions' = IF books[id] # NoBook /\ books[id].isbn = isbn
                        THEN editions ELSE editions \cup {isbn}
         /\ Respond(t, code, {Subject(t)})
    ELSE UNCHANGED <<books, editions>> /\ Respond(t, 500, {})

(* isbnFromInput refuses the ISBN. *)
Invalid(input) == input # NoText /\ CanonicalISBN(input) = NoText

Create(t, id, input) ==
    /\ Admission(t) = 200
    /\ books[id] = NoBook
    /\ IF Invalid(input)
       THEN Respond(t, 422, {}) /\ UNCHANGED <<books, editions>>
       ELSE Store(t, id, CanonicalISBN(input), 201)
    /\ Requests

(* A PATCH writes the ISBN back, the stored one if it brings none. *)
Patch(t, id, input) ==
    /\ Admission(t) = 200
    /\ \/ NotFound(t, id)
       \/ Owned(t, id) /\ Invalid(input)
          /\ Respond(t, 422, {}) /\ UNCHANGED <<books, editions>>
       \/ Owned(t, id) /\ ~Invalid(input)
          /\ Store(t, id, IF input = NoText THEN books[id].isbn ELSE CanonicalISBN(input), 200)
    /\ Requests

Request(p) ==
    /\ stage[p] = "serving"
    /\ \E t \in Tokens :
          \/ Refuse(t) \/ List(t)
          \/ \E id \in Ids : Get(t, id) \/ Cover(t, id) \/ Refresh(t, id) \/ Delete(t, id)
          \/ \E id \in Ids, input \in Inputs : Create(t, id, input)
          \/ \E id \in Ids, input \in Inputs \cup {NoText} : Patch(t, id, input)

-----------------------------------------------------------------------------
ComeUp(p) ==
    \/ Start(p) \/ Migrate(p) \/ DeleteGhosts(p) \/ Alter(p) \/ AlterFails(p)
    \/ MigrateFails(p) \/ ConfigureAuth(p)

StartupNext ==
    \/ \E id \in Ids, isbn \in LegacyTexts, owner \in Subjects \cup {NoOwner} :
          OldWrite(id, isbn, owner)
    \/ OldGone
    \/ \E p \in Procs : ComeUp(p) \/ Crash(p) \/ Request(p)

StartupSpec == StartupInit /\ [][StartupNext]_startupVars

(* Processes that exit are started again, and run. *)
StartupFairSpec == StartupSpec /\ \A p \in Procs : WF_startupVars(ComeUp(p))

-----------------------------------------------------------------------------
(* Properties *)

(* "A misconfigured verifier is fatal - the server must never start        *)
(* silently open": whatever the environment and however the process came   *)
(* up, a response with books in it went to the bearer of a valid token, in *)
(* the required group if there is one, and shows that subject's books; or  *)
(* authentication is declared disabled and the books are dev's.            *)
NeverSilentlyOpen ==
    response # NoResponse /\ response.owners # {} =>
        IF env.disabled THEN response.owners = {Dev}
        ELSE /\ response.token.bearer /\ response.token.valid
             /\ env.group => response.token.member
             /\ response.owners = {response.token.sub}

(* The rows that migration 0002 gave to user '' belong to nobody: no token *)
(* is shown one, changes one or deletes one, not even a valid token        *)
(* without a subject.  They go only as ghosts, when 0004 first succeeds.   *)
PreAuthRowsUntouched ==
    [][/\ response' # NoResponse => NoOwner \notin response'.owners
       /\ \A id \in Ids :
             books[id] # NoBook /\ books[id].owner = NoOwner /\ books'[id] # books[id]
                 => books'[id] = NoBook /\ Ghost(books[id].isbn) /\ schema < Last]_startupVars

(* A DELETE request of the row's owner, and no step of a migration. *)
DeletedByOwner(id) ==
    /\ UNCHANGED procVars
    /\ response'.code = 204 /\ books[id].owner = Subject(response'.token)

(* The destructive part of migration 0004 hits ghosts only, and only until *)
(* it has succeeded once: later starts delete no book, whatever the older  *)
(* release and this one have written in between ("safe to call on every    *)
(* startup"); other books go when their owner deletes them.  Editions too  *)
(* go only when their key is blank.                                        *)
OnlyGhostsDeleted ==
    [][/\ \A id \in Ids : books[id] # NoBook /\ books'[id] = NoBook
             => (Ghost(books[id].isbn) /\ schema < Last) \/ DeletedByOwner(id)
       /\ \A e \in editions \ editions' : Ghost(e)]_startupVars

(* What isbnFromInput accepts, and what older releases left, the database  *)
(* accepts: no create or PATCH fails on books_isbn_shape.                  *)
AcceptedIsStorable == response # NoResponse => response.code # 500

(* Restarts end in service: unless the rows of the older release hold an   *)
(* ISBN that is neither blank nor of the checked shape, or no issuer is    *)
(* configured, every process is up again and again, through crashes,       *)
(* failed migrations, ghosts that appear between 0004's DELETE and ALTER,  *)
(* and processes that start at the same time.  The older release writes    *)
(* finitely many rows (Ids).                                               *)
Legal(isbn) == Ghost(isbn) \/ BooksIsbnShape(isbn)
ComesUp ==
    (env.disabled \/ env.issuer)
        /\ <>[](\A id \in Ids : books[id] # NoBook => Legal(books[id].isbn))
        => \A p \in Procs : []<>(stage[p] = "serving")
=============================================================================
