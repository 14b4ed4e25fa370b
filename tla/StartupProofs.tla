---------------------------- MODULE StartupProofs ----------------------------
(***************************************************************************)
(* Proofs about Startup for any number of processes, rows, subjects,       *)
(* tokens, environments and faults, and whatever older releases wrote.     *)
(***************************************************************************)
EXTENDS Startup, IsbnProofs

(* The database keeps its own constraint. *)
Checked == schema = Last => ConstraintHolds(books)

(* What an open transaction of 0004 has deleted: ghosts that are still     *)
(* there for everybody else.                                               *)
GhostsPending ==
    \A p \in Procs :
        /\ stage[p] # "alter" => deleted[p] = Nothing
        /\ \A id \in deleted[p].books : books[id] # NoBook /\ Ghost(books[id].isbn)
        /\ \A e \in deleted[p].editions : Ghost(e)

(* No response shows a row of user ''. *)
NobodysHidden == response # NoResponse => NoOwner \notin response.owners

StartupInv ==
    /\ StartupTypeOK
    /\ Checked
    /\ GhostsPending
    /\ NobodysHidden
    /\ NeverSilentlyOpen
    /\ AcceptedIsStorable

(* What the action properties ask of a step. *)
RowsStep ==
    /\ \A id \in Ids :
          books[id] # NoBook /\ books[id].owner = NoOwner /\ books'[id] # books[id]
              => books'[id] = NoBook /\ Ghost(books[id].isbn) /\ schema < Last
    /\ \A id \in Ids : books[id] # NoBook /\ books'[id] = NoBook
          => (Ghost(books[id].isbn) /\ schema < Last) \/ DeletedByOwner(id)
    /\ \A e \in editions \ editions' : Ghost(e)

-----------------------------------------------------------------------------
(* Texts and rows *)

(* A row is not the absence of one. *)
LEMMA RowIsSome == \A r \in Rows : r # NoBook
BY DEF Rows, NoBook

(* The check of migration 0004 refuses ghosts. *)
LEMMA ShapedIsNoGhost == \A t : BooksIsbnShape(t) => ~Ghost(t)
BY DEF BooksIsbnShape, IsbnShape, ShapedKinds, Ghost

(* What isbnFromInput lets through is of the shape the database checks. *)
LEMMA AcceptedInput ==
    ASSUME NEW input \in Inputs, ~Invalid(input)
    PROVE  BooksIsbnShape(CanonicalISBN(input)) /\ CanonicalISBN(input) \in Isbns
<1>1. input \in Texts /\ input # NoText
  <2>1. LengthOf(NoText) = 0
      BY DEF LengthOf, NoText
  <2>2. ~SchemaAccepts(NoText)
      BY <2>1 DEF SchemaAccepts
  <2> QED
      BY <2>2, StartupAssumption
<1>2. IsbnShape(input)
    BY <1>1, RefusedFacts DEF Invalid
<1> QED
    BY <1>1, <1>2, CanonicalIsCanonical DEF Isbns

(* Whoever is let in has a subject; with authentication on it is that of a *)
(* valid bearer token, in the required group.                              *)
LEMMA AdmittedFacts ==
    ASSUME NEW t \in Tokens, Admission(t) = 200
    PROVE  /\ Subject(t) # NoOwner
           /\ Subject(t) \in Owners
           /\ env.disabled => Subject(t) = Dev
           /\ ~env.disabled => /\ t.bearer /\ t.valid
                               /\ env.group => t.member
                               /\ Subject(t) = t.sub
<1>1. Middleware(t) = 200 /\ Subject(t) # NoOwner
    BY DEF Admission
<1>2. t.sub \in Subjects \cup {NoOwner}
    BY StartupAssumption
<1>3. ~env.disabled => t.bearer /\ Verify(t) = 200
    BY <1>1 DEF Middleware
<1>4. ~env.disabled => t.valid /\ (env.group => t.member)
    BY <1>3 DEF Verify
<1> QED
    BY <1>1, <1>2, <1>3, <1>4 DEF Subject, Owners

-----------------------------------------------------------------------------
(* Steps that leave the responses alone *)

(* The response and the environment are as before. *)
LEMMA SameResponse ==
    ASSUME StartupInv, UNCHANGED <<env, response>>
    PROVE  NobodysHidden' /\ NeverSilentlyOpen' /\ AcceptedIsStorable'
BY DEF StartupInv, NobodysHidden, NeverSilentlyOpen, AcceptedIsStorable, NoResponse

(* A step of the processes that leaves the database alone. *)
LEMMA SameDatabase ==
    ASSUME StartupInv, UNCHANGED <<env, schema, books, editions, response>>,
           StartupTypeOK', GhostsPending'
    PROVE  StartupInv' /\ RowsStep
<1>1. Checked'
    BY DEF StartupInv, Checked, ConstraintHolds
<1>2. RowsStep
    BY DEF RowsStep
<1> QED
    BY <1>1, <1>2, SameResponse DEF StartupInv

(* The older release fills a free row, within the constraint. *)
LEMMA OldWriteOK ==
    ASSUME StartupInv, NEW id \in Ids, NEW isbn \in LegacyTexts,
           NEW owner \in Subjects \cup {NoOwner}, OldWrite(id, isbn, owner)
    PROVE  StartupInv' /\ RowsStep
<1> USE DEF StartupInv
<1>1. /\ books' = [books EXCEPT ![id] = [owner |-> owner, isbn |-> isbn]]
      /\ books[id] = NoBook
      /\ editions' \in {editions, editions \cup {isbn}}
      /\ UNCHANGED <<env, schema, oldRelease, stage, step, deleted, response, faults>>
    BY DEF OldWrite, procVars
<1>2. [owner |-> owner, isbn |-> isbn] \in Rows /\ isbn \in Isbns
    BY DEF Rows, Owners, Isbns
<1>3. StartupTypeOK'
    BY <1>1, <1>2 DEF StartupTypeOK, NoResponse
<1>4. Checked'
  <2>1. schema = Last => BooksIsbnShape(isbn)
      BY DEF OldWrite, Storable
  <2> QED
      BY <1>1, <2>1 DEF Checked, ConstraintHolds, StartupTypeOK
<1>5. \A i \in Ids : i # id => books'[i] = books[i]
    BY <1>1 DEF StartupTypeOK
<1>6. RowsStep
    BY <1>1, <1>5 DEF RowsStep
<1>7. GhostsPending'
  <2>1. \A p \in Procs : deleted[p].books \subseteq Ids
      BY DEF StartupTypeOK
  <2> QED
      BY <1>1, <1>5, <2>1 DEF GhostsPending
<1> QED
    BY <1>1, <1>3, <1>4, <1>6, <1>7, SameResponse

(* The older release stops. *)
LEMMA OldGoneOK ==
    ASSUME StartupInv, OldGone
    PROVE  StartupInv' /\ RowsStep
<1>1. /\ oldRelease' \in BOOLEAN
      /\ UNCHANGED <<env, schema, books, editions, stage, step, deleted, response, faults>>
    BY DEF OldGone, dbVars, procVars
<1>2. StartupTypeOK /\ GhostsPending
    BY DEF StartupInv
<1>3. StartupTypeOK' /\ GhostsPending'
    BY <1>1, <1>2 DEF StartupTypeOK, GhostsPending, NoResponse
<1> QED
    BY <1>1, <1>3, SameDatabase

(* Steps of the processes that leave the database alone: one of them moves *)
(* on, or some of them exit.                                               *)
LEMMA ProcessOK ==
    ASSUME StartupInv, NEW p \in Procs,
           \/ Start(p) \/ DeleteGhosts(p) \/ AlterFails(p) \/ MigrateFails(p)
           \/ ConfigureAuth(p) \/ Crash(p)
    PROVE  StartupInv' /\ RowsStep
<1> USE DEF StartupInv
<1>1. UNCHANGED <<env, schema, books, editions, oldRelease, response>>
    BY DEF Start, DeleteGhosts, AlterFails, MigrateFails, ConfigureAuth, Crash, dbVars
<1>2. faults' \in 0..MaxFaults
    BY StartupAssumption DEF Start, DeleteGhosts, AlterFails, MigrateFails, ConfigureAuth, Crash,
       NoFault, Fault, StartupTypeOK
<1>3. \/ Start(p) \/ DeleteGhosts(p)
      \/ /\ stage[p] = "auth" /\ stage' = [stage EXCEPT ![p] = "serving"]
         /\ UNCHANGED <<step, deleted>>
      \/ \E gone \in SUBSET Procs : Exit(gone) /\ step' = step
    BY DEF AlterFails, MigrateFails, ConfigureAuth, Crash, Deadlocked
<1>4. /\ stage' \in [Procs -> {"down", "migrate", "alter", "auth", "serving"}]
      /\ step' \in [Procs -> 1..Last]
      /\ \A q \in Procs : stage'[q] = "migrate" => step'[q] <= schema + 1
      /\ \A q \in Procs : stage'[q] = "alter" => Last <= schema + 1
      /\ \A q \in Procs : stage'[q] \in {"auth", "serving"} => schema = Last
  <2> DEFINE Goal ==
        /\ stage' \in [Procs -> {"down", "migrate", "alter", "auth", "serving"}]
        /\ step' \in [Procs -> 1..Last]
        /\ \A q \in Procs : stage'[q] = "migrate" => step'[q] <= schema + 1
        /\ \A q \in Procs : stage'[q] = "alter" => Last <= schema + 1
        /\ \A q \in Procs : stage'[q] \in {"auth", "serving"} => schema = Last
  <2>1. CASE Start(p)
      BY <2>1 DEF Start, StartupTypeOK, Last
  <2>2. CASE DeleteGhosts(p)
      BY <2>2 DEF DeleteGhosts, StartupTypeOK, Last
  <2>3. CASE /\ stage[p] = "auth" /\ stage' = [stage EXCEPT ![p] = "serving"]
             /\ UNCHANGED <<step, deleted>>
      BY <2>3 DEF StartupTypeOK
  <2>4. ASSUME NEW gone \in SUBSET Procs, Exit(gone), step' = step
        PROVE  Goal
      BY <2>4 DEF Exit, StartupTypeOK
  <2> QED
      BY <1>3, <2>1, <2>2, <2>3, <2>4
<1>5. /\ deleted' \in [Procs -> [books : SUBSET Ids, editions : SUBSET Isbns]]
      /\ GhostsPending'
  <2>1. CASE DeleteGhosts(p)
    <3> DEFINE found == [books |-> GhostRows, editions |-> {e \in editions : Ghost(e)}]
    <3>1. found \in [books : SUBSET Ids, editions : SUBSET Isbns]
        BY DEF GhostRows, StartupTypeOK
    <3>2. /\ \A id \in found.books : books[id] # NoBook /\ Ghost(books[id].isbn)
          /\ \A e \in found.editions : Ghost(e)
        BY DEF GhostRows
    <3>3. deleted' = [deleted EXCEPT ![p] = found] /\ stage' = [stage EXCEPT ![p] = "alter"]
        BY <2>1 DEF DeleteGhosts
    <3> HIDE DEF found
    <3> QED
        BY <1>1, <3>1, <3>2, <3>3 DEF GhostsPending, StartupTypeOK
  <2>2. ASSUME NEW gone \in SUBSET Procs, Exit(gone)
        PROVE  /\ deleted' \in [Procs -> [books : SUBSET Ids, editions : SUBSET Isbns]]
               /\ GhostsPending'
      BY <1>1, <2>2 DEF Exit, Nothing, GhostsPending, StartupTypeOK
  <2>3. CASE UNCHANGED deleted /\ \A q \in Procs : stage'[q] # "alter" => stage[q] # "alter"
      BY <1>1, <2>3 DEF GhostsPending, StartupTypeOK
  <2> QED
      BY <1>3, <2>1, <2>2, <2>3 DEF Start, StartupTypeOK
<1>6. StartupTypeOK'
    BY <1>1, <1>2, <1>4, <1>5 DEF StartupTypeOK, NoResponse
<1> QED
    BY <1>1, <1>5, <1>6, SameDatabase

(* A migration before 0004 advances the schema. *)
LEMMA MigrateOK ==
    ASSUME StartupInv, NEW p \in Procs, Migrate(p)
    PROVE  StartupInv' /\ RowsStep
<1> USE DEF StartupInv
<1>1. /\ stage[p] = "migrate" /\ step[p] \in 1..3 /\ schema \in 0..4 /\ Last = 4
      /\ schema' = IF schema < step[p] THEN step[p] ELSE schema
      /\ step' = [step EXCEPT ![p] = @ + 1]
      /\ UNCHANGED <<env, books, editions, oldRelease, response, faults>>
    BY DEF Migrate, StartupTypeOK, Last
<1>2. PICK losers \in SUBSET Procs : p \notin losers /\ Exit(losers)
    BY DEF Migrate
<1>3. schema' \in 0..4 /\ schema <= schema' /\ step[p] <= schema' /\ (schema' = 4 => schema = 4)
    BY <1>1
<1>4. /\ stage' \in [Procs -> {"down", "migrate", "alter", "auth", "serving"}]
      /\ step' \in [Procs -> 1..Last]
      /\ \A q \in Procs : stage'[q] \in {stage[q], "down"}
    BY <1>1, <1>2 DEF Exit, StartupTypeOK
<1>5. /\ \A q \in Procs : stage'[q] = "migrate" => step'[q] <= schema' + 1
      /\ \A q \in Procs : stage'[q] = "alter" => Last <= schema' + 1
      /\ \A q \in Procs : stage'[q] \in {"auth", "serving"} => schema' = Last
  <2> SUFFICES ASSUME NEW q \in Procs
               PROVE  /\ stage'[q] = "migrate" => step'[q] <= schema' + 1
                      /\ stage'[q] = "alter" => Last <= schema' + 1
                      /\ stage'[q] \in {"auth", "serving"} => schema' = Last
      OBVIOUS
  <2>1. /\ stage[q] = "migrate" => step[q] <= schema + 1
        /\ stage[q] = "alter" => 4 <= schema + 1
        /\ stage[q] \in {"auth", "serving"} => schema = 4
        /\ step[q] \in 1..4
      BY <1>1 DEF StartupTypeOK
  <2>2. step'[q] = IF q = p THEN step[p] + 1 ELSE step[q]
      BY <1>1 DEF StartupTypeOK
  <2>3. stage'[q] \in {stage[q], "down"}
      BY <1>4
  <2> QED
      BY <1>1, <1>3, <2>1, <2>2, <2>3
<1>6. /\ deleted' \in [Procs -> [books : SUBSET Ids, editions : SUBSET Isbns]]
      /\ GhostsPending'
    BY <1>1, <1>2 DEF Exit, Nothing, GhostsPending, StartupTypeOK
<1>7. StartupTypeOK'
    BY <1>1, <1>3, <1>4, <1>5, <1>6 DEF StartupTypeOK, NoResponse
<1>8. Checked' /\ RowsStep
    BY <1>1, <1>3 DEF Checked, ConstraintHolds, RowsStep
<1> QED
    BY <1>1, <1>6, <1>7, <1>8, SameResponse

(* 0004 commits: it removes the ghosts it deleted, and succeeds only when  *)
(* no row that is left violates its check; once it has succeeded there is  *)
(* nothing left for it to remove.                                          *)
LEMMA AlterOK ==
    ASSUME StartupInv, NEW p \in Procs, Alter(p)
    PROVE  StartupInv' /\ RowsStep
<1> USE DEF StartupInv
<1>1. /\ stage[p] = "alter" /\ Commits(p) /\ schema \in 0..4 /\ Last = 4
      /\ schema' = Last
      /\ books' = Left(p)
      /\ editions' = editions \ deleted[p].editions
      /\ stage' = [q \in Procs |-> CASE q \in Deadlocked(p) -> "down"
                                    [] q = p -> "auth"
                                    [] OTHER -> stage[q]]
      /\ deleted' = [q \in Procs |-> IF stage[q] = "alter" THEN Nothing ELSE deleted[q]]
      /\ UNCHANGED <<env, oldRelease, step, response, faults>>
    BY DEF Alter, StartupTypeOK, Last
<1>2. /\ deleted[p].books \subseteq Ids /\ deleted[p].editions \subseteq Isbns
      /\ \A id \in deleted[p].books : books[id] # NoBook /\ Ghost(books[id].isbn)
      /\ \A e \in deleted[p].editions : Ghost(e)
    BY DEF GhostsPending, StartupTypeOK
<1>3. \A q \in Procs : stage'[q] = IF q = p THEN "auth"
                                  ELSE IF stage[q] = "alter" THEN "down" ELSE stage[q]
    BY <1>1 DEF Deadlocked
<1>4. \A q \in Procs : deleted'[q] = Nothing
    BY <1>1 DEF GhostsPending
<1>5. GhostsPending' /\ deleted' \in [Procs -> [books : SUBSET Ids, editions : SUBSET Isbns]]
    BY <1>1, <1>4 DEF GhostsPending, Nothing
<1>6. StartupTypeOK'
  <2>1. stage' \in [Procs -> {"down", "migrate", "alter", "auth", "serving"}]
      BY <1>1, <1>3 DEF StartupTypeOK
  <2>2. /\ \A q \in Procs : stage'[q] = "migrate" => step'[q] <= schema' + 1
        /\ \A q \in Procs : stage'[q] = "alter" => Last <= schema' + 1
        /\ \A q \in Procs : stage'[q] \in {"auth", "serving"} => schema' = Last
      BY <1>1, <1>3 DEF StartupTypeOK
  <2>3. books' \in [Ids -> Rows \cup {NoBook}] /\ editions' \in SUBSET Isbns
      BY <1>1, <1>2 DEF Left, StartupTypeOK
  <2> QED
      BY <1>1, <1>5, <2>1, <2>2, <2>3 DEF StartupTypeOK, NoResponse
<1>7. Checked'
  <2>1. CASE schema = Last
    <3>1. ConstraintHolds(books)
        BY <2>1 DEF Checked
    <3> QED
        BY <1>1, <3>1 DEF Checked, ConstraintHolds, Left
  <2>2. CASE schema # Last
    <3>1. ConstraintHolds(Left(p))
        BY <1>1, <2>2 DEF Commits
    <3> QED
        BY <1>1, <3>1 DEF Checked, ConstraintHolds
  <2> QED
      BY <2>1, <2>2
<1>8. RowsStep
  <2>1. \A id \in Ids : books'[id] = books[id] \/ (books'[id] = NoBook /\ Ghost(books[id].isbn))
      BY <1>1, <1>2 DEF Left
  <2>2. \A id \in Ids : books[id] # NoBook /\ books'[id] = NoBook => schema < Last
    <3> SUFFICES ASSUME NEW id \in Ids, books[id] # NoBook, books'[id] = NoBook, schema = Last
                 PROVE  FALSE
        BY <1>1
    <3> QED
        BY <2>1, ShapedIsNoGhost DEF Checked, ConstraintHolds
  <2>3. \A id \in Ids : books[id] # NoBook /\ books'[id] # books[id]
            => books'[id] = NoBook /\ Ghost(books[id].isbn) /\ schema < Last
      BY <2>1, <2>2
  <2> QED
      BY <1>1, <1>2, <2>3 DEF RowsStep
<1> QED
    BY <1>1, <1>5, <1>6, <1>7, <1>8, SameResponse

-----------------------------------------------------------------------------
(* Requests *)

(* What a response may say: codes without books, or the caller's own. *)
Fitting(t, code, owners) ==
    /\ code \in StatusCodes \ {500}
    /\ \/ owners = {}
       \/ Admission(t) = 200 /\ owners = {Subject(t)}

(* Such a response keeps everything that is said about responses. *)
LEMMA FittingResponse ==
    ASSUME StartupInv, NEW t \in Tokens, NEW code, NEW owners, Fitting(t, code, owners),
           Respond(t, code, owners), UNCHANGED env
    PROVE  /\ response' \in [code : StatusCodes, token : Tokens, owners : SUBSET Owners]
           /\ NobodysHidden' /\ NeverSilentlyOpen' /\ AcceptedIsStorable'
<1>1. response' = [code |-> code, token |-> t, owners |-> owners]
    BY DEF Respond
<1>2. /\ response'.code = code /\ response'.token = t /\ response'.owners = owners
      /\ response' # NoResponse
    BY <1>1 DEF NoResponse
<1>3. CASE owners = {}
  <2>1. NobodysHidden' /\ NeverSilentlyOpen' /\ AcceptedIsStorable'
      BY <1>2, <1>3 DEF Fitting, NobodysHidden, NeverSilentlyOpen, AcceptedIsStorable
  <2> QED
      BY <1>1, <1>3, <2>1 DEF Fitting
<1>4. CASE Admission(t) = 200 /\ owners = {Subject(t)}
  <2>1. /\ Subject(t) # NoOwner
        /\ Subject(t) \in Owners
        /\ env.disabled => Subject(t) = Dev
        /\ ~env.disabled => /\ t.bearer /\ t.valid
                            /\ env.group => t.member
                            /\ Subject(t) = t.sub
      BY <1>4, AdmittedFacts
  <2>2. NobodysHidden' /\ AcceptedIsStorable'
      BY <1>2, <1>4, <2>1 DEF Fitting, NobodysHidden, AcceptedIsStorable
  <2>3. NeverSilentlyOpen'
      BY <1>2, <1>4, <2>1 DEF NeverSilentlyOpen
  <2> QED
      BY <1>1, <1>4, <2>1, <2>2, <2>3 DEF Fitting
<1> QED
    BY <1>3, <1>4 DEF Fitting

(* A request that leaves the books alone, and at most adds an edition. *)
LEMMA ReadOnlyOK ==
    ASSUME StartupInv, NEW t \in Tokens, NEW code, NEW owners, Fitting(t, code, owners),
           Respond(t, code, owners), UNCHANGED books,
           editions \subseteq editions', editions' \subseteq Isbns, Requests
    PROVE  StartupInv' /\ RowsStep
<1>1. UNCHANGED <<env, schema, oldRelease, stage, step, deleted, faults>>
    BY DEF Requests, procVars
<1>2. /\ response' \in [code : StatusCodes, token : Tokens, owners : SUBSET Owners]
      /\ NobodysHidden' /\ NeverSilentlyOpen' /\ AcceptedIsStorable'
    BY <1>1, FittingResponse
<1>3. StartupTypeOK'
    BY <1>1, <1>2 DEF StartupInv, StartupTypeOK
<1>4. Checked' /\ GhostsPending' /\ RowsStep
    BY <1>1 DEF StartupInv, Checked, GhostsPending, ConstraintHolds, RowsStep
<1> QED
    BY <1>2, <1>3, <1>4 DEF StartupInv

(* With the constraint in place no transaction has a ghost to delete. *)
LEMMA NoGhostsLeft ==
    ASSUME StartupInv, schema = Last
    PROVE  \A p \in Procs : deleted[p].books = {}
<1>1. ConstraintHolds(books)
    BY DEF StartupInv, Checked
<1>2. \A p \in Procs : deleted[p].books \subseteq Ids
    BY DEF StartupInv, StartupTypeOK
<1> QED
    BY <1>1, <1>2, ShapedIsNoGhost DEF StartupInv, GhostsPending, ConstraintHolds

(* A request that writes a row, which is free or the caller's own, with an *)
(* ISBN of the checked shape.                                              *)
LEMMA StoreOK ==
    ASSUME StartupInv, NEW t \in Tokens, NEW id \in Ids, NEW isbn \in Isbns, NEW code \in {200, 201},
           Admission(t) = 200, books[id] = NoBook \/ Owned(t, id), BooksIsbnShape(isbn),
           Store(t, id, isbn, code), Requests, schema = Last
    PROVE  StartupInv' /\ RowsStep
<1> USE DEF StartupInv
<1>1. UNCHANGED <<env, schema, oldRelease, stage, step, deleted, faults>>
    BY DEF Requests, procVars
<1>2. /\ books' = [books EXCEPT ![id] = [owner |-> Subject(t), isbn |-> isbn]]
      /\ editions' \in {editions, editions \cup {isbn}}
      /\ Respond(t, code, {Subject(t)})
    BY DEF Store, Storable
<1>3. Subject(t) # NoOwner /\ Subject(t) \in Owners
    BY AdmittedFacts
<1>4. Fitting(t, code, {Subject(t)})
    BY DEF Fitting, StatusCodes
<1>5. /\ response' \in [code : StatusCodes, token : Tokens, owners : SUBSET Owners]
      /\ NobodysHidden' /\ NeverSilentlyOpen' /\ AcceptedIsStorable'
    BY <1>1, <1>2, <1>4, FittingResponse
<1>6. [owner |-> Subject(t), isbn |-> isbn] \in Rows
    BY <1>3 DEF Rows
<1>7. StartupTypeOK'
    BY <1>1, <1>2, <1>5, <1>6 DEF StartupTypeOK
<1>8. Checked'
    BY <1>1, <1>2 DEF Checked, ConstraintHolds, StartupTypeOK
<1>9. RowsStep
  <2>1. /\ \A i \in Ids : i # id => books'[i] = books[i]
        /\ books'[id] # NoBook
      BY <1>2, <1>6, RowIsSome DEF StartupTypeOK
  <2>2. books[id] # NoBook => books[id].owner # NoOwner
      BY <1>3 DEF Owned
  <2> QED
      BY <1>2, <2>1, <2>2 DEF RowsStep
<1>10. GhostsPending'
    BY <1>1, NoGhostsLeft DEF GhostsPending
<1> QED
    BY <1>5, <1>7, <1>8, <1>9, <1>10

(* A request that deletes the caller's own row. *)
LEMMA DeleteOK ==
    ASSUME StartupInv, NEW t \in Tokens, NEW id \in Ids, Admission(t) = 200, Owned(t, id),
           books' = [books EXCEPT ![id] = NoBook], UNCHANGED editions,
           Respond(t, 204, {}), Requests, schema = Last
    PROVE  StartupInv' /\ RowsStep
<1> USE DEF StartupInv
<1>1. UNCHANGED <<env, schema, oldRelease, stage, step, deleted, faults>>
    BY DEF Requests, procVars
<1>2. Fitting(t, 204, {})
    BY DEF Fitting, StatusCodes
<1>3. /\ response' \in [code : StatusCodes, token : Tokens, owners : SUBSET Owners]
      /\ NobodysHidden' /\ NeverSilentlyOpen' /\ AcceptedIsStorable'
    BY <1>1, <1>2, FittingResponse
<1>4. StartupTypeOK'
    BY <1>1, <1>3 DEF StartupTypeOK
<1>5. Checked'
    BY <1>1 DEF Checked, ConstraintHolds, StartupTypeOK
<1>6. GhostsPending'
    BY <1>1, NoGhostsLeft DEF GhostsPending
<1>7. RowsStep
  <2>1. \A i \in Ids : i # id => books'[i] = books[i]
      BY DEF StartupTypeOK
  <2>2. books[id].owner = Subject(t) /\ Subject(t) # NoOwner
      BY AdmittedFacts DEF Owned
  <2>3. DeletedByOwner(id)
      BY <1>1, <2>2 DEF DeletedByOwner, Respond, procVars
  <2> QED
      BY <2>1, <2>2, <2>3 DEF RowsStep
<1> QED
    BY <1>3, <1>4, <1>5, <1>6, <1>7

(* Every request to a process that serves. *)
LEMMA RequestOK ==
    ASSUME StartupInv, NEW p \in Procs, Request(p)
    PROVE  StartupInv' /\ RowsStep
<1>1. schema = Last /\ ConstraintHolds(books) /\ editions \subseteq Isbns
    BY DEF Request, StartupInv, StartupTypeOK, Checked
<1> PICK t \in Tokens :
        \/ Refuse(t) \/ List(t)
        \/ \E id \in Ids : Get(t, id) \/ Cover(t, id) \/ Refresh(t, id) \/ Delete(t, id)
        \/ \E id \in Ids, input \in Inputs : Create(t, id, input)
        \/ \E id \in Ids, input \in Inputs \cup {NoText} : Patch(t, id, input)
    BY DEF Request
<1>2. CASE Refuse(t)
  <2>1. Fitting(t, Admission(t), {})
      BY <1>2 DEF Refuse, Fitting, StatusCodes, Admission, Middleware, Verify
  <2> QED
      BY <1>1, <1>2, <2>1, ReadOnlyOK DEF Refuse
<1>3. CASE List(t)
  <2> DEFINE shown == {books[id].owner : id \in {i \in Ids : Owned(t, i)}}
  <2>1. Fitting(t, 200, shown)
    <3>1. shown = {} \/ shown = {Subject(t)}
        BY DEF Owned
    <3>2. 200 \in StatusCodes \ {500}
        BY DEF StatusCodes
    <3> QED
        BY <1>3, <3>1, <3>2 DEF List, Fitting
  <2>2. Respond(t, 200, shown)
      BY <1>3 DEF List
  <2> HIDE DEF shown
  <2> QED
      BY <1>1, <1>3, <2>1, <2>2, ReadOnlyOK DEF List
<1>4. ASSUME NEW id \in Ids, NEW input \in Inputs, Create(t, id, input)
      PROVE  StartupInv' /\ RowsStep
  <2>1. CASE Invalid(input)
      BY <1>1, <1>4, <2>1, ReadOnlyOK DEF Create, Fitting, StatusCodes
  <2>2. CASE ~Invalid(input)
      BY <1>1, <1>4, <2>2, AcceptedInput, StoreOK DEF Create
  <2> QED
      BY <2>1, <2>2
<1>5. ASSUME NEW id \in Ids, NEW input \in Inputs \cup {NoText}, Patch(t, id, input)
      PROVE  StartupInv' /\ RowsStep
  <2>1. CASE \E code \in {404, 422} : Respond(t, code, {}) /\ UNCHANGED <<books, editions>>
      BY <1>1, <1>5, <2>1, ReadOnlyOK DEF Patch, Fitting, StatusCodes
  <2>2. CASE /\ Owned(t, id) /\ ~Invalid(input)
             /\ Store(t, id, IF input = NoText THEN books[id].isbn ELSE CanonicalISBN(input), 200)
    <3>1. CASE input = NoText
      <4>1. books[id].isbn \in Isbns /\ BooksIsbnShape(books[id].isbn)
          BY <1>1, <2>2 DEF Owned, ConstraintHolds, StartupInv, StartupTypeOK, Rows
      <4> QED
          BY <1>1, <1>5, <2>2, <3>1, <4>1, StoreOK DEF Patch
    <3>2. CASE input # NoText
      <4>1. CanonicalISBN(input) \in Isbns /\ BooksIsbnShape(CanonicalISBN(input))
          BY <2>2, <3>2, AcceptedInput
      <4> QED
          BY <1>1, <1>5, <2>2, <3>2, <4>1, StoreOK DEF Patch
    <3> QED
        BY <3>1, <3>2
  <2> QED
      BY <1>5, <2>1, <2>2 DEF Patch, NotFound
<1>6. ASSUME NEW id \in Ids,
             Get(t, id) \/ Cover(t, id) \/ Refresh(t, id) \/ Delete(t, id)
      PROVE  StartupInv' /\ RowsStep
  <2>1. Admission(t) = 200 /\ Requests
      BY <1>6 DEF Get, Cover, Refresh, Delete
  <2>2. CASE /\ \E code \in {404, 422} : Respond(t, code, {})
             /\ UNCHANGED <<books, editions>>
      BY <1>1, <2>1, <2>2, ReadOnlyOK DEF Fitting, StatusCodes
  <2>3. CASE /\ Owned(t, id)
             /\ \E code \in {200, 202} : Respond(t, code, {books[id].owner})
             /\ UNCHANGED books /\ editions' \in {editions, editions \cup {books[id].isbn}}
    <3>1. books[id].owner = Subject(t) /\ books[id].isbn \in Isbns
        BY <2>3 DEF Owned, StartupInv, StartupTypeOK, Rows
    <3>2. \A code \in {200, 202} : Fitting(t, code, {books[id].owner})
        BY <2>1, <3>1 DEF Fitting, StatusCodes
    <3>3. editions \subseteq editions' /\ editions' \subseteq Isbns
        BY <1>1, <2>3, <3>1
    <3> QED
        BY <2>1, <2>3, <3>2, <3>3, ReadOnlyOK
  <2>4. CASE /\ Owned(t, id) /\ Respond(t, 204, {})
             /\ books' = [books EXCEPT ![id] = NoBook] /\ UNCHANGED editions
      BY <1>1, <2>1, <2>4, DeleteOK
  <2>5. CASE Get(t, id)
      BY <2>2, <2>3, <2>5 DEF Get, NotFound
  <2>6. CASE Cover(t, id)
      BY <2>2, <2>3, <2>6 DEF Cover, NotFound
  <2>7. CASE Refresh(t, id)
      BY <2>2, <2>3, <2>7 DEF Refresh, NotFound
  <2>8. CASE Delete(t, id)
      BY <2>2, <2>4, <2>8 DEF Delete, NotFound
  <2> QED
      BY <1>6, <2>5, <2>6, <2>7, <2>8
<1> QED
    BY <1>2, <1>3, <1>4, <1>5, <1>6

-----------------------------------------------------------------------------
(* The theorems *)

(* An empty database, no process up. *)
LEMMA StartupInitOK == StartupInit => StartupInv
<1> SUFFICES ASSUME StartupInit PROVE StartupInv
    OBVIOUS
<1>1. StartupTypeOK
    BY StartupAssumption DEF StartupInit, StartupTypeOK, Nothing, Last
<1>2. Checked /\ GhostsPending
    BY DEF StartupInit, Checked, GhostsPending, Nothing, ConstraintHolds
<1>3. NobodysHidden /\ NeverSilentlyOpen /\ AcceptedIsStorable
    BY DEF StartupInit, NobodysHidden, NeverSilentlyOpen, AcceptedIsStorable
<1> QED
    BY <1>1, <1>2, <1>3 DEF StartupInv

(* Every step keeps the invariant and does to the rows what it may. *)
LEMMA StartupStep ==
    ASSUME StartupInv, [StartupNext]_startupVars
    PROVE  StartupInv' /\ RowsStep
<1>1. CASE UNCHANGED startupVars
  <2>1. UNCHANGED <<env, schema, books, editions, oldRelease, stage, step, deleted, response,
                    faults>>
      BY <1>1 DEF startupVars, dbVars, procVars
  <2>2. StartupTypeOK /\ GhostsPending
      BY DEF StartupInv
  <2>3. StartupTypeOK' /\ GhostsPending'
      BY <2>1, <2>2 DEF StartupTypeOK, GhostsPending, NoResponse
  <2> QED
      BY <2>1, <2>3, SameDatabase
<1>2. CASE StartupNext
    BY <1>2, OldWriteOK, OldGoneOK, ProcessOK, MigrateOK, AlterOK, RequestOK
    DEF StartupNext, ComeUp
<1> QED
    BY <1>1, <1>2

(* The inductive invariant: the database keeps its constraint once it has  *)
(* it, an open transaction of 0004 has deleted ghosts only, and responses  *)
(* show the caller's own books.                                            *)
THEOREM StartupInvariance == StartupSpec => []StartupInv
BY StartupInitOK, StartupStep, PTL DEF StartupSpec

(* newStore and main: a process migrates in order and serves only with the *)
(* whole schema in place, whatever the others do to it.                    *)
THEOREM StartupTypeCorrect == StartupSpec => []StartupTypeOK
<1>1. StartupInv => StartupTypeOK
    BY DEF StartupInv
<1> QED
    BY <1>1, StartupInvariance, PTL

(* newAuthMiddleware: the API is never open by accident. *)
THEOREM ApiNeverOpen == StartupSpec => []NeverSilentlyOpen
<1>1. StartupInv => NeverSilentlyOpen
    BY DEF StartupInv
<1> QED
    BY <1>1, StartupInvariance, PTL

(* canonicalISBN and migration 0004 agree: no request fails on the check. *)
THEOREM AcceptedInputIsStorable == StartupSpec => []AcceptedIsStorable
<1>1. StartupInv => AcceptedIsStorable
    BY DEF StartupInv
<1> QED
    BY <1>1, StartupInvariance, PTL

(* requireUser: rows from before authentication are nobody's to see, to    *)
(* change or to delete.                                                    *)
THEOREM PreAuthRowsSafe == StartupSpec => PreAuthRowsUntouched
<1>1. StartupInv /\ StartupInv' /\ [StartupNext]_startupVars =>
        [/\ response' # NoResponse => NoOwner \notin response'.owners
         /\ \A id \in Ids :
               books[id] # NoBook /\ books[id].owner = NoOwner /\ books'[id] # books[id]
                   => books'[id] = NoBook /\ Ghost(books[id].isbn) /\ schema < Last]_startupVars
    BY StartupStep DEF RowsStep, StartupInv, NobodysHidden, NoResponse
<1> QED
    BY <1>1, StartupInvariance, PTL DEF StartupSpec, PreAuthRowsUntouched

(* Migrate: running 0004 on every start deletes ghosts only, and nothing   *)
(* once it has succeeded; whatever else goes, its owner deleted.           *)
THEOREM GhostsOnly == StartupSpec => OnlyGhostsDeleted
<1>1. StartupInv /\ [StartupNext]_startupVars =>
        [/\ \A id \in Ids : books[id] # NoBook /\ books'[id] = NoBook
               => (Ghost(books[id].isbn) /\ schema < Last) \/ DeletedByOwner(id)
         /\ \A e \in editions \ editions' : Ghost(e)]_startupVars
    BY StartupStep DEF RowsStep
<1> QED
    BY <1>1, StartupInvariance, PTL DEF StartupSpec, OnlyGhostsDeleted
=============================================================================
