------------------------- MODULE EnrichWorkerProofs -------------------------
(***************************************************************************)
(* Proofs about EnrichWorker for any number of workers, handlers, ISBNs    *)
(* and failures, any queue size and any sweep limit.                       *)
(***************************************************************************)
EXTENDS EnrichWorker, SequenceTheorems, TLAPS

(* Every mark has one owner: queue entries, busy workers and callers past  *)
(* markInFlight hold marked ISBNs, and no two of them hold the same one.   *)
Marked ==
    /\ \A k \in 1..Len(queue) : queue[k] \in inFlight
    /\ \A w \in Workers : Busy(w) => wisbn[w] \in inFlight
    /\ \A c \in Callers : Holding(c) => eisbn[c] \in inFlight

Unique ==
    /\ \A k, l \in 1..Len(queue) : queue[k] = queue[l] => k = l
    /\ \A v, w \in Workers : Busy(v) /\ Busy(w) /\ wisbn[v] = wisbn[w] => v = w
    /\ \A b, c \in Callers : Holding(b) /\ Holding(c) /\ eisbn[b] = eisbn[c] => b = c
    /\ \A k \in 1..Len(queue), w \in Workers : Busy(w) => queue[k] # wisbn[w]
    /\ \A k \in 1..Len(queue), c \in Callers : Holding(c) => queue[k] # eisbn[c]
    /\ \A w \in Workers, c \in Callers : Busy(w) /\ Holding(c) => wisbn[w] # eisbn[c]

(* Local variables are set where they are used. *)
LocalsSet ==
    /\ \A w \in Workers : Busy(w) => wisbn[w] \in Isbns
    /\ \A w \in Workers : wpc[w] \in {"cover", "saveCover", "saveMeta"} => wmeta[w] \in Metas
    /\ \A c \in Callers : epc[c] # "out" => eisbn[c] \in Isbns

DueHaveRow == \A i \in due : HasRow(editions, i)

(* A fetch runs only on an edition that needs one. *)
FetchedIsDue ==
    \A w \in Workers : wpc[w] \in FetchStages => editions[wisbn[w]].status \in {"pending", "failed"}

(* A quiet refresh is pending and no worker holds an older lookup result. *)
QuietInv ==
    \A i \in Isbns : owed[i] = "quiet" =>
        /\ editions[i].status = "pending"
        /\ \A w \in Workers : wpc[w] \in AfterLookup => wisbn[w] # i

IndInv ==
    /\ TypeOK
    /\ Marked
    /\ Unique
    /\ NoLeakedMark
    /\ LocalsSet
    /\ QueuedHaveRow
    /\ DueHaveRow
    /\ FetchedIsDue
    /\ QuietInv
-----------------------------------------------------------------------------
(* What the table operations do. *)

(* A table operation touches the row of its own ISBN only. *)
OnlyRow(t, u, i) == u \in Tables /\ \A j \in Isbns \ {i} : u[j] = t[j]

(* EnsureEdition creates a missing row and leaves an existing one alone. *)
LEMMA EnsureEditionFacts ==
    ASSUME NEW t \in Tables, NEW i \in Isbns
    PROVE  /\ OnlyRow(t, EnsureEdition(t, i), i)
           /\ HasRow(EnsureEdition(t, i), i)
           /\ \A j \in Isbns : HasRow(t, j) => EnsureEdition(t, i)[j] = t[j]
           /\ EnsureEdition(t, i)[i].meta = t[i].meta
           /\ EnsureEdition(t, i)[i].hasCover = t[i].hasCover
           /\ EnsureEdition(t, i)[i].bytes = t[i].bytes
BY DEF OnlyRow, EnsureEdition, HasRow, Tables, Rows, Statuses

(* MarkEditionPending forces the status and keeps the rest of the row. *)
LEMMA MarkEditionPendingFacts ==
    ASSUME NEW t \in Tables, NEW i \in Isbns
    PROVE  /\ OnlyRow(t, MarkEditionPending(t, i), i)
           /\ MarkEditionPending(t, i)[i].status = "pending"
           /\ MarkEditionPending(t, i)[i].meta = t[i].meta
           /\ MarkEditionPending(t, i)[i].hasCover = t[i].hasCover
           /\ MarkEditionPending(t, i)[i].bytes = t[i].bytes
BY DEF OnlyRow, MarkEditionPending, Tables, Rows, Statuses

(* SaveEnrichment sets the status, replaces the metadata only by metadata  *)
(* and keeps the cover.                                                    *)
LEMMA SaveEnrichmentFacts ==
    ASSUME NEW t \in Tables, NEW i \in Isbns,
           NEW m \in Metas \cup {NoMeta}, NEW s \in Statuses
    PROVE  /\ OnlyRow(t, SaveEnrichment(t, i, m, s), i)
           /\ SaveEnrichment(t, i, m, s)[i].status = s
           /\ SaveEnrichment(t, i, m, s)[i].meta = IF m = NoMeta THEN t[i].meta ELSE m
           /\ SaveEnrichment(t, i, m, s)[i].hasCover = t[i].hasCover
           /\ SaveEnrichment(t, i, m, s)[i].bytes = t[i].bytes
BY DEF OnlyRow, SaveEnrichment, Tables, Rows, Statuses

(* SaveCover on an existing row sets flag and bytes and nothing else. *)
LEMMA SaveCoverFacts ==
    ASSUME NEW t \in Tables, NEW i \in Isbns, HasRow(t, i)
    PROVE  /\ OnlyRow(t, SaveCover(t, i), i)
           /\ SaveCover(t, i)[i].status = t[i].status
           /\ SaveCover(t, i)[i].meta = t[i].meta
           /\ SaveCover(t, i)[i].hasCover = TRUE
           /\ SaveCover(t, i)[i].bytes = TRUE
BY DEF OnlyRow, SaveCover, CoverAccepted, HasRow, Tables, Rows, Statuses

(* The table with no rows is a table, and so is what a restart leaves. *)
LEMMA AfterRestartFacts ==
    ASSUME NEW t \in Tables
    PROVE  EmptyTable \in Tables /\ AfterRestart(t) \in Tables
BY DEF AfterRestart, EmptyTable, NoRow, Tables, Rows, Statuses

(* A sweep selects editions that have a row. *)
LEMMA PendingEnrichmentFacts ==
    ASSUME NEW t \in Tables, NEW n
    PROVE  /\ PendingEnrichment(t, n) \subseteq Isbns
           /\ \A i \in PendingEnrichment(t, n) : HasRow(t, i)
BY DEF PendingEnrichment, Due, HasRow

-----------------------------------------------------------------------------
(* IndInv holds initially. *)
LEMMA InitIndInv == Init => IndInv
<1> SUFFICES ASSUME Init PROVE IndInv
    OBVIOUS
<1> USE DEF Init
<1>1. TypeOK
  <2>1. editions \in Tables
    BY DEF EmptyTable, NoRow, Tables, Rows, Statuses
  <2>2. queue \in Seq(Isbns) /\ Len(queue) <= QueueSize
    BY EnrichWorkerAssumption
  <2>3. disruptions \in 0..MaxDisruptions
    BY EnrichWorkerAssumption
  <2> QED
    BY <2>1, <2>2, <2>3 DEF TypeOK, WorkerStages
<1>2. Marked /\ Unique /\ LocalsSet /\ QueuedHaveRow
    BY DEF Marked, Unique, LocalsSet, QueuedHaveRow, Busy, Holding, Callers
<1>3. NoLeakedMark /\ DueHaveRow /\ FetchedIsDue /\ QuietInv
    BY DEF NoLeakedMark, DueHaveRow, FetchedIsDue, QuietInv, FetchStages, AfterLookup
<1> QED
    BY <1>1, <1>2, <1>3 DEF IndInv

-----------------------------------------------------------------------------
(* Every step keeps the types. *)
LEMMA TypeStep == IndInv /\ [Next]_vars => TypeOK'
<1> SUFFICES ASSUME IndInv, [Next]_vars PROVE TypeOK'
    OBVIOUS
<1> USE DEF IndInv
<1>type. TypeOK
    OBVIOUS
<1>dis. Disrupt => disruptions' \in 0..MaxDisruptions
    BY <1>type, EnrichWorkerAssumption DEF Disrupt, TypeOK
<1>err. ASSUME StoreError \/ UpstreamError \/ NoError PROVE disruptions' \in 0..MaxDisruptions
    BY <1>err, <1>dis, <1>type DEF StoreError, UpstreamError, NoError, TypeOK
<1>1. ASSUME NEW c \in Clients, NEW i \in Isbns, CreateRequest(c, i) \/ RefreshRequest(c, i)
      PROVE  TypeOK'
  <2>1. editions' \in Tables
    BY <1>1, <1>type, EnsureEditionFacts, MarkEditionPendingFacts
       DEF CreateRequest, RefreshRequest, OnlyRow, TypeOK
  <2>2. /\ epc' \in [Callers -> {"out", "mark", "send", "drop"}]
        /\ eisbn' \in [Callers -> Isbns \cup {NoIsbn}]
    BY <1>1, <1>type DEF CreateRequest, RefreshRequest, EnterEnqueue, callerVars, TypeOK
  <2>3. disruptions' \in 0..MaxDisruptions
    BY <1>1, <1>dis, <1>err DEF CreateRequest, RefreshRequest, EnterEnqueue
  <2>4. owed' \in [Isbns -> {"no", "quiet", "raced"}]
    BY <1>1, <1>type DEF CreateRequest, RefreshRequest, TypeOK
  <2> QED
    BY <1>1, <1>type, <2>1, <2>2, <2>3, <2>4
       DEF CreateRequest, RefreshRequest, workerVars, sweepVars, TypeOK
<1>2. ASSUME NEW c \in Callers, EnqueueStep(c) PROVE TypeOK'
  <2>0. LocalsSet
    OBVIOUS
  <2>1. CASE EnqueueMark(c)
    BY <2>0, <2>1, <1>type DEF EnqueueMark, Return, workerVars, sweepVars, LocalsSet, TypeOK
  <2>2. CASE EnqueueSend(c)
    <3>1. eisbn[c] \in Isbns
      BY <2>0, <2>2 DEF EnqueueSend, LocalsSet
    <3>2. queue' \in Seq(Isbns) /\ Len(queue') <= QueueSize
      BY <2>2, <3>1, <1>type, EnrichWorkerAssumption DEF EnqueueSend, TypeOK
    <3> QED
      BY <2>2, <3>2, <1>type DEF EnqueueSend, Return, workerVars, sweepVars, TypeOK
  <2>3. CASE EnqueueDrop(c)
    BY <2>3, <1>type DEF EnqueueDrop, Return, workerVars, sweepVars, TypeOK
  <2> QED
    BY <1>2, <2>1, <2>2, <2>3 DEF EnqueueStep
<1>3. ASSUME NEW w \in Workers, WorkerStep(w) PROVE TypeOK'
  <2>0. wpc[w] \notin {"idle", "done"} => wisbn[w] \in Isbns /\ HasRow(editions, wisbn[w])
    BY DEF LocalsSet, QueuedHaveRow, Busy
  <2>1. CASE Take(w)
    <3>1. Head(queue) \in Isbns /\ Tail(queue) \in Seq(Isbns) /\ Len(Tail(queue)) <= QueueSize
      BY <2>1, <1>type, EnrichWorkerAssumption DEF Take, TypeOK
    <3> QED
      BY <2>1, <3>1, <1>type DEF Take, Goto, WorkerStages, callerVars, sweepVars, TypeOK
  <2>2. CASE ReadStatus(w)
    BY <2>2, <1>err, <1>type DEF ReadStatus, Goto, WorkerStages, callerVars, sweepVars, TypeOK
  <2>3. CASE Lookup(w)
    <3>1. disruptions' \in 0..MaxDisruptions
      BY <2>3, <1>err DEF Lookup
    <3> QED
      BY <2>3, <3>1, <1>type DEF Lookup, Goto, WorkerStages, callerVars, sweepVars, TypeOK
  <2>4. CASE FetchCover(w)
    BY <2>4, <1>type DEF FetchCover, Goto, WorkerStages, callerVars, sweepVars, TypeOK
  <2>5. CASE StoreCover(w)
    <3>1. editions' \in Tables /\ disruptions' \in 0..MaxDisruptions
      BY <2>0, <2>5, <1>err, <1>type, SaveCoverFacts DEF StoreCover, Write, OnlyRow, TypeOK
    <3> QED
      BY <2>5, <3>1, <1>type DEF StoreCover, Goto, WorkerStages, callerVars, sweepVars, TypeOK
  <2>6. CASE StoreMeta(w)
    <3>1. editions' \in Tables /\ disruptions' \in 0..MaxDisruptions
      BY <2>0, <2>6, <1>err, <1>type, SaveEnrichmentFacts
         DEF StoreMeta, Write, OnlyRow, Statuses, TypeOK
    <3> QED
      BY <2>6, <3>1, <1>type DEF StoreMeta, Goto, WorkerStages, callerVars, sweepVars, TypeOK
  <2>7. CASE MarkFailed(w)
    <3>1. editions' \in Tables /\ disruptions' \in 0..MaxDisruptions
      BY <2>0, <2>7, <1>err, <1>type, SaveEnrichmentFacts
         DEF MarkFailed, Write, OnlyRow, Statuses, TypeOK
    <3> QED
      BY <2>7, <3>1, <1>type DEF MarkFailed, Goto, WorkerStages, callerVars, sweepVars, TypeOK
  <2>8. CASE Unmark(w)
    BY <2>8, <1>type DEF Unmark, Goto, WorkerStages, callerVars, sweepVars, TypeOK
  <2>9. CASE WorkerExit(w)
    BY <2>9, <1>type DEF WorkerExit, Goto, WorkerStages, callerVars, sweepVars, TypeOK
  <2> QED
    BY <1>3, <2>1, <2>2, <2>3, <2>4, <2>5, <2>6, <2>7, <2>8, <2>9 DEF WorkerStep
<1>4. CASE ReconcilerStep
  <2>1. CASE Sweep
    BY <2>1, <1>err, <1>type, PendingEnrichmentFacts
       DEF Sweep, workerVars, callerVars, TypeOK
  <2>2. CASE SweepNext
    BY <2>2, <1>type DEF SweepNext, Callers, workerVars, TypeOK
  <2>3. CASE Tick \/ ReconcilerExit
    BY <2>3, <1>type DEF Tick, ReconcilerExit, workerVars, callerVars, TypeOK
  <2> QED
    BY <1>4, <2>1, <2>2, <2>3 DEF ReconcilerStep
<1>5. CASE Cancel
    BY <1>5, <1>dis, <1>type DEF Cancel, workerVars, callerVars, sweepVars, TypeOK
<1>6. CASE Exit \/ Crash
  <2>1. Restart /\ disruptions' \in 0..MaxDisruptions
    BY <1>6, <1>dis, <1>err DEF Exit, Crash
  <2>2. editions' \in Tables
    BY <2>1, <1>type, AfterRestartFacts DEF Restart, TypeOK
  <2>3. queue' \in Seq(Isbns) /\ Len(queue') <= QueueSize
    BY <2>1, EnrichWorkerAssumption DEF Restart
  <2>4. owed' \in [Isbns -> {"no", "quiet", "raced"}]
    BY <2>1, <1>type DEF Restart, TypeOK
  <2> QED
    BY <2>1, <2>2, <2>3, <2>4 DEF Restart, WorkerStages, TypeOK
<1>7. CASE UNCHANGED vars
    BY <1>7, <1>type DEF vars, workerVars, callerVars, sweepVars, TypeOK
<1> QED
    BY <1>1, <1>2, <1>3, <1>4, <1>5, <1>6, <1>7 DEF Next

-----------------------------------------------------------------------------
(* Every step keeps the marks: each in-flight ISBN has exactly one owner. *)
Ownership == Marked /\ Unique /\ NoLeakedMark

(* A step that leaves the map and the queue alone and changes neither who  *)
(* holds a mark nor which one keeps Ownership.                             *)
LEMMA SameOwners ==
    ASSUME Ownership, UNCHANGED <<inFlight, queue>>,
           \A w \in Workers : Busy(w)' = Busy(w) /\ (Busy(w) => wisbn'[w] = wisbn[w]),
           \A c \in Callers : Holding(c)' = Holding(c) /\ (Holding(c) => eisbn'[c] = eisbn[c])
    PROVE  Ownership'
<1>1. Marked'
    BY DEF Ownership, Marked
<1>2. Unique'
    BY DEF Ownership, Unique
<1>3. NoLeakedMark'
    BY DEF Ownership, NoLeakedMark
<1> QED
    BY <1>1, <1>2, <1>3 DEF Ownership

(* Enqueue hands the mark on: caller to queue, or back. *)
LEMMA EnqueueOwnership ==
    ASSUME IndInv, NEW c \in Callers, EnqueueStep(c) PROVE Ownership'
<1> USE DEF IndInv
<1>type. TypeOK
    OBVIOUS
<1>own. Marked /\ Unique /\ NoLeakedMark
    OBVIOUS
<1>busy. (wpc' = wpc /\ wisbn' = wisbn) => \A w \in Workers : Busy(w)' = Busy(w) /\ wisbn'[w] = wisbn[w]
    BY DEF Busy
<1>1. CASE EnqueueMark(c) /\ eisbn[c] \in inFlight
  <2>1. \A b \in Callers : Holding(b)' = Holding(b) /\ (Holding(b) => eisbn'[b] = eisbn[b])
    BY <1>1, <1>type DEF EnqueueMark, Return, Holding, TypeOK
  <2> QED
    BY <1>1, <1>own, <1>busy, <2>1, SameOwners DEF EnqueueMark, workerVars, Ownership
<1>2. CASE EnqueueMark(c) /\ eisbn[c] \notin inFlight
  <2>1. /\ inFlight' = inFlight \cup {eisbn[c]} /\ queue' = queue /\ eisbn' = eisbn
        /\ wpc' = wpc /\ wisbn' = wisbn
    BY <1>2 DEF EnqueueMark, workerVars
  <2>2. ~Holding(c) /\ Holding(c)' /\ \A b \in Callers \ {c} : Holding(b)' = Holding(b)
    BY <1>2, <1>type DEF EnqueueMark, Holding, TypeOK
  <2>3. Marked'
    BY <2>1, <2>2, <1>own, <1>busy DEF Marked
  <2>4. Unique'
    BY <1>2, <2>1, <2>2, <1>own, <1>busy DEF Unique, Marked
  <2>5. NoLeakedMark'
    BY <2>1, <2>2, <1>own, <1>busy DEF NoLeakedMark
  <2> QED
    BY <2>3, <2>4, <2>5 DEF Ownership
<1>3. CASE EnqueueSend(c) /\ Len(queue) < QueueSize
  <2>1. /\ inFlight' = inFlight /\ queue' = Append(queue, eisbn[c])
        /\ wpc' = wpc /\ wisbn' = wisbn
    BY <1>3 DEF EnqueueSend, workerVars
  <2>2. /\ Holding(c) /\ ~Holding(c)'
        /\ \A b \in Callers \ {c} : Holding(b)' = Holding(b) /\ eisbn'[b] = eisbn[b]
    BY <1>3, <1>type DEF EnqueueSend, Return, Holding, TypeOK
  <2>3. eisbn[c] \in Isbns /\ Len(queue) \in Nat
    BY <1>3, <1>type DEF LocalsSet, EnqueueSend, TypeOK
  <2>4. /\ Len(queue') = Len(queue) + 1
        /\ \A k \in 1..Len(queue) : queue'[k] = queue[k]
        /\ queue'[Len(queue) + 1] = eisbn[c]
    BY <2>1, <2>3, <1>type DEF TypeOK
  <2>5. \A k \in 1..Len(queue') : k \in 1..Len(queue) \/ k = Len(queue) + 1
    BY <2>3, <2>4
  <2>6. Marked'
    BY <2>1, <2>2, <2>4, <2>5, <1>own, <1>busy DEF Marked
  <2>7. Unique'
    BY <2>1, <2>2, <2>3, <2>4, <2>5, <1>own, <1>busy DEF Unique
  <2>8. NoLeakedMark'
    <3> SUFFICES ASSUME NEW i \in inFlight
                 PROVE  \/ \E k \in 1..Len(queue') : queue'[k] = i
                        \/ \E w \in Workers : Busy(w)' /\ wisbn'[w] = i
                        \/ \E b \in Callers : Holding(b)' /\ eisbn'[b] = i
      BY <2>1 DEF NoLeakedMark
    <3>1. CASE \E k \in 1..Len(queue) : queue[k] = i
      BY <3>1, <2>3, <2>4
    <3>2. CASE \E w \in Workers : Busy(w) /\ wisbn[w] = i
      BY <3>2, <2>1, <1>busy
    <3>3. CASE \E b \in Callers : Holding(b) /\ eisbn[b] = i
      <4>1. Len(queue) + 1 \in 1..Len(queue')
        BY <2>3, <2>4
      <4> QED
        BY <3>3, <4>1, <2>2, <2>4
    <3> QED
      BY <3>1, <3>2, <3>3, <1>own DEF NoLeakedMark
  <2> QED
    BY <2>6, <2>7, <2>8 DEF Ownership
<1>4. CASE EnqueueSend(c) /\ ~(Len(queue) < QueueSize)
  <2>1. \A b \in Callers : Holding(b)' = Holding(b) /\ (Holding(b) => eisbn'[b] = eisbn[b])
    BY <1>4, <1>type DEF EnqueueSend, Holding, TypeOK
  <2> QED
    BY <1>4, <1>own, <1>busy, <2>1, SameOwners DEF EnqueueSend, workerVars, Ownership
<1>5. CASE EnqueueDrop(c)
  <2>1. inFlight' = inFlight \ {eisbn[c]} /\ queue' = queue /\ wpc' = wpc /\ wisbn' = wisbn
    BY <1>5 DEF EnqueueDrop, workerVars
  <2>2. /\ Holding(c) /\ ~Holding(c)'
        /\ \A b \in Callers \ {c} : Holding(b)' = Holding(b) /\ eisbn'[b] = eisbn[b]
    BY <1>5, <1>type DEF EnqueueDrop, Return, Holding, TypeOK
  <2>3. Marked'
    BY <2>1, <2>2, <1>own, <1>busy DEF Marked, Unique
  <2>4. Unique'
    BY <2>1, <2>2, <1>own, <1>busy DEF Unique
  <2>5. NoLeakedMark'
    BY <2>1, <2>2, <1>own, <1>busy DEF NoLeakedMark
  <2> QED
    BY <2>3, <2>4, <2>5 DEF Ownership
<1> QED
    BY <1>1, <1>2, <1>3, <1>4, <1>5 DEF EnqueueStep, EnqueueMark, EnqueueSend

(* A worker takes the mark over from the queue and drops it at the end. *)
LEMMA WorkerOwnership ==
    ASSUME IndInv, NEW w \in Workers, WorkerStep(w) PROVE Ownership'
<1> USE DEF IndInv
<1>type. TypeOK
    OBVIOUS
<1>own. Marked /\ Unique /\ NoLeakedMark
    OBVIOUS
<1>hold. UNCHANGED callerVars => \A c \in Callers : Holding(c)' = Holding(c) /\ eisbn'[c] = eisbn[c]
    BY DEF Holding, callerVars
<1>1. CASE Take(w)
  <2>1. inFlight' = inFlight /\ queue' = Tail(queue) /\ UNCHANGED callerVars /\ queue # <<>>
    BY <1>1 DEF Take
  <2>2. /\ ~Busy(w) /\ Busy(w)' /\ wisbn'[w] = Head(queue)
        /\ \A v \in Workers \ {w} : Busy(v)' = Busy(v) /\ wisbn'[v] = wisbn[v]
    BY <1>1, <1>type DEF Take, Goto, Busy, TypeOK
  <2>3. /\ Len(queue) \in Nat \ {0} /\ Head(queue) = queue[1] /\ Len(queue') = Len(queue) - 1
        /\ \A k \in 1..Len(queue') : queue'[k] = queue[k + 1]
    BY <2>1, <1>type DEF TypeOK
  <2>4. \A k \in 1..Len(queue') : k + 1 \in 1..Len(queue) /\ k + 1 # 1
    BY <2>3
  <2>5. 1 \in 1..Len(queue)
    BY <2>3
  <2>6. Marked'
    BY <2>1, <2>2, <2>3, <2>4, <2>5, <1>own, <1>hold DEF Marked
  <2>7. Unique'
    <3>1. \A k, l \in 1..Len(queue') : queue'[k] = queue'[l] => k = l
      <4> SUFFICES ASSUME NEW k \in 1..Len(queue'), NEW l \in 1..Len(queue'), queue'[k] = queue'[l]
                   PROVE  k = l
        OBVIOUS
      <4>1. k + 1 = l + 1
        BY <2>3, <2>4, <1>own DEF Unique
      <4> QED
        BY <4>1, <2>3
    <3>2. \A k \in 1..Len(queue'), v \in Workers : Busy(v)' => queue'[k] # wisbn'[v]
      BY <2>2, <2>3, <2>4, <2>5, <1>own DEF Unique
    <3>3. \A u, v \in Workers : Busy(u)' /\ Busy(v)' /\ wisbn'[u] = wisbn'[v] => u = v
      BY <2>2, <2>3, <2>5, <1>own DEF Unique
    <3>4. \A k \in 1..Len(queue'), c \in Callers : Holding(c)' => queue'[k] # eisbn'[c]
      BY <2>1, <2>3, <2>4, <1>own, <1>hold DEF Unique
    <3>5. \A v \in Workers, c \in Callers : Busy(v)' /\ Holding(c)' => wisbn'[v] # eisbn'[c]
      BY <2>1, <2>2, <2>3, <2>5, <1>own, <1>hold DEF Unique
    <3>6. \A b, c \in Callers : Holding(b)' /\ Holding(c)' /\ eisbn'[b] = eisbn'[c] => b = c
      BY <2>1, <1>own, <1>hold DEF Unique
    <3> QED
      BY <3>1, <3>2, <3>3, <3>4, <3>5, <3>6 DEF Unique
  <2>8. NoLeakedMark'
    <3> SUFFICES ASSUME NEW i \in inFlight
                 PROVE  \/ \E k \in 1..Len(queue') : queue'[k] = i
                        \/ \E v \in Workers : Busy(v)' /\ wisbn'[v] = i
                        \/ \E b \in Callers : Holding(b)' /\ eisbn'[b] = i
      BY <2>1 DEF NoLeakedMark
    <3>1. ASSUME NEW k \in 1..Len(queue), queue[k] = i
          PROVE  \/ \E l \in 1..Len(queue') : queue'[l] = i
                 \/ \E v \in Workers : Busy(v)' /\ wisbn'[v] = i
      <4>1. CASE k = 1
        BY <3>1, <4>1, <2>2, <2>3
      <4>2. CASE k # 1
        <5>1. k - 1 \in 1..Len(queue') /\ (k - 1) + 1 = k
          BY <4>2, <2>3
        <5> QED
          BY <3>1, <5>1, <2>3
      <4> QED
        BY <4>1, <4>2
    <3>2. CASE \E v \in Workers : Busy(v) /\ wisbn[v] = i
      BY <3>2, <2>2
    <3>3. CASE \E b \in Callers : Holding(b) /\ eisbn[b] = i
      BY <3>3, <2>1, <1>hold
    <3> QED
      BY <3>1, <3>2, <3>3, <1>own DEF NoLeakedMark
  <2> QED
    BY <2>6, <2>7, <2>8 DEF Ownership
<1>2. CASE Unmark(w)
  <2>1. inFlight' = inFlight \ {wisbn[w]} /\ queue' = queue /\ UNCHANGED callerVars
    BY <1>2 DEF Unmark
  <2>2. /\ Busy(w) /\ ~Busy(w)'
        /\ \A v \in Workers \ {w} : Busy(v)' = Busy(v) /\ wisbn'[v] = wisbn[v]
    BY <1>2, <1>type DEF Unmark, Goto, Busy, TypeOK
  <2>3. Marked'
    BY <2>1, <2>2, <1>own, <1>hold DEF Marked, Unique
  <2>4. Unique'
    BY <2>1, <2>2, <1>own, <1>hold DEF Unique
  <2>5. NoLeakedMark'
    BY <2>1, <2>2, <1>own, <1>hold DEF NoLeakedMark
  <2> QED
    BY <2>3, <2>4, <2>5 DEF Ownership
<1>3. CASE \/ ReadStatus(w) \/ Lookup(w) \/ FetchCover(w) \/ StoreCover(w)
           \/ StoreMeta(w) \/ MarkFailed(w) \/ WorkerExit(w)
  <2>1. UNCHANGED <<inFlight, queue, wisbn, callerVars>>
    BY <1>3 DEF ReadStatus, Lookup, FetchCover, StoreCover, StoreMeta, MarkFailed, WorkerExit
  <2>2. \A v \in Workers : Busy(v)' = Busy(v)
    BY <1>3, <1>type DEF ReadStatus, Lookup, FetchCover, StoreCover, StoreMeta, MarkFailed,
       WorkerExit, Goto, Busy, TypeOK
  <2> QED
    BY <2>1, <2>2, <1>own, <1>hold, SameOwners DEF Ownership
<1> QED
    BY <1>1, <1>2, <1>3 DEF WorkerStep

(* Every step keeps each mark's single owner. *)
LEMMA OwnershipStep == IndInv /\ [Next]_vars => Ownership'
<1> SUFFICES ASSUME IndInv, [Next]_vars PROVE Ownership'
    OBVIOUS
<1> USE DEF IndInv
<1>type. TypeOK
    OBVIOUS
<1>own. Ownership
    BY DEF Ownership
<1>busy. UNCHANGED workerVars => \A w \in Workers : Busy(w)' = Busy(w) /\ wisbn'[w] = wisbn[w]
    BY DEF Busy, workerVars
<1>hold. UNCHANGED callerVars => \A c \in Callers : Holding(c)' = Holding(c) /\ eisbn'[c] = eisbn[c]
    BY DEF Holding, callerVars
<1>1. ASSUME NEW c \in Clients, NEW i \in Isbns, CreateRequest(c, i) \/ RefreshRequest(c, i)
      PROVE  Ownership'
  <2>1. \A b \in Callers : Holding(b)' = Holding(b) /\ (Holding(b) => eisbn'[b] = eisbn[b])
    BY <1>1, <1>type DEF CreateRequest, RefreshRequest, EnterEnqueue, Holding, callerVars, Callers, TypeOK
  <2> QED
    BY <1>1, <1>own, <1>busy, <2>1, SameOwners DEF CreateRequest, RefreshRequest
<1>2. ASSUME NEW c \in Callers, EnqueueStep(c) PROVE Ownership'
    BY <1>2, EnqueueOwnership
<1>3. ASSUME NEW w \in Workers, WorkerStep(w) PROVE Ownership'
    BY <1>3, WorkerOwnership
<1>4. CASE SweepNext
  <2>1. \A b \in Callers : Holding(b)' = Holding(b) /\ (Holding(b) => eisbn'[b] = eisbn[b])
    BY <1>4, <1>type DEF SweepNext, Holding, Callers, TypeOK
  <2> QED
    BY <1>4, <1>own, <1>busy, <2>1, SameOwners DEF SweepNext
<1>5. CASE Sweep \/ Tick \/ ReconcilerExit \/ Cancel
    BY <1>5, <1>own, <1>busy, <1>hold, SameOwners DEF Sweep, Tick, ReconcilerExit, Cancel
<1>6. CASE Exit \/ Crash
  <2>1. Restart
    BY <1>6 DEF Exit, Crash
  <2>2. (\A w \in Workers : ~Busy(w)') /\ (\A c \in Callers : ~Holding(c)')
    BY <2>1 DEF Restart, Busy, Holding
  <2>3. 1..Len(queue') = {}
    BY <2>1 DEF Restart
  <2> QED
    BY <2>1, <2>2, <2>3 DEF Restart, Ownership, Marked, Unique, NoLeakedMark
<1>7. CASE UNCHANGED vars
    BY <1>7, <1>own, <1>busy, <1>hold, SameOwners DEF vars
<1> QED
    BY <1>1, <1>2, <1>3, <1>4, <1>5, <1>6, <1>7 DEF Next, ReconcilerStep

-----------------------------------------------------------------------------
(* Every step keeps the local variables set. *)
LEMMA LocalsStep == IndInv /\ [Next]_vars => LocalsSet'
<1> SUFFICES ASSUME IndInv, [Next]_vars PROVE LocalsSet'
    OBVIOUS
<1> USE DEF IndInv
<1>type. TypeOK
    OBVIOUS
<1>old. LocalsSet
    OBVIOUS
<1>1. ASSUME NEW c \in Clients, NEW i \in Isbns, CreateRequest(c, i) \/ RefreshRequest(c, i)
      PROVE  LocalsSet'
    BY <1>1, <1>type, <1>old DEF CreateRequest, RefreshRequest, EnterEnqueue, callerVars,
       workerVars, Callers, Busy, LocalsSet, TypeOK
<1>2. ASSUME NEW c \in Callers, EnqueueStep(c) PROVE LocalsSet'
    BY <1>2, <1>type, <1>old DEF EnqueueStep, EnqueueMark, EnqueueSend, EnqueueDrop, Return,
       workerVars, Busy, LocalsSet, TypeOK
<1>3. ASSUME NEW w \in Workers, WorkerStep(w) PROVE LocalsSet'
  <2>1. CASE Take(w)
    <3>1. Head(queue) \in Isbns
      BY <2>1, <1>type DEF Take, TypeOK
    <3> QED
      BY <2>1, <3>1, <1>type, <1>old DEF Take, Goto, callerVars, Busy, LocalsSet, TypeOK
  <2>2. CASE ReadStatus(w) \/ FetchCover(w) \/ WorkerExit(w)
    BY <2>2, <1>type, <1>old DEF ReadStatus, FetchCover, WorkerExit, Goto, callerVars, Busy,
       LocalsSet, TypeOK
  <2>3. CASE Lookup(w)
    BY <2>3, <1>type, <1>old DEF Lookup, Goto, callerVars, Busy, LocalsSet, TypeOK
  <2>4. CASE StoreCover(w) \/ StoreMeta(w) \/ MarkFailed(w)
    BY <2>4, <1>type, <1>old DEF StoreCover, StoreMeta, MarkFailed, Goto, callerVars, Busy,
       LocalsSet, TypeOK
  <2>5. CASE Unmark(w)
    BY <2>5, <1>type, <1>old DEF Unmark, Goto, callerVars, Busy, LocalsSet, TypeOK
  <2> QED
    BY <1>3, <2>1, <2>2, <2>3, <2>4, <2>5 DEF WorkerStep
<1>4. CASE SweepNext
    BY <1>4, <1>type, <1>old DEF SweepNext, workerVars, Callers, Busy, LocalsSet, TypeOK
<1>5. CASE Sweep \/ Tick \/ ReconcilerExit \/ Cancel \/ UNCHANGED vars
    BY <1>5, <1>old DEF Sweep, Tick, ReconcilerExit, Cancel, vars, workerVars, callerVars, Busy, LocalsSet
<1>6. CASE Exit \/ Crash
    BY <1>6 DEF Exit, Crash, Restart, Busy, LocalsSet
<1> QED
    BY <1>1, <1>2, <1>3, <1>4, <1>5, <1>6 DEF Next, ReconcilerStep

(* Short of a restart no edition row disappears. *)
RowsKept == \A i \in Isbns : HasRow(editions, i) => HasRow(editions', i)

(* A worker step changes at most the row it is fetching, and leaves it a   *)
(* status the fetch allows.                                                *)
LEMMA WorkerTable ==
    ASSUME IndInv, NEW w \in Workers, WorkerStep(w)
    PROVE  \/ UNCHANGED editions
           \/ /\ wpc[w] \in AfterLookup
              /\ wisbn[w] \in Isbns
              /\ OnlyRow(editions, editions', wisbn[w])
              /\ editions'[wisbn[w]].status \in Statuses
              /\ \/ wpc[w] = "saveCover" /\ editions'[wisbn[w]].status = editions[wisbn[w]].status
                 \/ wpc'[w] = "unmark"
              /\ editions[wisbn[w]].hasCover => editions'[wisbn[w]].hasCover
              /\ editions[wisbn[w]].bytes => editions'[wisbn[w]].bytes
              /\ editions[wisbn[w]].meta # NoMeta => editions'[wisbn[w]].meta # NoMeta
<1> USE DEF IndInv
<1>type. TypeOK
    OBVIOUS
<1>1. Busy(w) => wisbn[w] \in Isbns /\ HasRow(editions, wisbn[w])
    BY DEF LocalsSet, QueuedHaveRow
<1>2. CASE Take(w) \/ ReadStatus(w) \/ Lookup(w) \/ FetchCover(w) \/ Unmark(w) \/ WorkerExit(w)
    BY <1>2 DEF Take, ReadStatus, Lookup, FetchCover, Unmark, WorkerExit
<1>3. CASE StoreCover(w)
  <2>1. wisbn[w] \in Isbns /\ HasRow(editions, wisbn[w])
    BY <1>1, <1>3 DEF StoreCover, Busy
  <2>2. editions[wisbn[w]].status \in Statuses
    BY <2>1, <1>type DEF HasRow, TypeOK, Tables, Rows
  <2>3. CASE editions' = SaveCover(editions, wisbn[w])
    <3>1. /\ OnlyRow(editions, editions', wisbn[w])
          /\ editions'[wisbn[w]].status = editions[wisbn[w]].status
          /\ editions'[wisbn[w]].meta = editions[wisbn[w]].meta
          /\ editions'[wisbn[w]].hasCover = TRUE
          /\ editions'[wisbn[w]].bytes = TRUE
      BY <2>1, <2>3, <1>type, SaveCoverFacts DEF TypeOK
    <3>2. wpc[w] = "saveCover"
      BY <1>3 DEF StoreCover
    <3> QED
      BY <2>1, <2>2, <3>1, <3>2 DEF AfterLookup
  <2> QED
    BY <1>3, <2>3 DEF StoreCover, Write
<1>4. CASE StoreMeta(w)
  <2>1. wisbn[w] \in Isbns /\ wmeta[w] \in Metas /\ wpc'[w] = "unmark"
    BY <1>1, <1>4, <1>type DEF StoreMeta, Busy, Goto, LocalsSet, TypeOK
  <2>2. wmeta[w] # NoMeta
    BY <2>1, EditionTableAssumption
  <2> QED
    BY <1>4, <2>1, <2>2, <1>type, SaveEnrichmentFacts DEF StoreMeta, Write, AfterLookup, Statuses, TypeOK
<1>5. CASE MarkFailed(w)
  <2>1. wisbn[w] \in Isbns /\ wpc'[w] = "unmark"
    BY <1>1, <1>5, <1>type DEF MarkFailed, Busy, Goto, TypeOK
  <2> QED
    BY <1>5, <2>1, <1>type, SaveEnrichmentFacts DEF MarkFailed, Write, AfterLookup, Statuses, TypeOK
<1> QED
    BY <1>2, <1>3, <1>4, <1>5 DEF WorkerStep

(* Every step keeps rows under the ISBNs that are on their way. *)
LEMMA RowsStep == IndInv /\ [Next]_vars => (QueuedHaveRow /\ DueHaveRow)'
<1> SUFFICES ASSUME IndInv, [Next]_vars PROVE (QueuedHaveRow /\ DueHaveRow)'
    OBVIOUS
<1> USE DEF IndInv
<1>type. TypeOK
    OBVIOUS
<1>old. QueuedHaveRow /\ DueHaveRow /\ LocalsSet
    OBVIOUS
<1>q. \A k \in 1..Len(queue) : queue[k] \in Isbns
    BY <1>type DEF TypeOK
<1>1. ASSUME NEW c \in Clients, NEW i \in Isbns, CreateRequest(c, i) \/ RefreshRequest(c, i)
      PROVE  (QueuedHaveRow /\ DueHaveRow)'
  <2>1. RowsKept /\ HasRow(editions', i)
    <3>1. CASE editions' = EnsureEdition(editions, i)
      <4>1. /\ HasRow(editions', i)
            /\ \A j \in Isbns : HasRow(editions, j) => editions'[j] = editions[j]
        BY <3>1, <1>type, EnsureEditionFacts DEF TypeOK
      <4> QED
        BY <4>1 DEF RowsKept, HasRow
    <3>2. CASE editions' = MarkEditionPending(editions, i)
      <4>1. editions'[i].status = "pending" /\ \A j \in Isbns \ {i} : editions'[j] = editions[j]
        BY <3>2, <1>type, MarkEditionPendingFacts DEF OnlyRow, TypeOK
      <4> QED
        BY <4>1 DEF RowsKept, HasRow
    <3> QED
      BY <1>1, <3>1, <3>2 DEF CreateRequest, RefreshRequest
  <2>2. \A b \in Callers : epc'[b] # "out" => \/ epc[b] # "out" /\ eisbn'[b] = eisbn[b]
                                              \/ eisbn'[b] = i
    BY <1>1, <1>type DEF CreateRequest, RefreshRequest, EnterEnqueue, callerVars, Callers, TypeOK
  <2>3. UNCHANGED <<queue, wpc, wisbn, due>>
    BY <1>1 DEF CreateRequest, RefreshRequest, workerVars, sweepVars
  <2> QED
    BY <2>1, <2>2, <2>3, <1>type, <1>old, <1>q
       DEF RowsKept, QueuedHaveRow, DueHaveRow, LocalsSet, Busy, TypeOK
<1>2. ASSUME NEW c \in Callers, EnqueueStep(c) PROVE (QueuedHaveRow /\ DueHaveRow)'
  <2>1. UNCHANGED <<editions, wpc, wisbn, due>>
    BY <1>2 DEF EnqueueStep, EnqueueMark, EnqueueSend, EnqueueDrop, workerVars, sweepVars
  <2>2. \A b \in Callers : epc'[b] # "out" => epc[b] # "out" /\ eisbn'[b] = eisbn[b]
    BY <1>2, <1>type DEF EnqueueStep, EnqueueMark, EnqueueSend, EnqueueDrop, Return, TypeOK
  <2>3. \A k \in 1..Len(queue') : HasRow(editions, queue'[k])
    <3>1. CASE queue' = queue
      BY <3>1, <1>old DEF QueuedHaveRow
    <3>2. CASE epc[c] = "send" /\ queue' = Append(queue, eisbn[c])
      <4>1. eisbn[c] \in Isbns /\ HasRow(editions, eisbn[c])
        BY <3>2, <1>old DEF LocalsSet, QueuedHaveRow
      <4>2. /\ Len(queue) \in Nat /\ Len(queue') = Len(queue) + 1
            /\ \A k \in 1..Len(queue) : queue'[k] = queue[k]
            /\ queue'[Len(queue) + 1] = eisbn[c]
        BY <3>2, <4>1, <1>type DEF TypeOK
      <4>3. \A k \in 1..Len(queue') : k \in 1..Len(queue) \/ k = Len(queue) + 1
        BY <4>2
      <4> QED
        BY <4>1, <4>2, <4>3, <1>old DEF QueuedHaveRow
    <3> QED
      BY <1>2, <3>1, <3>2 DEF EnqueueStep, EnqueueMark, EnqueueSend, EnqueueDrop
  <2> QED
    BY <2>1, <2>2, <2>3, <1>old DEF QueuedHaveRow, DueHaveRow, Busy, HasRow
<1>3. ASSUME NEW w \in Workers, WorkerStep(w) PROVE (QueuedHaveRow /\ DueHaveRow)'
  <2>1. RowsKept
    BY <1>3, WorkerTable DEF RowsKept, OnlyRow, HasRow, Statuses
  <2>2. UNCHANGED <<epc, eisbn, due>>
    BY <1>3 DEF WorkerStep, Take, ReadStatus, Lookup, FetchCover, StoreCover, StoreMeta,
       MarkFailed, Unmark, WorkerExit, callerVars, sweepVars
  <2>3. CASE Take(w)
    <3>1. /\ Len(queue) \in Nat \ {0} /\ Head(queue) = queue[1] /\ Len(queue') = Len(queue) - 1
          /\ \A k \in 1..Len(queue') : queue'[k] = queue[k + 1]
      BY <2>3, <1>type DEF Take, TypeOK
    <3>2. (\A k \in 1..Len(queue') : k + 1 \in 1..Len(queue)) /\ 1 \in 1..Len(queue)
      BY <3>1
    <3>3. \A k \in 1..Len(queue') : HasRow(editions', queue'[k])
      BY <2>1, <3>1, <3>2, <1>q, <1>old DEF RowsKept, QueuedHaveRow
    <3>4. HasRow(editions', Head(queue))
      BY <2>1, <3>1, <3>2, <1>q, <1>old DEF RowsKept, QueuedHaveRow
    <3>5. \A v \in Workers : Busy(v)' => HasRow(editions', wisbn'[v])
      BY <2>1, <2>3, <3>4, <1>type, <1>old
         DEF Take, Goto, Busy, RowsKept, QueuedHaveRow, LocalsSet, TypeOK
    <3> QED
      BY <2>1, <2>2, <3>3, <3>5, <1>type, <1>old
         DEF RowsKept, QueuedHaveRow, DueHaveRow, LocalsSet, TypeOK
  <2>4. CASE ~Take(w)
    <3>1. queue' = queue
      BY <1>3, <2>4 DEF WorkerStep, ReadStatus, Lookup, FetchCover, StoreCover, StoreMeta,
         MarkFailed, Unmark, WorkerExit
    <3>2. \A v \in Workers : Busy(v)' => Busy(v) /\ wisbn'[v] = wisbn[v]
      BY <1>3, <2>4, <1>type DEF WorkerStep, ReadStatus, Lookup, FetchCover, StoreCover, StoreMeta,
         MarkFailed, Unmark, WorkerExit, Goto, Busy, TypeOK
    <3> QED
      BY <2>1, <2>2, <3>1, <3>2, <1>type, <1>old, <1>q
         DEF RowsKept, QueuedHaveRow, DueHaveRow, LocalsSet, TypeOK
  <2> QED
    BY <2>3, <2>4
<1>4. CASE Sweep
    BY <1>4, <1>type, <1>old, PendingEnrichmentFacts
       DEF Sweep, workerVars, callerVars, QueuedHaveRow, DueHaveRow, Busy, TypeOK
<1>5. CASE SweepNext
    BY <1>5, <1>type, <1>old
       DEF SweepNext, workerVars, Callers, QueuedHaveRow, DueHaveRow, Busy, TypeOK
<1>6. CASE Tick \/ ReconcilerExit \/ Cancel \/ UNCHANGED vars
    BY <1>6, <1>old DEF Tick, ReconcilerExit, Cancel, vars, workerVars, callerVars, sweepVars,
       QueuedHaveRow, DueHaveRow, Busy
<1>7. CASE Exit \/ Crash
    BY <1>7 DEF Exit, Crash, Restart, QueuedHaveRow, DueHaveRow, Busy
<1> QED
    BY <1>1, <1>2, <1>3, <1>4, <1>5, <1>6, <1>7 DEF Next, ReconcilerStep

(* Every step keeps fetches on editions that need one: the one step that   *)
(* enriches an edition ends its only fetch.                                *)
LEMMA FetchedStep == IndInv /\ [Next]_vars => FetchedIsDue'
<1> SUFFICES ASSUME IndInv, [Next]_vars PROVE FetchedIsDue'
    OBVIOUS
<1> USE DEF IndInv
<1>type. TypeOK
    OBVIOUS
<1>old. FetchedIsDue /\ LocalsSet /\ Unique
    OBVIOUS
<1>busy. \A w \in Workers : wpc[w] \in FetchStages => Busy(w) /\ wisbn[w] \in Isbns
    BY <1>old DEF FetchStages, LocalsSet, Busy
<1>1. ASSUME NEW c \in Clients, NEW i \in Isbns, CreateRequest(c, i) \/ RefreshRequest(c, i)
      PROVE  FetchedIsDue'
  <2>1. \A j \in Isbns : editions[j].status \in {"pending", "failed"}
                            => editions'[j].status \in {"pending", "failed"}
    <3>1. CASE editions' = EnsureEdition(editions, i)
      BY <3>1, <1>type, EnsureEditionFacts DEF HasRow, TypeOK
    <3>2. CASE editions' = MarkEditionPending(editions, i)
      <4>1. /\ \A j \in Isbns \ {i} : editions'[j] = editions[j]
            /\ editions'[i].status = "pending"
        BY <3>2, <1>type, MarkEditionPendingFacts DEF OnlyRow, TypeOK
      <4> QED
        BY <4>1
    <3> QED
      BY <1>1, <3>1, <3>2 DEF CreateRequest, RefreshRequest
  <2> QED
    BY <1>1, <2>1, <1>busy, <1>old DEF CreateRequest, RefreshRequest, workerVars, FetchedIsDue
<1>2. ASSUME NEW w \in Workers, WorkerStep(w) PROVE FetchedIsDue'
  <2> SUFFICES ASSUME NEW v \in Workers, wpc'[v] \in FetchStages
               PROVE  editions'[wisbn'[v]].status \in {"pending", "failed"}
    BY DEF FetchedIsDue
  <2>1. CASE v # w
    <3>1. wpc'[v] = wpc[v] /\ wisbn'[v] = wisbn[v]
      BY <1>2, <2>1, <1>type DEF WorkerStep, Take, ReadStatus, Lookup, FetchCover, StoreCover,
         StoreMeta, MarkFailed, Unmark, WorkerExit, Goto, TypeOK
    <3>2. wpc[w] \in AfterLookup => wisbn[w] # wisbn[v]
      BY <2>1, <3>1, <1>busy, <1>old DEF AfterLookup, FetchStages, Unique
    <3>3. editions'[wisbn[v]] = editions[wisbn[v]]
      BY <1>2, <3>1, <3>2, <1>busy, WorkerTable DEF OnlyRow
    <3> QED
      BY <3>1, <3>3, <1>old DEF FetchedIsDue
  <2>2. CASE v = w /\ ReadStatus(w)
    <3>1. wpc'[w] = "lookup" => editions[wisbn[w]].status # "enriched"
      BY <2>2, <1>type DEF ReadStatus, Goto, TypeOK
    <3>2. wpc'[w] = "lookup" \/ wpc'[w] = "unmark"
      BY <2>2, <1>type DEF ReadStatus, Goto, TypeOK
    <3>3. wisbn[w] \in Isbns /\ HasRow(editions, wisbn[w])
      BY <2>2 DEF ReadStatus, Busy, LocalsSet, QueuedHaveRow
    <3>4. editions[wisbn[w]].status \in {"pending", "enriched", "failed"}
      BY <3>3, <1>type DEF HasRow, TypeOK, Tables, Rows, Statuses
    <3> QED
      BY <2>2, <3>1, <3>2, <3>4 DEF ReadStatus, FetchStages
  <2>3. CASE v = w /\ ~ReadStatus(w)
    <3>1. wpc[w] \in FetchStages /\ wisbn'[w] = wisbn[w] /\ wpc'[w] # "unmark"
      BY <1>2, <2>3, <1>type DEF WorkerStep, Take, Lookup, FetchCover, StoreCover,
         StoreMeta, MarkFailed, Unmark, WorkerExit, Goto, FetchStages, TypeOK
    <3>2. editions'[wisbn[w]].status = editions[wisbn[w]].status
      BY <1>2, <3>1, WorkerTable
    <3> QED
      BY <2>3, <3>1, <3>2, <1>old DEF FetchedIsDue
  <2> QED
    BY <2>1, <2>2, <2>3
<1>3. CASE ReconcilerStep \/ Cancel \/ UNCHANGED vars \/ \E c \in Callers : EnqueueStep(c)
    BY <1>3, <1>old DEF ReconcilerStep, Sweep, SweepNext, Tick, ReconcilerExit, Cancel, vars,
       workerVars, EnqueueStep, EnqueueMark, EnqueueSend, EnqueueDrop, FetchedIsDue
<1>4. CASE Exit \/ Crash
    BY <1>4 DEF Exit, Crash, Restart, FetchedIsDue, FetchStages
<1> QED
    BY <1>1, <1>2, <1>3, <1>4 DEF Next

(* Every step keeps quiet refreshes pending until their Lookup. *)
LEMMA QuietStep == IndInv /\ [Next]_vars => QuietInv'
<1> SUFFICES ASSUME IndInv, [Next]_vars PROVE QuietInv'
    OBVIOUS
<1> USE DEF IndInv
<1>type. TypeOK
    OBVIOUS
<1>old. QuietInv
    OBVIOUS
<1>1. ASSUME NEW c \in Clients, NEW i \in Isbns, CreateRequest(c, i) PROVE QuietInv'
  <2>1. \A j \in Isbns : editions[j].status = "pending" => editions'[j].status = "pending"
    BY <1>1, <1>type, EnsureEditionFacts DEF CreateRequest, HasRow, TypeOK
  <2> QED
    BY <1>1, <2>1, <1>old DEF CreateRequest, workerVars, QuietInv
<1>2. ASSUME NEW c \in Clients, NEW i \in Isbns, RefreshRequest(c, i) PROVE QuietInv'
  <2>1. /\ editions'[i].status = "pending"
        /\ \A j \in Isbns \ {i} : editions'[j] = editions[j]
    BY <1>2, <1>type, MarkEditionPendingFacts DEF RefreshRequest, OnlyRow, TypeOK
  <2>2. \A j \in Isbns \ {i} : owed'[j] = owed[j]
    BY <1>2, <1>type DEF RefreshRequest, TypeOK
  <2>3. owed'[i] = "quiet" => \A w \in Workers : wpc[w] \in AfterLookup => wisbn[w] # i
    BY <1>2, <1>type DEF RefreshRequest, TypeOK
  <2>4. UNCHANGED <<wpc, wisbn>>
    BY <1>2 DEF RefreshRequest, workerVars
  <2> QED
    BY <2>1, <2>2, <2>3, <2>4, <1>old DEF QuietInv
<1>3. ASSUME NEW w \in Workers, WorkerStep(w) PROVE QuietInv'
  <2> SUFFICES ASSUME NEW j \in Isbns, owed'[j] = "quiet"
               PROVE  /\ editions'[j].status = "pending"
                      /\ \A v \in Workers : wpc'[v] \in AfterLookup => wisbn'[v] # j
    BY DEF QuietInv
  <2>1. owed[j] = "quiet" /\ (Lookup(w) => j # wisbn[w])
    BY <1>3, <1>type DEF WorkerStep, Take, ReadStatus, Lookup, FetchCover, StoreCover, StoreMeta,
       MarkFailed, Unmark, WorkerExit, TypeOK
  <2>2. wpc[w] \in AfterLookup => wisbn[w] # j
    BY <2>1, <1>old DEF QuietInv
  <2>3. editions'[j] = editions[j]
    BY <1>3, <2>2, WorkerTable DEF OnlyRow
  <2>4. \A v \in Workers \ {w} : wpc'[v] = wpc[v] /\ wisbn'[v] = wisbn[v]
    BY <1>3, <1>type DEF WorkerStep, Take, ReadStatus, Lookup, FetchCover, StoreCover, StoreMeta,
       MarkFailed, Unmark, WorkerExit, Goto, TypeOK
  <2>5. wpc'[w] \in AfterLookup => wisbn'[w] # j
    BY <1>3, <2>1, <2>2, <1>type DEF WorkerStep, Take, ReadStatus, Lookup, FetchCover, StoreCover,
       StoreMeta, MarkFailed, Unmark, WorkerExit, Goto, AfterLookup, TypeOK
  <2> QED
    BY <2>1, <2>3, <2>4, <2>5, <1>old DEF QuietInv
<1>4. CASE ReconcilerStep \/ Cancel \/ UNCHANGED vars \/ \E c \in Callers : EnqueueStep(c)
    BY <1>4, <1>old DEF ReconcilerStep, Sweep, SweepNext, Tick, ReconcilerExit, Cancel, vars,
       workerVars, EnqueueStep, EnqueueMark, EnqueueSend, EnqueueDrop, QuietInv
<1>5. CASE Exit \/ Crash
    BY <1>5, <1>old DEF Exit, Crash, Restart, AfterRestart, AfterLookup, QuietInv
<1> QED
    BY <1>1, <1>2, <1>3, <1>4, <1>5 DEF Next

-----------------------------------------------------------------------------
(* IndInv is inductive. *)
LEMMA NextIndInv == IndInv /\ [Next]_vars => IndInv'
BY TypeStep, OwnershipStep, LocalsStep, RowsStep, FetchedStep, QuietStep DEF IndInv, Ownership

(* IndInv holds in every reachable state. *)
THEOREM Invariance == Spec => []IndInv
BY InitIndInv, NextIndInv, PTL DEF Spec

(* The variables keep their types and the channel of NewWorker never holds *)
(* more than QueueSize ISBNs.                                              *)
THEOREM TypeCorrect == Spec => []TypeOK
<1>1. IndInv => TypeOK
    BY DEF IndInv
<1> QED
    BY <1>1, Invariance, PTL

(* worker.go, Worker: the same ISBN is never fetched twice concurrently.   *)
(* This rests on every mark in the in-flight map having a single owner.    *)
THEOREM NeverFetchedTwice == Spec => []OneFetchPerIsbn
<1>1. IndInv => OneFetchPerIsbn
    BY DEF IndInv, Unique, OneFetchPerIsbn, FetchStages, Busy
<1> QED
    BY <1>1, Invariance, PTL

(* worker.go, Enqueue and Run: markInFlight and unmarkInFlight pair up, so *)
(* no mark outlives the job it stands for.                                 *)
THEOREM MarksDoNotLeak == Spec => []NoLeakedMark
<1>1. IndInv => NoLeakedMark
    BY DEF IndInv
<1> QED
    BY <1>1, Invariance, PTL

(* worker.go, process: no reader sees an edition enriched while a job      *)
(* still has its cover or metadata to save.                                *)
THEOREM EnrichedAfterCover == Spec => []CoverBeforeEnriched
<1>1. IndInv => CoverBeforeEnriched
    BY DEF IndInv, FetchedIsDue, FetchStages, CoverBeforeEnriched
<1> QED
    BY <1>1, Invariance, PTL

(* handlers.go, enqueueEnrichment and refresh: every ISBN that reaches the *)
(* worker has an edition row.                                              *)
THEOREM QueuedIsStored == Spec => []QueuedHaveRow
<1>1. IndInv => QueuedHaveRow
    BY DEF IndInv
<1> QED
    BY <1>1, Invariance, PTL

(* handlers.go, refresh: a refresh that no worker raced stays pending      *)
(* until it gets its Lookup.                                               *)
THEOREM QuietRefreshKept == Spec => []QuietRefreshStaysPending
<1>1. IndInv => QuietRefreshStaysPending
    BY DEF IndInv, QuietInv, QuietRefreshStaysPending
<1> QED
    BY <1>1, Invariance, PTL

-----------------------------------------------------------------------------
(* What an edition has is not lost from one state to the next. *)
KeepsData == \A i \in Isbns :
    /\ editions[i].hasCover => editions'[i].hasCover
    /\ editions[i].bytes => editions'[i].bytes
    /\ editions[i].meta # NoMeta => editions'[i].meta # NoMeta

LEMMA StepKeepsData == IndInv /\ [Next]_vars => (Durable => KeepsData)
<1> SUFFICES ASSUME IndInv, [Next]_vars, Durable PROVE KeepsData
    OBVIOUS
<1>type. TypeOK
    BY DEF IndInv
<1>1. ASSUME NEW c \in Clients, NEW i \in Isbns, CreateRequest(c, i) \/ RefreshRequest(c, i)
      PROVE  KeepsData
  <2>1. /\ \A j \in Isbns \ {i} : editions'[j] = editions[j]
        /\ editions'[i].meta = editions[i].meta
        /\ editions'[i].hasCover = editions[i].hasCover
        /\ editions'[i].bytes = editions[i].bytes
    <3>1. CASE editions' = EnsureEdition(editions, i)
      BY <3>1, <1>type, EnsureEditionFacts DEF OnlyRow, TypeOK
    <3>2. CASE editions' = MarkEditionPending(editions, i)
      BY <3>2, <1>type, MarkEditionPendingFacts DEF OnlyRow, TypeOK
    <3> QED
      BY <1>1, <3>1, <3>2 DEF CreateRequest, RefreshRequest
  <2> QED
    BY <2>1 DEF KeepsData
<1>2. ASSUME NEW w \in Workers, WorkerStep(w) PROVE KeepsData
    BY <1>2, WorkerTable DEF OnlyRow, KeepsData
<1>3. CASE UNCHANGED editions
    BY <1>3 DEF KeepsData
<1>4. CASE ReconcilerStep \/ Cancel \/ UNCHANGED vars \/ \E c \in Callers : EnqueueStep(c)
    BY <1>3, <1>4 DEF ReconcilerStep, Sweep, SweepNext, Tick, ReconcilerExit, Cancel, vars,
       EnqueueStep, EnqueueMark, EnqueueSend, EnqueueDrop
<1>5. CASE Exit \/ Crash
    BY <1>3, <1>5 DEF Exit, Crash, Restart, AfterRestart
<1> QED
    BY <1>1, <1>2, <1>4, <1>5 DEF Next

(* store_postgres.go, SaveEnrichment and MarkEditionPending: with a        *)
(* durable store no step, failure or restart loses metadata or a cover.    *)
THEOREM DataNeverErased == Spec => EnrichmentNeverErased
<1>1. IndInv /\ [Next]_vars =>
        [Durable => \A i \in Isbns :
           /\ editions[i].hasCover => editions'[i].hasCover
           /\ editions[i].bytes => editions'[i].bytes
           /\ editions[i].meta # NoMeta => editions'[i].meta # NoMeta]_vars
    BY StepKeepsData DEF KeepsData
<1> QED
    BY <1>1, Invariance, PTL DEF Spec, EnrichmentNeverErased

-----------------------------------------------------------------------------
(* Refinement *)

(* A worker that does not enter or leave a fetch keeps the abstract set. *)
LEMMA SameFetching ==
    ASSUME \A w \in Workers : /\ (wpc'[w] \in FetchStages) = (wpc[w] \in FetchStages)
                              /\ wpc[w] \in FetchStages => wisbn'[w] = wisbn[w]
    PROVE  Fetching' = Fetching
BY DEF Fetching

(* When worker w leaves its fetch, its ISBN leaves the abstract set. *)
LEMMA EndFetching ==
    ASSUME IndInv, NEW w \in Workers, wpc[w] \in FetchStages, wpc'[w] \notin FetchStages,
           \A v \in Workers \ {w} : wpc'[v] = wpc[v] /\ wisbn'[v] = wisbn[v]
    PROVE  wisbn[w] \in Fetching /\ Fetching' = Fetching \ {wisbn[w]}
<1>1. \A v \in Workers \ {w} : wpc[v] \in FetchStages => wisbn[v] # wisbn[w]
    BY DEF IndInv, Unique, FetchStages, Busy
<1> QED
    BY <1>1 DEF Fetching

(* Every worker step is a step of the abstract fetch, or none. *)
LEMMA WorkerRefines ==
    ASSUME IndInv, NEW w \in Workers, WorkerStep(w)
    PROVE  [Lifecycle!LifecycleNext]_<<editions, Fetching>>
<1> USE DEF IndInv
<1>type. TypeOK
    OBVIOUS
<1>loc. Busy(w) => wisbn[w] \in Isbns
    BY DEF LocalsSet
<1>oth. \A v \in Workers \ {w} : wpc'[v] = wpc[v] /\ wisbn'[v] = wisbn[v]
    BY <1>type DEF WorkerStep, Take, ReadStatus, Lookup, FetchCover, StoreCover, StoreMeta,
       MarkFailed, Unmark, WorkerExit, Goto, TypeOK
<1>1. CASE Take(w) \/ Lookup(w) \/ FetchCover(w) \/ Unmark(w) \/ WorkerExit(w)
  <2>1. Fetching' = Fetching
    <3>1. /\ (wpc'[w] \in FetchStages) = (wpc[w] \in FetchStages)
          /\ wpc[w] \in FetchStages => wisbn'[w] = wisbn[w]
      BY <1>1, <1>type DEF Take, Lookup, FetchCover, Unmark, WorkerExit, Goto, FetchStages, TypeOK
    <3> QED
      BY <3>1, <1>oth, SameFetching
  <2> QED
    BY <1>1, <2>1 DEF Take, Lookup, FetchCover, Unmark, WorkerExit
<1>2. CASE ReadStatus(w)
  <2>1. UNCHANGED <<editions, wisbn>> /\ wpc[w] = "status"
    BY <1>2 DEF ReadStatus
  <2>2. CASE wpc'[w] = "unmark"
    <3>1. Fetching' = Fetching
      BY <2>1, <2>2, <1>oth, SameFetching DEF FetchStages
    <3> QED
      BY <2>1, <3>1
  <2>3. CASE wpc'[w] = "lookup"
    <3>1. wisbn[w] \in Isbns
      BY <2>1, <1>loc DEF Busy
    <3>2. wisbn[w] \notin Fetching
      BY <2>1 DEF Fetching, Unique, Busy, FetchStages
    <3>3. Fetching' = Fetching \cup {wisbn[w]}
      BY <2>1, <2>3, <1>oth DEF Fetching, FetchStages
    <3>4. editions[wisbn[w]].status \in {"pending", "failed"}
      <4>1. editions[wisbn[w]].status # "enriched"
        BY <1>2, <2>3, <1>type DEF ReadStatus, Goto, TypeOK
      <4>2. HasRow(editions, wisbn[w])
        BY <2>1 DEF QueuedHaveRow, Busy
      <4> QED
        BY <3>1, <4>1, <4>2, <1>type DEF HasRow, TypeOK, Tables, Rows, Statuses
    <3>5. Lifecycle!BeginFetch(wisbn[w])
      BY <2>1, <3>2, <3>3, <3>4 DEF Lifecycle!BeginFetch
    <3> QED
      BY <3>1, <3>5 DEF Lifecycle!LifecycleNext, Lifecycle!FetchStep
  <2> QED
    BY <1>2, <2>2, <2>3, <1>type DEF ReadStatus, Goto, TypeOK
<1>3. CASE StoreCover(w)
  <2>1. Fetching' = Fetching
    <3>1. wpc'[w] \in FetchStages /\ wpc[w] \in FetchStages /\ wisbn'[w] = wisbn[w]
      BY <1>3, <1>type DEF StoreCover, Goto, FetchStages, TypeOK
    <3> QED
      BY <3>1, <1>oth, SameFetching
  <2>2. wisbn[w] \in Isbns /\ wisbn[w] \in Fetching
    BY <1>3, <1>loc DEF StoreCover, Busy, Fetching, FetchStages
  <2>3. editions[wisbn[w]].status \in {"pending", "failed"}
    BY <1>3 DEF StoreCover, FetchedIsDue, FetchStages
  <2>4. CASE editions' = SaveCover(editions, wisbn[w])
    <3>1. Lifecycle!AttachCover(wisbn[w])
      BY <2>1, <2>2, <2>3, <2>4 DEF Lifecycle!AttachCover, Lifecycle!SaveCover, SaveCover,
         Lifecycle!CoverAccepted, CoverAccepted, Lifecycle!HasRow, HasRow
    <3> QED
      BY <2>2, <3>1 DEF Lifecycle!LifecycleNext, Lifecycle!FetchStep
  <2> QED
    BY <1>3, <2>1, <2>4 DEF StoreCover, Write
<1>4. CASE StoreMeta(w) \/ MarkFailed(w)
  <2>1. wisbn[w] \in Isbns /\ (StoreMeta(w) => wmeta[w] \in Metas)
    BY <1>4, <1>loc DEF StoreMeta, MarkFailed, Busy, LocalsSet
  <2>2. wisbn[w] \in Fetching /\ Fetching' = Fetching \ {wisbn[w]}
    <3>1. wpc[w] \in FetchStages /\ wpc'[w] \notin FetchStages
      BY <1>4, <1>type DEF StoreMeta, MarkFailed, Goto, FetchStages, TypeOK
    <3> QED
      BY <3>1, <1>oth, EndFetching
  <2>3. CASE UNCHANGED editions
    BY <2>1, <2>2, <2>3 DEF Lifecycle!LifecycleNext, Lifecycle!FetchStep, Lifecycle!AbandonFetch
  <2>4. CASE StoreMeta(w) /\ editions' = SaveEnrichment(editions, wisbn[w], wmeta[w], "enriched")
    <3>1. Lifecycle!CompleteFetch(wisbn[w], wmeta[w])
      BY <2>2, <2>4 DEF Lifecycle!CompleteFetch, Lifecycle!SaveEnrichment, SaveEnrichment
    <3> QED
      BY <2>1, <2>4, <3>1 DEF Lifecycle!LifecycleNext, Lifecycle!FetchStep
  <2>5. CASE editions' = SaveEnrichment(editions, wisbn[w], NoMeta, "failed")
    <3>1. Lifecycle!FailFetch(wisbn[w])
      BY <2>2, <2>5 DEF Lifecycle!FailFetch, Lifecycle!SaveEnrichment, SaveEnrichment
    <3> QED
      BY <2>1, <3>1 DEF Lifecycle!LifecycleNext, Lifecycle!FetchStep
  <2> QED
    BY <1>4, <2>3, <2>4, <2>5 DEF StoreMeta, MarkFailed, Write
<1> QED
    BY <1>1, <1>2, <1>3, <1>4 DEF WorkerStep

(* Every step of the system is an abstract step, or none. *)
LEMMA StepRefines == IndInv /\ [Next]_vars => [Lifecycle!LifecycleNext]_<<editions, Fetching>>
<1> SUFFICES ASSUME IndInv, [Next]_vars PROVE [Lifecycle!LifecycleNext]_<<editions, Fetching>>
    OBVIOUS
<1>same. UNCHANGED <<wpc, wisbn>> => Fetching' = Fetching
    BY DEF Fetching
<1>1. ASSUME NEW c \in Clients, NEW i \in Isbns, CreateRequest(c, i)
      PROVE  Lifecycle!LifecycleNext
  <2>1. Lifecycle!Request(i)
    BY <1>1, <1>same DEF CreateRequest, workerVars, Lifecycle!Request, Lifecycle!EnsureEdition,
       EnsureEdition, Lifecycle!HasRow, HasRow
  <2> QED
    BY <2>1 DEF Lifecycle!LifecycleNext
<1>2. ASSUME NEW c \in Clients, NEW i \in Isbns, RefreshRequest(c, i)
      PROVE  Lifecycle!LifecycleNext
  <2>1. Lifecycle!Refresh(i)
    BY <1>2, <1>same DEF RefreshRequest, workerVars, Lifecycle!Refresh,
       Lifecycle!MarkEditionPending, MarkEditionPending
  <2> QED
    BY <2>1 DEF Lifecycle!LifecycleNext
<1>3. ASSUME NEW w \in Workers, WorkerStep(w)
      PROVE  [Lifecycle!LifecycleNext]_<<editions, Fetching>>
    BY <1>3, WorkerRefines
<1>4. CASE ReconcilerStep \/ Cancel \/ UNCHANGED vars \/ \E c \in Callers : EnqueueStep(c)
    BY <1>4, <1>same DEF ReconcilerStep, Sweep, SweepNext, Tick, ReconcilerExit, Cancel, vars,
       workerVars, EnqueueStep, EnqueueMark, EnqueueSend, EnqueueDrop
<1>5. CASE Exit \/ Crash
  <2>1. editions' = AfterRestart(editions) /\ wpc' = [w \in Workers |-> "idle"]
    BY <1>5 DEF Exit, Crash, Restart
  <2>2. Fetching' = {}
    BY <2>1 DEF Fetching, FetchStages
  <2>3. Lifecycle!LifecycleRestart
    BY <2>1, <2>2 DEF Lifecycle!LifecycleRestart, Lifecycle!AfterRestart, AfterRestart,
       Lifecycle!EmptyTable, EmptyTable, Lifecycle!NoRow, NoRow
  <2> QED
    BY <2>3 DEF Lifecycle!LifecycleNext
<1> QED
    BY <1>1, <1>2, <1>3, <1>4, <1>5 DEF Next

(* The worker of worker.go implements EditionLifecycle: whatever queue,    *)
(* in-flight map, sweeps, errors and restarts do, the editions table only  *)
(* goes through the lifecycle BookShelf builds on.                         *)
THEOREM Refinement == Spec => ImplementsLifecycle
<1>1. Init => Lifecycle!LifecycleInit
    BY DEF Init, Lifecycle!LifecycleInit, Fetching, FetchStages, Lifecycle!EmptyTable, EmptyTable,
       Lifecycle!NoRow, NoRow
<1>2. IndInv /\ [Next]_vars => [Lifecycle!LifecycleNext]_(Lifecycle!lifecycleVars)
    BY StepRefines DEF Lifecycle!lifecycleVars
<1> QED
    BY <1>1, <1>2, Invariance, PTL DEF Spec, ImplementsLifecycle, Lifecycle!LifecycleSpec
=============================================================================
