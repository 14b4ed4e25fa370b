---------------------------- MODULE EnrichWorker ----------------------------
(***************************************************************************)
(* The enrichment worker of internal/enrich/worker.go: the callers of      *)
(* Enqueue (HTTP handlers and the reconciler), the in-flight map, the      *)
(* bounded queue, the worker goroutines running process, the reconciler's  *)
(* sweeps, and the process that hosts them being cancelled, crashing and   *)
(* restarting.                                                             *)
(*                                                                         *)
(* One action is one critical section, channel operation, store call or    *)
(* upstream call, so that everything another goroutine can do in between   *)
(* is interleaved.  Store and upstream errors, crashes and shutdown        *)
(* requests are all paid from one budget, MaxDisruptions.                  *)
(***************************************************************************)
EXTENDS EditionTable, Sequences

CONSTANTS
    Workers,        \* the worker goroutines
    Clients,        \* HTTP handler goroutines that enqueue
    Reconciler,     \* the reconciler goroutine, a caller of Enqueue too
    QueueSize,      \* capacity of the queue channel
    SweepLimit,     \* the limit a sweep passes to PendingEnrichment
    Missing,        \* the ISBNs that no upstream has a record of
    MaxDisruptions  \* bound: errors, crashes and shutdowns per behaviour

ASSUME EnrichWorkerAssumption ==
    /\ Reconciler \notin Clients
    /\ QueueSize \in Nat \ {0}
    /\ SweepLimit \in Nat \ {0}
    /\ Missing \subseteq Isbns
    /\ MaxDisruptions \in Nat

NoIsbn  == 0
Callers == Clients \cup {Reconciler}

VARIABLES
    editions,       \* the editions table, in the store
    inFlight,       \* Worker.inFlight
    queue,          \* Worker.queue
    wpc,            \* where each worker goroutine is
    wisbn,          \* the ISBN it is processing
    wmeta,          \* the metadata its Lookup returned
    epc,            \* where each caller is in Enqueue
    eisbn,          \* the ISBN it enqueues
    rpc,            \* where the reconciler goroutine is
    due,            \* the ISBNs of the current sweep not yet enqueued
    cancelled,      \* the context passed to Run is cancelled
    owed,           \* history: accepted refreshes not followed by a Lookup
    disruptions     \* how much of the budget is spent

workerVars == <<wpc, wisbn, wmeta>>
callerVars == <<epc, eisbn>>
sweepVars  == <<rpc, due>>
vars == <<editions, inFlight, queue, workerVars, callerVars, sweepVars,
          cancelled, owed, disruptions>>

WorkerStages == {"idle", "status", "lookup", "cover", "saveCover",
                 "saveMeta", "markFailed", "unmark", "done"}
FetchStages  == {"lookup", "cover", "saveCover", "saveMeta", "markFailed"}
AfterLookup  == {"cover", "saveCover", "saveMeta", "markFailed"}

TypeOK ==
    /\ editions \in Tables
    /\ inFlight \in SUBSET Isbns
    /\ queue \in Seq(Isbns) /\ Len(queue) <= QueueSize
    /\ wpc \in [Workers -> WorkerStages]
    /\ wisbn \in [Workers -> Isbns \cup {NoIsbn}]
    /\ wmeta \in [Workers -> Metas \cup {NoMeta}]
    /\ epc \in [Callers -> {"out", "mark", "send", "drop"}]
    /\ eisbn \in [Callers -> Isbns \cup {NoIsbn}]
    /\ rpc \in {"sweep", "loop", "done"}
    /\ due \in SUBSET Isbns
    /\ cancelled \in BOOLEAN
    /\ owed \in [Isbns -> {"no", "quiet", "raced"}]
    /\ disruptions \in 0..MaxDisruptions

Init ==
    /\ inFlight = {}
    /\ queue = <<>>
    /\ wpc = [w \in Workers |-> "idle"]
    /\ wisbn = [w \in Workers |-> NoIsbn]
    /\ wmeta = [w \in Workers |-> NoMeta]
    /\ epc = [c \in Callers |-> "out"]
    /\ eisbn = [c \in Callers |-> NoIsbn]
    /\ rpc = "sweep"
    /\ due = {}
    /\ cancelled = FALSE
    /\ editions = EmptyTable
    /\ owed = [i \in Isbns |-> "no"]
    /\ disruptions = 0

-----------------------------------------------------------------------------
(* Failures *)

Disrupt ==
    /\ disruptions < MaxDisruptions
    /\ disruptions' = disruptions + 1

NoError == UNCHANGED disruptions

(* A cancelled context makes upstream calls and Postgres calls fail for    *)
(* free; otherwise a failure is a disruption.  MemoryStore ignores the     *)
(* context and returns no error.                                           *)
UpstreamError == IF cancelled THEN NoError ELSE Disrupt
StoreError    == Durable /\ UpstreamError

(* One store write by a worker: it takes effect or fails without one.  The *)
(* worker logs the error and carries on in both cases, so an error after   *)
(* the write took effect is the first case.                                *)
Write(table) ==
    \/ editions' = table /\ NoError
    \/ UNCHANGED editions /\ StoreError

-----------------------------------------------------------------------------
(* Handlers *)

(* The handler's store call succeeded and Enqueue is called; or the row    *)
(* was written but the call reported an error (lost reply, request context *)
(* cancelled) and the handler returned without enqueueing.                 *)
EnterEnqueue(c, i) ==
    \/ /\ epc' = [epc EXCEPT ![c] = "mark"]
       /\ eisbn' = [eisbn EXCEPT ![c] = i]
       /\ NoError
    \/ Durable /\ Disrupt /\ UNCHANGED callerVars

(* Faulty variant: the ISBN is queued without creating its edition. *)
CreateRequestWithoutRow(c, i) ==
    /\ epc[c] = "out"
    /\ EnterEnqueue(c, i)
    /\ UNCHANGED <<editions, inFlight, queue, workerVars, sweepVars, cancelled, owed>>

(* Handler.enqueueEnrichment after a book with ISBN i was stored. *)
CreateRequest(c, i) ==
    /\ epc[c] = "out"
    /\ editions' = EnsureEdition(editions, i)
    /\ EnterEnqueue(c, i)
    /\ UNCHANGED <<inFlight, queue, workerVars, sweepVars, cancelled, owed>>

(* Handler.refresh of a book with ISBN i.  The refresh is owed a Lookup;   *)
(* it is raced when a worker already holds the outcome of an older one.    *)
RefreshRequest(c, i) ==
    /\ epc[c] = "out"
    /\ editions' = MarkEditionPending(editions, i)
    /\ owed' = [owed EXCEPT ![i] =
                  IF \E w \in Workers : wisbn[w] = i /\ wpc[w] \in AfterLookup
                  THEN "raced" ELSE "quiet"]
    /\ EnterEnqueue(c, i)
    /\ UNCHANGED <<inFlight, queue, workerVars, sweepVars, cancelled>>

-----------------------------------------------------------------------------
(* Enqueue *)

Return(c) ==
    /\ epc' = [epc EXCEPT ![c] = "out"]
    /\ eisbn' = [eisbn EXCEPT ![c] = NoIsbn]

(* Faulty variant: duplicates are not coalesced. *)
EnqueueMarkUnchecked(c) ==
    /\ epc[c] = "mark"
    /\ inFlight' = inFlight \cup {eisbn[c]}
    /\ epc' = [epc EXCEPT ![c] = "send"]
    /\ UNCHANGED <<editions, queue, workerVars, eisbn, sweepVars, cancelled, owed, disruptions>>

(* markInFlight: a duplicate returns, the first caller goes on to send. *)
EnqueueMark(c) ==
    /\ epc[c] = "mark"
    /\ IF eisbn[c] \in inFlight
       THEN Return(c) /\ UNCHANGED inFlight
       ELSE /\ inFlight' = inFlight \cup {eisbn[c]}
            /\ epc' = [epc EXCEPT ![c] = "send"]
            /\ UNCHANGED eisbn
    /\ UNCHANGED <<editions, queue, workerVars, sweepVars, cancelled, owed, disruptions>>

(* Faulty variant: the channel is taken to be unbounded. *)
EnqueueSendUnbounded(c) ==
    /\ epc[c] = "send"
    /\ queue' = Append(queue, eisbn[c]) /\ Return(c)
    /\ UNCHANGED <<editions, inFlight, workerVars, sweepVars, cancelled, owed, disruptions>>

(* The non-blocking send. *)
EnqueueSend(c) ==
    /\ epc[c] = "send"
    /\ IF Len(queue) < QueueSize
       THEN queue' = Append(queue, eisbn[c]) /\ Return(c)
       ELSE /\ epc' = [epc EXCEPT ![c] = "drop"]
            /\ UNCHANGED <<queue, eisbn>>
    /\ UNCHANGED <<editions, inFlight, workerVars, sweepVars, cancelled, owed, disruptions>>

(* Faulty variant: the dropped ISBN stays marked. *)
EnqueueDropLeaks(c) ==
    /\ epc[c] = "drop"
    /\ Return(c)
    /\ UNCHANGED <<editions, inFlight, queue, workerVars, sweepVars, cancelled, owed, disruptions>>

(* The default branch: unmarkInFlight. *)
EnqueueDrop(c) ==
    /\ epc[c] = "drop"
    /\ inFlight' = inFlight \ {eisbn[c]}
    /\ Return(c)
    /\ UNCHANGED <<editions, queue, workerVars, sweepVars, cancelled, owed, disruptions>>

EnqueueStep(c) == EnqueueMark(c) \/ EnqueueSend(c) \/ EnqueueDrop(c)

-----------------------------------------------------------------------------
(* The worker goroutines *)

Goto(w, stage) == wpc' = [wpc EXCEPT ![w] = stage]

(* The receive case of the select.  It may be chosen after cancellation    *)
(* too: Go picks among the ready cases at random.                          *)
Take(w) ==
    /\ wpc[w] = "idle"
    /\ queue # <<>>
    /\ wisbn' = [wisbn EXCEPT ![w] = Head(queue)]
    /\ queue' = Tail(queue)
    /\ Goto(w, "status")
    /\ UNCHANGED <<editions, inFlight, wmeta, callerVars, sweepVars, cancelled, owed, disruptions>>

(* Faulty variant: an enriched edition is fetched again. *)
ReadStatusNoSkip(w) ==
    /\ wpc[w] = "status"
    /\ Goto(w, "lookup") /\ NoError
    /\ UNCHANGED <<editions, inFlight, queue, wisbn, wmeta, callerVars, sweepVars, cancelled, owed>>

(* EditionStatus: an error or an enriched edition ends the job.  A missing *)
(* row (ok = false) does not.                                              *)
ReadStatus(w) ==
    /\ wpc[w] = "status"
    /\ \/ /\ Goto(w, IF editions[wisbn[w]].status = "enriched" THEN "unmark" ELSE "lookup")
          /\ NoError
       \/ Goto(w, "unmark") /\ StoreError
    /\ UNCHANGED <<editions, inFlight, queue, wisbn, wmeta, callerVars, sweepVars, cancelled, owed>>

(* Faulty variant: the metadata is saved before the cover is fetched. *)
LookupSavesAtOnce(w) ==
    /\ wpc[w] = "lookup"
    /\ Goto(w, "cover") /\ NoError
    /\ \E m \in Metas :
          /\ wmeta' = [wmeta EXCEPT ![w] = m]
          /\ editions' = SaveEnrichment(editions, wisbn[w], m, "enriched")
    /\ owed' = [owed EXCEPT ![wisbn[w]] = "no"]
    /\ UNCHANGED <<inFlight, queue, wisbn, callerVars, sweepVars, cancelled>>

(* provider.Lookup: metadata, no record, or a failed request.  It settles  *)
(* the refreshes accepted before it.                                       *)
Lookup(w) ==
    /\ wpc[w] = "lookup"
    /\ \/ /\ wisbn[w] \notin Missing
          /\ \E m \in Metas : wmeta' = [wmeta EXCEPT ![w] = m]
          /\ Goto(w, "cover") /\ NoError
       \/ /\ wisbn[w] \in Missing
          /\ Goto(w, "markFailed") /\ NoError /\ UNCHANGED wmeta
       \/ /\ wisbn[w] \notin Missing
          /\ Goto(w, "markFailed") /\ UpstreamError /\ UNCHANGED wmeta
    /\ owed' = [owed EXCEPT ![wisbn[w]] = "no"]
    /\ UNCHANGED <<editions, inFlight, queue, wisbn, callerVars, sweepVars, cancelled>>

(* provider.FetchCover: a cover, or none for whatever reason (ErrNoCover   *)
(* and errors are only logged).                                            *)
FetchCover(w) ==
    /\ wpc[w] = "cover"
    /\ \E stage \in {"saveCover", "saveMeta"} : Goto(w, stage)
    /\ UNCHANGED <<editions, inFlight, queue, wisbn, wmeta, callerVars, sweepVars, cancelled, owed, disruptions>>

StoreCover(w) ==
    /\ wpc[w] = "saveCover"
    /\ Write(SaveCover(editions, wisbn[w]))
    /\ Goto(w, "saveMeta")
    /\ UNCHANGED <<inFlight, queue, wisbn, wmeta, callerVars, sweepVars, cancelled, owed>>

StoreMeta(w) ==
    /\ wpc[w] = "saveMeta"
    /\ Write(SaveEnrichment(editions, wisbn[w], wmeta[w], "enriched"))
    /\ Goto(w, "unmark")
    /\ UNCHANGED <<inFlight, queue, wisbn, wmeta, callerVars, sweepVars, cancelled, owed>>

MarkFailed(w) ==
    /\ wpc[w] = "markFailed"
    /\ Write(SaveEnrichment(editions, wisbn[w], NoMeta, "failed"))
    /\ Goto(w, "unmark")
    /\ UNCHANGED <<inFlight, queue, wisbn, wmeta, callerVars, sweepVars, cancelled, owed>>

(* Faulty variant: the finished ISBN stays marked. *)
UnmarkForgotten(w) ==
    /\ wpc[w] = "unmark"
    /\ Goto(w, "idle")
    /\ wisbn' = [wisbn EXCEPT ![w] = NoIsbn]
    /\ wmeta' = [wmeta EXCEPT ![w] = NoMeta]
    /\ UNCHANGED <<editions, inFlight, queue, callerVars, sweepVars, cancelled, owed, disruptions>>

(* unmarkInFlight after process, and back to the select. *)
Unmark(w) ==
    /\ wpc[w] = "unmark"
    /\ inFlight' = inFlight \ {wisbn[w]}
    /\ Goto(w, "idle")
    /\ wisbn' = [wisbn EXCEPT ![w] = NoIsbn]
    /\ wmeta' = [wmeta EXCEPT ![w] = NoMeta]
    /\ UNCHANGED <<editions, queue, callerVars, sweepVars, cancelled, owed, disruptions>>

(* The ctx.Done() case of the select. *)
WorkerExit(w) ==
    /\ wpc[w] = "idle" /\ cancelled
    /\ Goto(w, "done")
    /\ UNCHANGED <<editions, inFlight, queue, wisbn, wmeta, callerVars, sweepVars, cancelled, owed, disruptions>>

WorkerStep(w) ==
    \/ Take(w) \/ ReadStatus(w) \/ Lookup(w) \/ FetchCover(w) \/ StoreCover(w)
    \/ StoreMeta(w) \/ MarkFailed(w) \/ Unmark(w) \/ WorkerExit(w)

-----------------------------------------------------------------------------
(* The reconciler *)

(* reconcile reads what is due; on an error this sweep is over. *)
Sweep ==
    /\ rpc = "sweep"
    /\ rpc' = "loop"
    /\ \/ due' = PendingEnrichment(editions, SweepLimit) /\ NoError
       \/ UNCHANGED due /\ StoreError
    /\ UNCHANGED <<editions, inFlight, queue, workerVars, callerVars, cancelled, owed>>

(* The loop of reconcile calls Enqueue in ISBN order. *)
SweepNext ==
    /\ rpc = "loop" /\ epc[Reconciler] = "out"
    /\ epc' = [epc EXCEPT ![Reconciler] = "mark"]
    /\ \E i \in due :
          /\ \A j \in due : i <= j
          /\ eisbn' = [eisbn EXCEPT ![Reconciler] = i]
          /\ due' = due \ {i}
    /\ UNCHANGED <<editions, inFlight, queue, workerVars, rpc, cancelled, owed, disruptions>>

SweepDone == rpc = "loop" /\ epc[Reconciler] = "out" /\ due = {}

(* The ticker fires. *)
Tick ==
    /\ SweepDone
    /\ rpc' = "sweep"
    /\ UNCHANGED <<editions, inFlight, queue, workerVars, callerVars, due, cancelled, owed, disruptions>>

(* The ctx.Done() case of the reconciler's select. *)
ReconcilerExit ==
    /\ SweepDone /\ cancelled
    /\ rpc' = "done"
    /\ UNCHANGED <<editions, inFlight, queue, workerVars, callerVars, due, cancelled, owed, disruptions>>

ReconcilerStep == Sweep \/ SweepNext \/ Tick \/ ReconcilerExit

-----------------------------------------------------------------------------
(* The process *)

(* SIGINT or SIGTERM cancels the context main passed to Run. *)
Cancel ==
    /\ ~cancelled
    /\ cancelled' = TRUE
    /\ Disrupt
    /\ UNCHANGED <<editions, inFlight, queue, workerVars, callerVars, sweepVars, owed>>

(* The process is gone, wherever its goroutines were, and NewWorker and    *)
(* Run start anew.                                                         *)
(* MemoryStore forgets the accepted refreshes with everything else.        *)
Restart ==
    /\ inFlight' = {}
    /\ queue' = <<>>
    /\ wpc' = [w \in Workers |-> "idle"]
    /\ wisbn' = [w \in Workers |-> NoIsbn]
    /\ wmeta' = [w \in Workers |-> NoMeta]
    /\ epc' = [c \in Callers |-> "out"]
    /\ eisbn' = [c \in Callers |-> NoIsbn]
    /\ rpc' = "sweep"
    /\ due' = {}
    /\ cancelled' = FALSE
    /\ editions' = AfterRestart(editions)
    /\ owed' = IF Durable THEN owed ELSE [i \in Isbns |-> "no"]

(* main returns once the HTTP server has shut down: it does not wait for   *)
(* Run to return.                                                          *)
Exit  == cancelled /\ Restart /\ NoError

Crash == Disrupt /\ Restart

-----------------------------------------------------------------------------
Next ==
    \/ \E c \in Clients, i \in Isbns : CreateRequest(c, i) \/ RefreshRequest(c, i)
    \/ \E c \in Callers : EnqueueStep(c)
    \/ \E w \in Workers : WorkerStep(w)
    \/ ReconcilerStep
    \/ Cancel
    \/ Exit
    \/ Crash

Spec == Init /\ [][Next]_vars

(* Every goroutine that can run does; the ticker keeps ticking; a process  *)
(* told to stop stops.  Requests and disruptions are never forced.         *)
Fairness ==
    /\ \A c \in Callers : WF_vars(EnqueueStep(c))
    /\ \A w \in Workers : WF_vars(WorkerStep(w))
    /\ WF_vars(ReconcilerStep)
    /\ WF_vars(Exit)

FairSpec == Spec /\ Fairness

-----------------------------------------------------------------------------
(* Properties *)

Busy(w)    == wpc[w] \notin {"idle", "done"}
Holding(c) == epc[c] \in {"send", "drop"}

(* The in-flight map does its job (worker.go, Worker: "the same ISBN is    *)
(* never fetched twice concurrently"): no two worker goroutines are        *)
(* between the status check and the save of the same ISBN.                 *)
OneFetchPerIsbn ==
    \A w1, w2 \in Workers :
        w1 # w2 /\ wpc[w1] \in FetchStages /\ wpc[w2] \in FetchStages
            => wisbn[w1] # wisbn[w2]

(* No mark outlives its job: an ISBN in the in-flight map is queued, being *)
(* processed, or about to be sent or dropped by a caller of Enqueue.  A    *)
(* leaked mark would make every later Enqueue of it a no-op, sweeps too.   *)
NoLeakedMark ==
    \A i \in inFlight :
        \/ \E k \in 1..Len(queue) : queue[k] = i
        \/ \E w \in Workers : Busy(w) /\ wisbn[w] = i
        \/ \E c \in Callers : Holding(c) /\ eisbn[c] = i

(* process saves the cover before flipping the edition to enriched         *)
(* ("readers never see enriched metadata with the cover still missing"):   *)
(* while a job still has its cover to fetch or save, or its metadata to    *)
(* save, nobody sees the edition enriched, whatever the other workers, the *)
(* refreshes and the sweeps do.                                            *)
CoverBeforeEnriched ==
    \A w \in Workers :
        wpc[w] \in {"cover", "saveCover", "saveMeta"}
            => editions[wisbn[w]].status # "enriched"

(* Every ISBN on its way to a worker or at one has an edition row, so the  *)
(* ok = false case of process's status check never proceeds to a fetch and *)
(* the foreign key of book_covers never refuses a cover.                   *)
QueuedHaveRow ==
    /\ \A k \in 1..Len(queue) : HasRow(editions, queue[k])
    /\ \A w \in Workers : Busy(w) => HasRow(editions, wisbn[w])
    /\ \A c \in Callers : epc[c] # "out" => HasRow(editions, eisbn[c])

(* A refresh accepted while no worker holds an older lookup result of that *)
(* ISBN keeps the edition pending until a new Lookup, even across drops,   *)
(* coalescing, errors and restarts.                                        *)
QuietRefreshStaysPending ==
    \A i \in Isbns : owed[i] = "quiet" => editions[i].status = "pending"

(* What handlers.go says of every refresh ("Force the shared edition back  *)
(* to pending so the worker re-fetches even if it was already enriched"):  *)
(* an edition is not enriched while a refresh of it awaits its Lookup.     *)
RefreshRefetches ==
    \A i \in Isbns : owed[i] # "no" => editions[i].status # "enriched"

(* SaveEnrichment with nil metadata, MarkEditionPending and EnsureEdition  *)
(* keep what an edition already has: with a durable store, metadata, cover *)
(* flag and cover bytes are replaced but never lost, whatever fails or     *)
(* restarts.                                                               *)
EnrichmentNeverErased ==
    [][Durable => \A i \in Isbns :
          /\ editions[i].hasCover => editions'[i].hasCover
          /\ editions[i].bytes => editions'[i].bytes
          /\ editions[i].meta # NoMeta => editions'[i].meta # NoMeta]_vars

(* The abstract state: the ISBNs between status check and save. *)
Fetching == {wisbn[w] : w \in {v \in Workers : wpc[v] \in FetchStages}}

Lifecycle == INSTANCE EditionLifecycle WITH fetching <- Fetching

(* The worker implements the edition lifecycle: queue, in-flight map,      *)
(* sweeps and failures are invisible in the editions table beyond what     *)
(* EditionLifecycle allows.                                                *)
ImplementsLifecycle == Lifecycle!LifecycleSpec

(* worker.go: "If the queue is full the ISBN is dropped; the reconciler    *)
(* will pick it up on its next sweep, so nothing is permanently lost": a   *)
(* pending edition does not stay pending for ever once requests stop.      *)
NothingPermanentlyLost ==
    <>[](\A c \in Clients : epc[c] = "out")
        => \A i \in Isbns : editions[i].status = "pending" ~> editions[i].status # "pending"

(* The backstop as the code provides it: once requests stop, no edition    *)
(* stays pending for ever while it is among the SweepLimit smallest due    *)
(* ISBNs that a sweep returns, though its ISBN was dropped by a full       *)
(* queue, lost in a restart or failed to be read.  It needs a queue that   *)
(* holds a whole sweep (128 and 100 in the code): with a smaller one the   *)
(* end of every sweep may be dropped.                                      *)
Backstop ==
    <>[](\A c \in Clients : epc[c] = "out")
        => \A i \in Isbns :
              ~<>[](/\ editions[i].status = "pending"
                    /\ i \in PendingEnrichment(editions, SweepLimit))
=============================================================================
