------------------------------ MODULE Provider ------------------------------
(***************************************************************************)
(* One call of the upstream providers of internal/enrich: Lookup and       *)
(* FetchCover of FallbackProvider over OpenLibraryProvider and             *)
(* GoogleBooksProvider, as the worker calls them, and Search of            *)
(* OpenLibraryProvider, as the search handler calls it under a deadline;   *)
(* below them httpGetWithRetry, attempt by attempt.  Calls share nothing,  *)
(* so one caller is enough.                                                *)
(*                                                                         *)
(* Time is counted in ticks since the call and since the attempt or the    *)
(* backoff began.  The catalogues and the network are external: at every   *)
(* moment of an attempt they may answer, refuse, fail or stay silent.      *)
(***************************************************************************)
EXTENDS Naturals

CONSTANTS
    ClientTimeout,  \* http.Client.Timeout: connection, headers and body
    BackoffUnit,    \* the 200 ms of the backoff
    SearchTimeout   \* the deadline the search handler puts on its context

ASSUME ProviderAssumption ==
    /\ ClientTimeout \in Nat
    /\ BackoffUnit \in Nat
    /\ SearchTimeout \in Nat \ {0}

MaxAttempts == 3
Ops     == {"Lookup", "FetchCover", "Search"}
Sources == {"openlibrary", "googlebooks"}

(* What the catalogues have for the ISBN of the call.  Google Books has no *)
(* cover without a record that links to it; the link may lead to an empty  *)
(* image, which is no cover.  Open Library needs no link.                  *)
Holdings == {h \in [Sources -> [record : BOOLEAN, link : BOOLEAN, cover : BOOLEAN]] :
                /\ h["googlebooks"].cover => h["googlebooks"].link
                /\ h["googlebooks"].link => h["googlebooks"].record
                /\ ~h["openlibrary"].link}

(* errors.Is of the error returned, and "found" for none. *)
Outcomes == {"found", "ErrNotFound", "ErrNoCover", "deadline", "canceled", "failed"}

VARIABLES
    op,         \* the operation in progress or last finished
    holds,      \* what the catalogues hold
    source,     \* the provider being asked
    get,        \* what is fetched from it: its record or its cover image
    attempt,    \* the attempt of httpGetWithRetry
    pc,         \* idle, or where in the attempt
    timer,      \* ticks of this attempt or backoff
    elapsed,    \* ticks of this call
    ctx,        \* the caller's context: live, deadline or canceled
    result,     \* what the call returned
    sent,       \* history: requests sent to each provider
    gaveUp      \* history: providers whose failure was not a verdict

getVars  == <<source, get, attempt, pc, timer, result>>
histVars == <<sent, gaveUp>>
providerVars == <<op, holds, getVars, elapsed, ctx, histVars>>

ProviderTypeOK ==
    /\ op \in Ops
    /\ holds \in Holdings
    /\ source \in Sources
    /\ get \in {"record", "cover"}
    /\ attempt \in 1..MaxAttempts
    /\ pc \in {"idle", "send", "wait", "read", "backoff"}
    /\ timer \in Nat
    /\ elapsed \in Nat
    /\ ctx \in {"live", "deadline", "canceled"}
    /\ result \in Outcomes \cup {"none"}
    /\ sent \in [Sources -> Nat]
    /\ gaveUp \in SUBSET Sources

FirstGet(o) == IF o = "FetchCover" THEN "cover" ELSE "record"

ProviderInit ==
    /\ op = "Lookup"
    /\ holds = [s \in Sources |-> [record |-> FALSE, link |-> FALSE, cover |-> FALSE]]
    /\ source = "openlibrary" /\ get = "record" /\ attempt = 1
    /\ pc = "idle" /\ timer = 0 /\ elapsed = 0
    /\ ctx = "live" /\ result = "none"
    /\ sent = [s \in Sources |-> 0] /\ gaveUp = {}

(* A caller begins an operation.  Search of a catalogue always has a list  *)
(* to return, if an empty one.                                             *)
Call(o, h) ==
    /\ pc = "idle"
    /\ op' = o /\ holds' = h
    /\ source' = "openlibrary" /\ get' = FirstGet(o) /\ attempt' = 1
    /\ pc' = "send" /\ timer' = 0 /\ elapsed' = 0
    /\ ctx' = "live" /\ result' = "none"
    /\ sent' = [s \in Sources |-> 0] /\ gaveUp' = {}

-----------------------------------------------------------------------------
(* The end of a GET *)

StartGet(s, g) ==
    /\ source' = s /\ get' = g /\ attempt' = 1
    /\ pc' = "send" /\ timer' = 0
    /\ UNCHANGED result

Return(outcome) ==
    /\ pc' = "idle" /\ timer' = 0
    /\ result' = outcome
    /\ UNCHANGED <<source, get, attempt>>

(* Faulty variant: only a verdict of the primary is followed up. *)
ConcludeOnMissOnly(outcome) ==
    IF op # "Search" /\ source = "openlibrary" /\ outcome \in {"ErrNotFound", "ErrNoCover"}
    THEN StartGet("googlebooks", "record")
    ELSE Return(outcome)

(* The provider's method returns.  FallbackProvider answers any error of   *)
(* the primary by asking the secondary, and returns what that says.        *)
Conclude(outcome) ==
    IF op # "Search" /\ source = "openlibrary" /\ outcome # "found"
    THEN StartGet("googlebooks", "record")
    ELSE Return(outcome)

(* Faulty variant: one attempt too many. *)
AttemptFailedOnceMore(err) ==
    IF attempt <= MaxAttempts
    THEN pc' = "backoff" /\ timer' = 0 /\ UNCHANGED <<source, get, attempt, result>>
    ELSE Conclude(err)

(* A failed attempt is followed by a backoff, the last one by its error.   *)
AttemptFailed(err) ==
    IF attempt < MaxAttempts
    THEN pc' = "backoff" /\ timer' = 0 /\ UNCHANGED <<source, get, attempt, result>>
    ELSE Conclude(err)

(* History: the provider failed, in its last attempt or without a retry.   *)
GaveUp == gaveUp' = gaveUp \cup {source}
GaveUpIfLast == IF attempt < MaxAttempts THEN UNCHANGED gaveUp ELSE GaveUp

-----------------------------------------------------------------------------
(* httpGetWithRetry *)

(* client.Do: on a context that is over nothing is sent. *)
Send ==
    /\ pc = "send"
    /\ \/ /\ ctx = "live"
          /\ pc' = "wait" /\ timer' = 0
          /\ sent' = [sent EXCEPT ![source] = @ + 1]
          /\ UNCHANGED <<source, get, attempt, result>>
       \/ /\ ctx # "live"
          /\ AttemptFailed(ctx)
          /\ UNCHANGED sent
    /\ UNCHANGED <<op, holds, elapsed, ctx, gaveUp>>

(* Network error, 429 or 5xx. *)
Transient ==
    /\ pc = "wait"
    /\ AttemptFailed("failed") /\ GaveUpIfLast
    /\ UNCHANGED <<op, holds, elapsed, ctx, sent>>

(* The client's time is up, or the context's: net/http reports both as the *)
(* context errors.  While the body is read there is no further attempt.    *)
CutOff ==
    /\ pc \in {"wait", "read"}
    /\ \E err \in Outcomes :
          /\ \/ timer >= ClientTimeout /\ err = "deadline"
             \/ ctx # "live" /\ err = ctx
          /\ \/ pc = "wait" /\ AttemptFailed(err) /\ GaveUpIfLast
             \/ pc = "read" /\ Conclude(err) /\ GaveUp
    /\ UNCHANGED <<op, holds, elapsed, ctx, sent>>

(* Status 200: the body is read next. *)
Headers ==
    /\ pc = "wait"
    /\ pc' = "read"
    /\ UNCHANGED <<op, holds, source, get, attempt, timer, result, elapsed, ctx, histVars>>

(* 404 of Open Library's covers, which have no image. *)
NoImage ==
    /\ pc = "wait" /\ source = "openlibrary" /\ get = "cover"
    /\ ~holds[source].cover
    /\ Conclude("ErrNoCover")
    /\ UNCHANGED <<op, holds, elapsed, ctx, histVars>>

(* Faulty variant: whatever cannot be used is taken for a miss. *)
UnusableIsMiss ==
    /\ pc \in {"wait", "read"}
    /\ Conclude("ErrNotFound") /\ GaveUp
    /\ UNCHANGED <<op, holds, elapsed, ctx, sent>>

(* Any other status, a body that breaks off or does not decode, an image   *)
(* over coverMaxBytes: an error without a retry.                           *)
Unusable ==
    /\ pc \in {"wait", "read"}
    /\ Conclude("failed") /\ GaveUp
    /\ UNCHANGED <<op, holds, elapsed, ctx, sent>>

(* What is made of a body that was read to its end. *)
LookupBody ==
    /\ op = "Lookup" /\ source = "openlibrary"
    /\ Conclude(IF holds[source].record THEN "found" ELSE "ErrNotFound")

(* Google Books looks the volume up for the link to its cover, too. *)
VolumeBody ==
    /\ source = "googlebooks" /\ get = "record"
    /\ LET h == holds[source]
       IN \/ ~h.record /\ Conclude("ErrNotFound")
          \/ h.record /\ op = "Lookup" /\ Conclude("found")
          \/ h.record /\ op = "FetchCover" /\ ~h.link /\ Conclude("ErrNoCover")
          \/ h.link /\ op = "FetchCover" /\ StartGet(source, "cover")

(* A body of no bytes is no cover. *)
ImageBody ==
    /\ get = "cover"
    /\ Conclude(IF holds[source].cover THEN "found" ELSE "ErrNoCover")

SearchBody == op = "Search" /\ Conclude("found")

Body ==
    /\ pc = "read"
    /\ LookupBody \/ VolumeBody \/ ImageBody \/ SearchBody
    /\ UNCHANGED <<op, holds, elapsed, ctx, histVars>>

(* Faulty variant: the backoff sleeps through the end of the context. *)
BackoffOverDeaf == timer >= attempt * attempt * BackoffUnit

(* The cases of the select. *)
BackoffOver == timer >= attempt * attempt * BackoffUnit \/ ctx # "live"

(* Faulty variant: the select waits for the end of the context only. *)
BackoffUntilDone ==
    /\ pc = "backoff" /\ ctx # "live"
    /\ Conclude(ctx)
    /\ UNCHANGED <<op, holds, elapsed, ctx, histVars>>

Backoff ==
    /\ pc = "backoff"
    /\ BackoffOver
    /\ \/ /\ timer >= attempt * attempt * BackoffUnit
          /\ attempt' = attempt + 1
          /\ pc' = "send" /\ timer' = 0
          /\ UNCHANGED <<source, get, result>>
       \/ ctx # "live" /\ Conclude(ctx)
    /\ UNCHANGED <<op, holds, elapsed, ctx, histVars>>

-----------------------------------------------------------------------------
(* Time and the caller *)

(* Nothing waits longer than it has to. *)
Due ==
    \/ pc \in {"idle", "send"}
    \/ pc \in {"wait", "read"} /\ (timer >= ClientTimeout \/ ctx # "live")
    \/ pc = "backoff" /\ BackoffOver

Tick ==
    /\ ~Due
    /\ timer' = timer + 1
    /\ elapsed' = elapsed + 1
    /\ ctx' = IF op = "Search" /\ ctx = "live" /\ elapsed + 1 >= SearchTimeout
              THEN "deadline" ELSE ctx
    /\ UNCHANGED <<op, holds, source, get, attempt, pc, result, histVars>>

(* The process is told to stop, or the client of a search goes away. *)
Cancel ==
    /\ pc # "idle" /\ ctx = "live"
    /\ ctx' = "canceled"
    /\ UNCHANGED <<op, holds, getVars, elapsed, histVars>>

Progress ==
    \/ Send \/ Transient \/ CutOff \/ Headers \/ NoImage \/ Unusable \/ Body
    \/ Backoff \/ Tick

ProviderNext ==
    \/ \E o \in Ops, h \in Holdings : Call(o, h)
    \/ Progress
    \/ Cancel

ProviderSpec == ProviderInit /\ [][ProviderNext]_providerVars

(* Goroutines run and time passes; nobody has to call or to cancel, and    *)
(* no catalogue has to answer.                                             *)
ProviderFairSpec == ProviderSpec /\ WF_providerVars(Progress)

-----------------------------------------------------------------------------
(* Properties *)

Asked(s) == IF op = "FetchCover" THEN holds[s].cover ELSE holds[s].record
Consulted == IF op = "Search" THEN {} ELSE Sources

(* The longest one GET can take. *)
GetBudget == MaxAttempts * ClientTimeout + 5 * BackoffUnit

(* How many GETs an operation makes, and how many of them of one provider. *)
GetsOf(o) == CASE o = "Lookup" -> 2 [] o = "FetchCover" -> 3 [] o = "Search" -> 1

(* Why there are two sources ("no single source has full coverage"): when  *)
(* Lookup or FetchCover returns an error to a caller that is still there,  *)
(* every provider that holds what was asked for was asked and could not be *)
(* heard.                                                                  *)
FindsWhatIsHeld ==
    pc = "idle" /\ result \notin {"none", "found"} /\ ctx = "live"
        => \A s \in Consulted : Asked(s) => s \in gaveUp

(* ErrNotFound and ErrNoCover are what a catalogue said and never what a   *)
(* failed connection left over: the last provider asked does not have it.  *)
VerdictIsReal ==
    pc = "idle" /\ result \in {"ErrNotFound", "ErrNoCover"} => ~Asked("googlebooks")

(* A cancelled or slow call ends in time: a search by its deadline ("must  *)
(* fail fast"), a Lookup or FetchCover after three attempts and two        *)
(* backoffs per GET; and no GET is ever sent more than three times.        *)
BoundedEffort ==
    /\ elapsed <= GetsOf(op) * GetBudget
    /\ op = "Search" => elapsed <= SearchTimeout
    /\ sent["openlibrary"] <= MaxAttempts
    /\ sent["googlebooks"] <= (GetsOf(op) - 1) * MaxAttempts

(* Every call returns, though catalogues may stay silent for ever.         *)
CallReturns == pc # "idle" ~> pc = "idle"
=============================================================================
