--------------------------- MODULE SearchEndpoint ---------------------------
(***************************************************************************)
(* GET /search of internal/search/handlers.go: overlapping requests, each  *)
(* a goroutine that reads the result cache, calls Open Library under a     *)
(* deadline and stores the answer, and the bounded TTL cache they share.   *)
(* How Search retries within the deadline is the business of Provider;     *)
(* here it succeeds, fails or is cut off by the deadline.                  *)
(*                                                                         *)
(* Time is counted in ticks and kept relative: how long a request has run, *)
(* how long an entry has left, how old an answer is.  Steps that need no   *)
(* waiting take no time.                                                   *)
(***************************************************************************)
EXTENDS Isbn, Integers

CONSTANTS
    Searches,       \* request goroutines
    Queries,        \* what users type: [words, spelling, limit]
    Blank,          \* the words of a query of spaces only
    Answers,        \* what Open Library may answer: a list of works, each
                    \* the list of its ISBNs
    CacheMaxSize,   \* cacheMaxSize
    CacheTTL,       \* cacheTTL, in ticks
    Timeout         \* Handler.timeout, in ticks

ASSUME SearchEndpointAssumption ==
    /\ CacheMaxSize \in Nat \ {0}
    /\ CacheTTL \in Nat
    /\ Timeout \in Nat
    /\ \A q \in Queries : q.limit \in Nat
    /\ \A a \in Answers : a \in Seq(Seq(Texts))

(* Faulty variant: the limit is not part of the key. *)
CacheKeyWithoutLimit(q) == [words |-> q.words]

(* cacheKey folds case and spacing, and keeps the limit. *)
CacheKey(q) == [words |-> q.words, limit |-> q.limit]

Keys == {CacheKey(q) : q \in Queries}

VARIABLES
    entries,    \* resultCache.entries
    spc,        \* where each request is
    search,     \* its local variables
    response    \* the last response sent, and what it was asked

searchVars == <<entries, spc, search, response>>

(* Search: the works without a usable ISBN are skipped; the n-th hit is    *)
(* that of the n-th usable work.                                           *)
UsableIn(answer) == {k \in DOMAIN answer : PickISBN(answer[k]) # NoText}
Nth(ks, n)       == CHOOSE k \in ks : Cardinality({j \in ks : j <= k}) = n
HitsOf(answer)   ==
    [n \in 1..Cardinality(UsableIn(answer)) |-> PickISBN(answer[Nth(UsableIn(answer), n)])]

AllHits == {HitsOf(a) : a \in Answers} \cup {<<>>}

(* `left` is the time to expiresAt, negative once it is past; `age` is the *)
(* time since Open Library gave the answer (history).                      *)
Entries  == [hits : AllHits, left : -1..CacheTTL, age : Nat]
NoEntry  == [left |-> -2]
NoSearch == [elapsed |-> 0]

SearchTypeOK ==
    /\ entries \in [Keys -> Entries \cup {NoEntry}]
    /\ \A s \in Searches :
          \/ spc[s] = "idle" /\ search[s] = NoSearch
          \/ spc[s] = "calling" /\ search[s] \in [query : Queries, elapsed : 0..Timeout]
          \/ spc[s] = "answered"
             /\ search[s] \in [query : Queries, elapsed : 0..Timeout,
                               hits : AllHits, age : 0..Timeout]
    /\ response \in [code : {0, 200, 502, 504}, limit : Nat, hits : AllHits, age : Nat]

SearchInit ==
    /\ entries = [k \in Keys |-> NoEntry]
    /\ spc = [s \in Searches |-> "idle"]
    /\ search = [s \in Searches |-> NoSearch]
    /\ response = [code |-> 0, limit |-> 0, hits |-> <<>>, age |-> 0]

-----------------------------------------------------------------------------
(* The cache *)

Stored(es)  == {k \in Keys : es[k] # NoEntry}
Expired(es) == {k \in Stored(es) : es[k].left < 0}

(* Faulty variant: an expired entry is still served. *)
CacheHitForever(k) == entries[k] # NoEntry

(* get: an entry is served up to and including the time it expires. *)
CacheHit(k) == entries[k] # NoEntry /\ entries[k].left >= 0

Without(es, ks) == [k \in Keys |-> IF k \in ks THEN NoEntry ELSE es[k]]

(* Faulty variant: room is only made once the cache is over its limit. *)
MadeRoomLate ==
    {LET kept == Without(entries, Expired(entries))
     IN IF Cardinality(Stored(entries)) > CacheMaxSize THEN kept ELSE entries}

(* Faulty variant: any entry is evicted. *)
MadeRoomAnyhow ==
    IF Cardinality(Stored(entries)) < CacheMaxSize THEN {entries}
    ELSE {Without(entries, {k}) : k \in Stored(entries)}

(* The first half of put: a full cache drops what has expired and, if it   *)
(* is still full, the entry nearest to expiry.  Map order decides ties.    *)
MadeRoom ==
    LET kept == Without(entries, Expired(entries))
        oldest == {k \in Stored(kept) : \A j \in Stored(kept) : kept[k].left <= kept[j].left}
    IN CASE Cardinality(Stored(entries)) < CacheMaxSize -> {entries}
         [] Cardinality(Stored(entries)) >= CacheMaxSize
            /\ Cardinality(Stored(kept)) < CacheMaxSize -> {kept}
         [] OTHER -> {Without(kept, {k}) : k \in oldest}

(* put *)
Put(k, hits, age) ==
    \E room \in MadeRoom :
        entries' = [room EXCEPT ![k] = [hits |-> hits, left |-> CacheTTL, age |-> age]]

-----------------------------------------------------------------------------
(* The handler *)

Respond(s, code, limit, hits, age) ==
    /\ spc' = [spc EXCEPT ![s] = "idle"]
    /\ search' = [search EXCEPT ![s] = NoSearch]
    /\ response' = [code |-> code, limit |-> limit, hits |-> hits, age |-> age]

(* search up to the upstream call: a hit is answered at once. *)
Arrive(s, q) ==
    /\ spc[s] = "idle"
    /\ IF CacheHit(CacheKey(q))
       THEN Respond(s, 200, q.limit, entries[CacheKey(q)].hits, entries[CacheKey(q)].age)
       ELSE /\ spc' = [spc EXCEPT ![s] = "calling"]
            /\ search' = [search EXCEPT ![s] = [query |-> q, elapsed |-> 0]]
            /\ UNCHANGED response
    /\ UNCHANGED entries

(* Open Library answers, with at most `limit` works; the reply is on its   *)
(* way.  Search of a blank query returns no results without asking.        *)
Answer(s) ==
    /\ spc[s] = "calling"
    /\ LET q == search[s].query
       IN \E a \in IF q.words = Blank THEN {<<>>} ELSE {b \in Answers : Len(b) <= q.limit} :
             search' = [search EXCEPT ![s] = [query |-> q, elapsed |-> @.elapsed,
                                              hits |-> HitsOf(a), age |-> 0]]
    /\ spc' = [spc EXCEPT ![s] = "answered"]
    /\ UNCHANGED <<entries, response>>

(* Search returns its results: put and respond. *)
Receive(s) ==
    /\ spc[s] = "answered"
    /\ LET r == search[s]
       IN /\ Put(CacheKey(r.query), r.hits, r.age)
          /\ Respond(s, 200, r.query.limit, r.hits, r.age)

(* Search is waiting for Open Library, which a blank query does not do. *)
Upstream(s) == spc[s] \in {"calling", "answered"} /\ search[s].query.words # Blank

(* Search returns context.DeadlineExceeded. *)
TimeOut(s) ==
    /\ Upstream(s)
    /\ search[s].elapsed = Timeout
    /\ Respond(s, 504, search[s].query.limit, <<>>, 0)
    /\ UNCHANGED entries

(* Search returns any other error, before or after the answer. *)
Fail(s) ==
    /\ Upstream(s)
    /\ Respond(s, 502, search[s].query.limit, <<>>, 0)
    /\ UNCHANGED entries

(* Faulty variant: the upstream call has no deadline. *)
TickWithoutDeadline ==
    /\ search' = [s \in Searches |->
          CASE spc[s] = "idle"     -> search[s]
            [] spc[s] = "calling"  -> [search[s] EXCEPT !.elapsed = @ + 1]
            [] spc[s] = "answered" -> [search[s] EXCEPT !.elapsed = @ + 1, !.age = @ + 1]]
    /\ UNCHANGED <<entries, spc, response>>

(* Time passes.  No request outlives its deadline; entries stay in the map *)
(* after they expire.                                                      *)
Tick ==
    /\ \A s \in Searches : spc[s] # "idle" => search[s].elapsed < Timeout
    /\ entries' = [k \in Keys |->
          IF entries[k] = NoEntry \/ entries[k].left < 0 THEN entries[k]
          ELSE [entries[k] EXCEPT !.left = @ - 1, !.age = @ + 1]]
    /\ search' = [s \in Searches |->
          CASE spc[s] = "idle"     -> search[s]
            [] spc[s] = "calling"  -> [search[s] EXCEPT !.elapsed = @ + 1]
            [] spc[s] = "answered" -> [search[s] EXCEPT !.elapsed = @ + 1, !.age = @ + 1]]
    /\ UNCHANGED <<spc, response>>

SearchStep(s) == Answer(s) \/ Receive(s) \/ TimeOut(s) \/ Fail(s)

SearchNext ==
    \/ \E s \in Searches : SearchStep(s) \/ \E q \in Queries : Arrive(s, q)
    \/ Tick

SearchSpec == SearchInit /\ [][SearchNext]_searchVars

-----------------------------------------------------------------------------
(* Properties *)

(* "Bounded so a long session cannot grow it without limit" (put), however *)
(* many requests that missed store their answers one after the other.      *)
CacheBounded == Cardinality(Stored(entries)) <= CacheMaxSize

(* "short enough that a corrected catalogue entry shows up the same        *)
(* session" (cacheTTL): no response, from the cache or not, shows an       *)
(* answer Open Library gave longer ago than one TTL and one deadline, even *)
(* when a slow request overwrites the newer answer of a faster one.        *)
AnswersAreRecent == response.code = 200 => response.age <= CacheTTL + Timeout

(* No caller is shown more suggestions than it asked for, whatever limit   *)
(* the request that filled the cache had.                                  *)
LimitRespected == Len(response.hits) <= response.limit

(* put "evict[s] the nearest to expiry, which is the least recently        *)
(* stored": an answer that could still be served is dropped only one at a  *)
(* time, by a full cache, and never before an expired or an older one.     *)
EvictsOldestOnly ==
    [][\A k \in Stored(entries) \ Expired(entries) : entries'[k] = NoEntry =>
          /\ Cardinality(Stored(entries)) = CacheMaxSize
          /\ \A j \in Stored(entries) \ {k} :
                /\ entries'[j] # NoEntry
                /\ entries[k].left <= entries'[j].left]_searchVars

(* A suggestion that POST /books accepts is stored exactly as it was shown *)
(* ("lands on the same edition row"), and the database's own check agrees. *)
HitsKeyTheirEdition ==
    \A k \in DOMAIN response.hits :
        LET isbn == InputISBN(response.hits[k])
        IN isbn # NoText => isbn = response.hits[k] /\ BooksIsbnShape(isbn)

(* search-editions: "Results carry an ISBN, which is all POST /books       *)
(* needs": every suggestion shown can be posted.                           *)
HitsArePostable ==
    \A k \in DOMAIN response.hits : InputISBN(response.hits[k]) # NoText
=============================================================================
