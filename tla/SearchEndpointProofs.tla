------------------------ MODULE SearchEndpointProofs ------------------------
(***************************************************************************)
(* Proofs about the search endpoint and its result cache, for any number   *)
(* of overlapping requests, any queries and answers, and any cache size,   *)
(* TTL and deadline.                                                       *)
(***************************************************************************)
EXTENDS SearchEndpoint, IsbnProofs, FiniteSetTheorems

Calling  == [query : Queries, elapsed : 0..Timeout]
Answered == [query : Queries, elapsed : 0..Timeout, hits : AllHits, age : 0..Timeout]

(* The parts of SearchTypeOK; every request has its own local variables. *)
RequestsTyped ==
    /\ spc \in [Searches -> {"idle", "calling", "answered"}]
    /\ search \in [Searches -> {NoSearch} \cup Calling \cup Answered]
    /\ \A s \in Searches : /\ spc[s] = "idle" => search[s] = NoSearch
                           /\ spc[s] = "calling" => search[s] \in Calling
                           /\ spc[s] = "answered" => search[s] \in Answered
CacheTyped == entries \in [Keys -> Entries \cup {NoEntry}]
ResponseTyped ==
    response \in [code : {0, 200, 502, 504}, limit : Nat, hits : AllHits, age : Nat]

(* An entry was stored with at most one deadline on its answer's age and   *)
(* has aged since by what its TTL has lost; it is no longer than its key   *)
(* allows.                                                                 *)
EntriesFit ==
    \A k \in Stored(entries) :
        /\ entries[k].age + entries[k].left <= CacheTTL + Timeout
        /\ Len(entries[k].hits) <= k.limit

(* An answer is not older than the request that it answers, and not longer *)
(* than the request asked for.                                             *)
RequestsFit ==
    \A s \in Searches : spc[s] = "answered" =>
        /\ search[s].age <= search[s].elapsed
        /\ Len(search[s].hits) <= search[s].query.limit

(* There are never more than cacheMaxSize entries.  (Stated with           *)
(* IsFiniteSet: the queries need not be finitely many.)                    *)
CacheFits == IsFiniteSet(Stored(entries)) /\ CacheBounded

SearchInv ==
    /\ CacheTyped
    /\ RequestsTyped
    /\ ResponseTyped
    /\ EntriesFit
    /\ RequestsFit
    /\ CacheFits
    /\ AnswersAreRecent
    /\ LimitRespected

-----------------------------------------------------------------------------
(* Suggestions *)

(* A set of positions has an n-th member for each n up to its size: the    *)
(* least position that n members have been passed at is one of them.       *)
LEMMA NthFacts ==
    ASSUME NEW N \in Nat, NEW ks \in SUBSET (1..N), NEW n \in 1..Cardinality(ks)
    PROVE  Nth(ks, n) \in ks
<1> DEFINE Upto(m) == {j \in ks : j <= m}
<1> DEFINE Reached == {m \in Nat : Cardinality(Upto(m)) >= n}
<1>1. IsFiniteSet(ks)
  <2>1. IsFiniteSet(1..N)
      BY FS_Interval
  <2> QED
      BY <2>1, FS_Subset
<1>2. \A j \in ks : j \in Nat /\ 1 <= j /\ j <= N
    OBVIOUS
<1>3. \A m \in Nat : IsFiniteSet(Upto(m)) /\ Cardinality(Upto(m)) \in Nat
  <2> TAKE m \in Nat
  <2>1. Upto(m) \in SUBSET ks
      OBVIOUS
  <2> HIDE DEF Upto
  <2>2. IsFiniteSet(Upto(m))
      BY <1>1, <2>1, FS_Subset
  <2> QED
      BY <2>2, FS_CardinalityType
<1>4. n \in Nat /\ 1 <= n /\ Cardinality(ks) \in Nat /\ n <= Cardinality(ks)
    BY <1>1, FS_CardinalityType
<1>5. Reached \in SUBSET Nat /\ Reached # {}
  <2>1. Upto(N) = ks
      BY <1>2
  <2>2. Cardinality(Upto(N)) >= n
      BY <1>4, <2>1
  <2> HIDE DEF Upto
  <2> QED
      BY <2>2
<1>6. PICK m \in Reached : \A i \in Reached : m <= i
  <2> HIDE DEF Reached
  <2> QED
      BY <1>5, LeastNumber
<1>7. m \in Nat /\ Cardinality(Upto(m)) >= n
    BY <1>6
<1>8. m # 0
  <2>1. Upto(0) = {}
    <3>1. \A j \in ks : ~(j <= 0)
        BY <1>2
    <3> QED
        BY <3>1, Zenon
  <2>2. Cardinality(Upto(0)) = 0
      BY <2>1, FS_EmptySet
  <2> HIDE DEF Upto
  <2> QED
      BY <1>4, <1>7, <2>2
<1>9. m - 1 \in Nat /\ Cardinality(Upto(m - 1)) < n
  <2>1. m - 1 \in Nat
      BY <1>7, <1>8
  <2>2. m - 1 \notin Reached
    <3> HIDE DEF Reached
    <3> QED
        BY <1>6, <1>7, <2>1
  <2>3. Cardinality(Upto(m - 1)) \in Nat
      BY <1>3, <2>1
  <2> HIDE DEF Upto
  <2> QED
      BY <1>4, <2>1, <2>2, <2>3
<1>10. \A j \in ks : j <= m <=> j <= m - 1 \/ j = m
    BY <1>2, <1>7
<1>11. m \in ks
  <2>1. SUFFICES ASSUME m \notin ks PROVE FALSE
      OBVIOUS
  <2>2. Upto(m) = Upto(m - 1)
      BY <1>10, <2>1, Zenon
  <2>3. Cardinality(Upto(m - 1)) \in Nat
      BY <1>3, <1>9
  <2> HIDE DEF Upto
  <2> QED
      BY <1>4, <1>7, <1>9, <2>2, <2>3
<1>12. Cardinality(Upto(m)) = n
  <2>1. Upto(m) = Upto(m - 1) \cup {m}
      BY <1>10, <1>11, Zenon
  <2>2. m \notin Upto(m - 1)
      BY <1>7
  <2>3. IsFiniteSet(Upto(m - 1)) /\ Cardinality(Upto(m - 1)) \in Nat
      BY <1>3, <1>9
  <2> HIDE DEF Upto
  <2>4. Cardinality(Upto(m)) = Cardinality(Upto(m - 1)) + 1
      BY <2>1, <2>2, <2>3, FS_AddElement
  <2> QED
      BY <1>4, <1>7, <1>9, <2>3, <2>4
<1> QED
    BY <1>11, <1>12 DEF Nth

(* Search suggests at most one text per work, and only clean ones. *)
LEMMA HitsFacts ==
    ASSUME NEW a \in Seq(Seq(Texts))
    PROVE  /\ HitsOf(a) \in Seq(Texts)
           /\ Len(HitsOf(a)) <= Len(a)
           /\ \A n \in 1..Len(HitsOf(a)) :
                 /\ Clean(HitsOf(a)[n])
                 /\ \E k \in DOMAIN a : PickISBN(a[k]) # NoText /\ HitsOf(a)[n] = PickISBN(a[k])
<1> DEFINE ks == UsableIn(a)
<1>1. Len(a) \in Nat /\ ks \in SUBSET (1..Len(a))
    BY DEF UsableIn
<1>2. Cardinality(ks) \in Nat /\ Cardinality(ks) <= Len(a)
  <2>1. IsFiniteSet(1..Len(a)) /\ Cardinality(1..Len(a)) = Len(a)
    <3>1. 1 \in Int /\ Len(a) \in Int
        BY <1>1
    <3>2. Cardinality(1..Len(a)) = IF 1 > Len(a) THEN 0 ELSE Len(a) - 1 + 1
        BY <3>1, FS_Interval, Zenon
    <3>3. IsFiniteSet(1..Len(a))
        BY <3>1, FS_Interval, Zenon
    <3> QED
        BY <1>1, <3>2, <3>3
  <2> HIDE DEF ks
  <2>2. IsFiniteSet(ks) /\ Cardinality(ks) <= Cardinality(1..Len(a))
      BY <1>1, <2>1, FS_Subset
  <2> QED
      BY <2>1, <2>2, FS_CardinalityType
<1>3. \A n \in 1..Cardinality(ks) :
          /\ Clean(PickISBN(a[Nth(ks, n)]))
          /\ Nth(ks, n) \in DOMAIN a /\ PickISBN(a[Nth(ks, n)]) # NoText
  <2> TAKE n \in 1..Cardinality(ks)
  <2>1. Nth(ks, n) \in ks
      BY <1>1, NthFacts
  <2>2. a[Nth(ks, n)] \in Seq(Texts) /\ PickISBN(a[Nth(ks, n)]) # NoText
      BY <1>1, <2>1 DEF UsableIn
  <2> QED
      BY <1>1, <2>1, <2>2, PickFacts
<1>4. HitsOf(a) = [n \in 1..Cardinality(ks) |-> PickISBN(a[Nth(ks, n)])]
    BY DEF HitsOf
<1>5. \A n \in 1..Cardinality(ks) : PickISBN(a[Nth(ks, n)]) \in Texts
    BY <1>3 DEF Clean
<1> HIDE DEF ks
<1>6. HitsOf(a) \in Seq(Texts) /\ Len(HitsOf(a)) = Cardinality(ks)
    BY <1>2, <1>4, <1>5
<1> QED
    BY <1>2, <1>3, <1>4, <1>6

(* What a search of a blank query returns. *)
LEMMA NoHits == HitsOf(<<>>) = <<>>
<1>1. UsableIn(<<>>) = {}
    BY DEF UsableIn
<1>2. Cardinality(UsableIn(<<>>)) = 0
    BY <1>1, FS_EmptySet
<1> QED
    BY <1>2 DEF HitsOf

(* All that a response may show is clean. *)
LEMMA AllHitsFacts ==
    ASSUME NEW h \in AllHits
    PROVE  /\ Len(h) \in Nat
           /\ DOMAIN h = 1..Len(h)
           /\ \A n \in DOMAIN h : Clean(h[n])
<1>1. CASE h = <<>>
    BY <1>1
<1>2. CASE h # <<>>
  <2>1. PICK a \in Answers : h = HitsOf(a)
      BY <1>2 DEF AllHits
  <2>2. a \in Seq(Seq(Texts))
      BY SearchEndpointAssumption
  <2>3. /\ h \in Seq(Texts)
        /\ \A n \in 1..Len(h) : Clean(h[n])
      BY <2>1, <2>2, HitsFacts
  <2> QED
      BY <2>3
<1> QED
    BY <1>1, <1>2

-----------------------------------------------------------------------------
(* The cache *)

(* What EvictsOldestOnly says of a step. *)
EvictStep ==
    \A k \in Stored(entries) \ Expired(entries) : entries'[k] = NoEntry =>
        /\ Cardinality(Stored(entries)) = CacheMaxSize
        /\ \A j \in Stored(entries) \ {k} :
              /\ entries'[j] # NoEntry
              /\ entries[k].left <= entries'[j].left

(* The mark of an empty place is no entry. *)
LEMMA EntryFacts ==
    ASSUME NEW e \in Entries
    PROVE  e # NoEntry /\ e.left \in Int /\ e.left <= CacheTTL /\ e.age \in Nat /\ e.hits \in AllHits
<1>1. e.left \in -1..CacheTTL /\ e.age \in Nat /\ e.hits \in AllHits
    BY DEF Entries
<1>2. e.left \in Int /\ -1 <= e.left /\ e.left <= CacheTTL
    BY <1>1, SearchEndpointAssumption
<1>3. NoEntry.left = -2
    BY DEF NoEntry
<1>4. e.left # -2
    BY <1>2
<1> QED
    BY <1>1, <1>2, <1>3, <1>4

(* What is stored is an entry. *)
LEMMA StoredFacts ==
    ASSUME CacheTyped
    PROVE  \A k \in Stored(entries) : k \in Keys /\ entries[k] \in Entries
    BY DEF CacheTyped, Stored

(* After the first half of put there is room for one more, what is kept is *)
(* kept as it was, and an entry that could still be served went only if    *)
(* nothing had expired, the cache was full and no entry was nearer to      *)
(* expiry.                                                                 *)
LEMMA RoomFacts ==
    ASSUME SearchInv, NEW room \in MadeRoom
    PROVE  /\ room \in [Keys -> Entries \cup {NoEntry}]
           /\ \A k \in Keys : room[k] # NoEntry => room[k] = entries[k]
           /\ IsFiniteSet(Stored(room))
           /\ Cardinality(Stored(room)) < CacheMaxSize
           /\ \A k \in Stored(entries) \ Expired(entries) : room[k] = NoEntry =>
                 /\ Cardinality(Stored(entries)) = CacheMaxSize
                 /\ \A j \in Stored(entries) \ {k} :
                       room[j] = entries[j] /\ entries[k].left <= entries[j].left
<1> DEFINE kept == Without(entries, Expired(entries))
           oldest == {k \in Stored(kept) :
                          \A j \in Stored(kept) : kept[k].left <= kept[j].left}
           full == Cardinality(Stored(entries))
           still == Cardinality(Stored(kept))
<1>1. /\ CacheTyped
      /\ IsFiniteSet(Stored(entries))
      /\ full \in Nat /\ full <= CacheMaxSize
      /\ CacheMaxSize \in Nat /\ CacheMaxSize > 0
    BY SearchEndpointAssumption, FS_CardinalityType DEF SearchInv, CacheFits, CacheBounded
<1>2. kept \in [Keys -> Entries \cup {NoEntry}]
    BY <1>1 DEF CacheTyped, Without
<1>3. \A k \in Keys : kept[k] # NoEntry => kept[k] = entries[k] /\ k \notin Expired(entries)
    BY DEF Without
<1>4. \A k \in Stored(entries) \ Expired(entries) : kept[k] = entries[k] /\ k \in Stored(kept)
    BY DEF Without, Stored
<1>5. Stored(kept) \in SUBSET Stored(entries)
    BY <1>3 DEF Stored
<1>6. IsFiniteSet(Stored(kept)) /\ still \in Nat /\ still <= full
    BY <1>1, <1>5, FS_Subset, FS_CardinalityType
<1>7. CASE full < CacheMaxSize
  <2>1. /\ full < CacheMaxSize
        /\ ~(full >= CacheMaxSize /\ still < CacheMaxSize)
      BY <1>1, <1>7
  <2>2. room \in {entries}
      BY <2>1, Zenon DEF MadeRoom
  <2> QED
      BY <1>1, <1>7, <2>2 DEF CacheTyped, Stored
<1>8. CASE full >= CacheMaxSize /\ still < CacheMaxSize
  <2>1. room = kept
      BY <1>1, <1>8 DEF MadeRoom
  <2>2. \A k \in Stored(entries) \ Expired(entries) : room[k] # NoEntry
      BY <1>4, <2>1 DEF Stored
  <2> HIDE DEF kept
  <2> QED
      BY <1>2, <1>3, <1>6, <1>8, <2>1, <2>2
<1>9. CASE still >= CacheMaxSize
  <2>1. /\ ~(full < CacheMaxSize)
        /\ ~(full >= CacheMaxSize /\ still < CacheMaxSize)
      BY <1>1, <1>6, <1>9
  <2>2. room \in {Without(kept, {k}) : k \in oldest}
      BY <2>1, Zenon DEF MadeRoom
  <2>3. PICK gone \in oldest : room = Without(kept, {gone})
      BY <2>2
  <2>4. /\ full = CacheMaxSize
        /\ Stored(kept) = Stored(entries)
    <3>1. full = still /\ full = CacheMaxSize
        BY <1>1, <1>6, <1>9
    <3> QED
        BY <1>1, <1>5, <3>1, FS_Subset
  <2>5. \A k \in Stored(entries) : kept[k] = entries[k]
      BY <1>3, <2>4 DEF Stored
  <2> HIDE DEF kept
  <2>6. gone \in Stored(kept) /\ \A j \in Stored(kept) : kept[gone].left <= kept[j].left
      OBVIOUS
  <2>7. room \in [Keys -> Entries \cup {NoEntry}]
      BY <1>2, <2>3 DEF Without
  <2>8. \A k \in Keys : room[k] # NoEntry => room[k] = entries[k]
      BY <1>3, <2>3 DEF Without
  <2>9. Stored(room) = Stored(kept) \ {gone}
      BY <2>3 DEF Stored, Without
  <2>10. IsFiniteSet(Stored(room)) /\ Cardinality(Stored(room)) = still - 1
      BY <1>6, <2>6, <2>9, FS_RemoveElement
  <2>11. ASSUME NEW k \in Stored(entries), room[k] = NoEntry
         PROVE  \A j \in Stored(entries) \ {k} :
                    room[j] = entries[j] /\ entries[k].left <= entries[j].left
    <3>1. k = gone
        BY <2>3, <2>4, <2>11 DEF Stored, Without
    <3>2. \A j \in Stored(entries) \ {k} : room[j] = entries[j]
        BY <2>3, <2>5, <3>1 DEF Stored, Without
    <3> QED
        BY <2>4, <2>5, <2>6, <3>1, <3>2
  <2> QED
      BY <1>1, <1>6, <2>4, <2>7, <2>8, <2>10, <2>11
<1> QED
    BY <1>1, <1>6, <1>7, <1>8, <1>9

(* put keeps the cache within its bounds, and evicts as it says. *)
LEMMA PutFacts ==
    ASSUME SearchInv, NEW key \in Keys, NEW hits \in AllHits, NEW age \in 0..Timeout,
           Len(hits) <= key.limit, Put(key, hits, age)
    PROVE  CacheTyped' /\ EntriesFit' /\ CacheFits' /\ EvictStep
<1> DEFINE new == [hits |-> hits, left |-> CacheTTL, age |-> age]
<1>1. PICK room \in MadeRoom : entries' = [room EXCEPT ![key] = new]
    BY DEF Put
<1>2. /\ room \in [Keys -> Entries \cup {NoEntry}]
      /\ \A k \in Keys : room[k] # NoEntry => room[k] = entries[k]
      /\ IsFiniteSet(Stored(room))
      /\ Cardinality(Stored(room)) < CacheMaxSize
      /\ \A k \in Stored(entries) \ Expired(entries) : room[k] = NoEntry =>
            /\ Cardinality(Stored(entries)) = CacheMaxSize
            /\ \A j \in Stored(entries) \ {k} :
                  room[j] = entries[j] /\ entries[k].left <= entries[j].left
    BY RoomFacts
<1>3. /\ new \in Entries
      /\ new.left = CacheTTL
      /\ new.age + new.left <= CacheTTL + Timeout
      /\ Len(new.hits) <= key.limit
    BY SearchEndpointAssumption DEF Entries
<1>4. new # NoEntry
    BY <1>3, EntryFacts
<1> HIDE DEF new
<1>5. /\ entries'[key] = new
      /\ \A k \in Keys : k # key => entries'[k] = room[k]
    BY <1>1, <1>2
<1>6. CacheTyped'
    BY <1>1, <1>2, <1>3 DEF CacheTyped, Keys, Entries, NoEntry, AllHits
<1>7. EntriesFit'
  <2> SUFFICES ASSUME NEW k \in Keys, entries'[k] # NoEntry
               PROVE  /\ entries'[k].age + entries'[k].left <= CacheTTL + Timeout
                      /\ Len(entries'[k].hits) <= k.limit
      BY DEF EntriesFit, Stored
  <2>1. CASE k = key
      BY <1>3, <1>5, <2>1
  <2>2. CASE k # key
      BY <1>2, <1>5, <2>2 DEF SearchInv, EntriesFit, Stored
  <2> QED
      BY <2>1, <2>2
<1>8. CacheFits'
  <2>1. Stored(entries)' = Stored(room) \cup {key}
      BY <1>4, <1>5 DEF Stored
  <2>2. Cardinality(Stored(room)) \in Nat /\ CacheMaxSize \in Nat
      BY <1>2, FS_CardinalityType, SearchEndpointAssumption
  <2>3. /\ IsFiniteSet(Stored(room) \cup {key})
        /\ \/ Cardinality(Stored(room) \cup {key}) = Cardinality(Stored(room))
           \/ Cardinality(Stored(room) \cup {key}) = Cardinality(Stored(room)) + 1
      BY <1>2, FS_AddElement, Zenon
  <2>4. Cardinality(Stored(room) \cup {key}) <= CacheMaxSize
      BY <1>2, <2>2, <2>3
  <2> QED
      BY <2>1, <2>3, <2>4 DEF CacheFits, CacheBounded
<1>9. EvictStep
  <2> SUFFICES ASSUME NEW k \in Stored(entries) \ Expired(entries), entries'[k] = NoEntry
               PROVE  /\ Cardinality(Stored(entries)) = CacheMaxSize
                      /\ \A j \in Stored(entries) \ {k} :
                            /\ entries'[j] # NoEntry
                            /\ entries[k].left <= entries'[j].left
      BY DEF EvictStep
  <2>1. k \in Keys /\ k # key /\ room[k] = NoEntry
      BY <1>4, <1>5 DEF Stored
  <2>2. /\ Cardinality(Stored(entries)) = CacheMaxSize
        /\ \A j \in Stored(entries) \ {k} :
              room[j] = entries[j] /\ entries[k].left <= entries[j].left
      BY <1>2, <2>1
  <2>3. entries[k].left <= CacheTTL
      BY StoredFacts, EntryFacts DEF SearchInv
  <2>4. ASSUME NEW j \in Stored(entries) \ {k}
        PROVE  entries'[j] # NoEntry /\ entries[k].left <= entries'[j].left
    <3>1. CASE j = key
        BY <1>3, <1>4, <1>5, <2>3, <3>1
    <3>2. CASE j # key
        BY <1>5, <2>2, <3>2 DEF Stored
    <3> QED
        BY <3>1, <3>2
  <2> QED
      BY <2>2, <2>4
<1> QED
    BY <1>6, <1>7, <1>8, <1>9

(* A step that leaves the cache alone keeps what is said of it. *)
LEMMA SameCache ==
    ASSUME SearchInv, UNCHANGED entries
    PROVE  CacheTyped' /\ EntriesFit' /\ CacheFits' /\ EvictStep
<1>1. Stored(entries)' = Stored(entries)
    BY DEF Stored
<1> QED
    BY <1>1 DEF SearchInv, CacheTyped, EntriesFit, CacheFits, CacheBounded, EvictStep,
                Stored, Keys, Entries, NoEntry, AllHits

-----------------------------------------------------------------------------
(* The handler *)

(* The sets that the types are made of do not change. *)
LEMMA SameTypes == NoSearch' = NoSearch /\ Calling' = Calling /\ Answered' = Answered
<1>1. NoSearch' = NoSearch /\ Calling' = Calling
    BY DEF NoSearch, Calling
<1>2. Answered' = Answered
    BY DEF Answered, AllHits
<1> QED
    BY <1>1, <1>2

(* A request that is answered leaves nothing behind, and a response within *)
(* the bounds is within them.                                              *)
LEMMA RespondFacts ==
    ASSUME SearchInv, NEW s \in Searches, NEW code \in {200, 502, 504}, NEW limit \in Nat,
           NEW hits \in AllHits, NEW age \in Nat, Respond(s, code, limit, hits, age),
           age <= CacheTTL + Timeout, Len(hits) <= limit
    PROVE  /\ RequestsTyped' /\ RequestsFit' /\ ResponseTyped'
           /\ AnswersAreRecent' /\ LimitRespected'
<1>1. /\ spc' = [spc EXCEPT ![s] = "idle"]
      /\ search' = [search EXCEPT ![s] = NoSearch]
      /\ response' = [code |-> code, limit |-> limit, hits |-> hits, age |-> age]
    BY DEF Respond
<1>2. RequestsTyped
    BY DEF SearchInv
<1>3. /\ spc'[s] = "idle" /\ search'[s] = NoSearch
      /\ \A t \in Searches : t # s => spc'[t] = spc[t] /\ search'[t] = search[t]
    BY <1>1, <1>2 DEF RequestsTyped
<1>4. RequestsTyped'
  <2>1. spc' \in [Searches -> {"idle", "calling", "answered"}]
      BY <1>1, <1>2 DEF RequestsTyped
  <2>2. search' \in [Searches -> {NoSearch} \cup Calling \cup Answered]
      BY <1>1, <1>2 DEF RequestsTyped
  <2>3. \A t \in Searches : /\ spc'[t] = "idle" => search'[t] = NoSearch
                            /\ spc'[t] = "calling" => search'[t] \in Calling
                            /\ spc'[t] = "answered" => search'[t] \in Answered
      BY <1>2, <1>3 DEF RequestsTyped
  <2> QED
      BY <2>1, <2>2, <2>3, SameTypes DEF RequestsTyped
<1>5. RequestsFit'
    BY <1>3 DEF RequestsFit, SearchInv
<1>6. ResponseTyped'
    BY <1>1 DEF ResponseTyped, AllHits
<1> QED
    BY <1>1, <1>4, <1>5, <1>6 DEF AnswersAreRecent, LimitRespected

(* The empty list, which the error responses carry. *)
LEMMA EmptyHits == <<>> \in AllHits /\ Len(<<>>) = 0
    BY DEF AllHits

(* A key keeps the limit of its query. *)
LEMMA KeyFacts ==
    ASSUME NEW q \in Queries
    PROVE  CacheKey(q) \in Keys /\ CacheKey(q).limit = q.limit /\ q.limit \in Nat
    BY SearchEndpointAssumption DEF CacheKey, Keys

(* A request arrives: a hit was stored under a key with its own limit, and *)
(* has not outlived its TTL.                                               *)
LEMMA ArriveOK ==
    ASSUME SearchInv, NEW s \in Searches, NEW q \in Queries, Arrive(s, q)
    PROVE  SearchInv' /\ EvictStep
<1>1. UNCHANGED entries
    BY DEF Arrive
<1>2. CacheTyped' /\ EntriesFit' /\ CacheFits' /\ EvictStep
    BY <1>1, SameCache
<1>3. CASE CacheHit(CacheKey(q))
  <2> DEFINE e == entries[CacheKey(q)]
  <2>1. CacheKey(q) \in Stored(entries) /\ e.left >= 0
      BY <1>3, KeyFacts DEF CacheHit, Stored
  <2>2. e.left \in Int /\ e.age \in Nat /\ e.hits \in AllHits
      BY <2>1, StoredFacts, EntryFacts DEF SearchInv
  <2>3. e.age + e.left <= CacheTTL + Timeout /\ Len(e.hits) <= q.limit
      BY <2>1, KeyFacts DEF SearchInv, EntriesFit
  <2>4. e.age <= CacheTTL + Timeout
      BY <2>1, <2>2, <2>3, SearchEndpointAssumption
  <2>5. Respond(s, 200, q.limit, e.hits, e.age)
      BY <1>3 DEF Arrive
  <2> HIDE DEF e
  <2>6. /\ RequestsTyped' /\ RequestsFit' /\ ResponseTyped'
        /\ AnswersAreRecent' /\ LimitRespected'
      BY <2>2, <2>3, <2>4, <2>5, KeyFacts, RespondFacts
  <2> QED
      BY <1>2, <2>6 DEF SearchInv
<1>4. CASE ~CacheHit(CacheKey(q))
  <2>1. /\ spc' = [spc EXCEPT ![s] = "calling"]
        /\ search' = [search EXCEPT ![s] = [query |-> q, elapsed |-> 0]]
        /\ UNCHANGED response
      BY <1>4 DEF Arrive
  <2>2. [query |-> q, elapsed |-> 0] \in Calling
      BY SearchEndpointAssumption DEF Calling
  <2>3. RequestsTyped
      BY DEF SearchInv
  <2>4. /\ spc'[s] = "calling" /\ search'[s] \in Calling
        /\ \A t \in Searches : t # s => spc'[t] = spc[t] /\ search'[t] = search[t]
      BY <2>1, <2>2, <2>3 DEF RequestsTyped
  <2>5. /\ spc' \in [Searches -> {"idle", "calling", "answered"}]
        /\ search' \in [Searches -> {NoSearch} \cup Calling \cup Answered]
      BY <2>1, <2>2, <2>3 DEF RequestsTyped
  <2>6. \A t \in Searches : /\ spc'[t] = "idle" => search'[t] = NoSearch
                            /\ spc'[t] = "calling" => search'[t] \in Calling
                            /\ spc'[t] = "answered" => search'[t] \in Answered
      BY <2>3, <2>4 DEF RequestsTyped
  <2>7. RequestsTyped'
      BY <2>5, <2>6, SameTypes DEF RequestsTyped
  <2>8. RequestsFit'
      BY <2>4 DEF RequestsFit, SearchInv
  <2>9. ResponseTyped' /\ AnswersAreRecent' /\ LimitRespected'
      BY <2>1 DEF SearchInv, ResponseTyped, AllHits, AnswersAreRecent, LimitRespected
  <2> QED
      BY <1>2, <2>7, <2>8, <2>9 DEF SearchInv
<1> QED
    BY <1>3, <1>4

(* Open Library answers with as many works as were asked for, at most. *)
LEMMA AnswerOK ==
    ASSUME SearchInv, NEW s \in Searches, Answer(s)
    PROVE  SearchInv' /\ EvictStep
<1> DEFINE q == search[s].query
           asked == IF q.words = Blank THEN {<<>>} ELSE {b \in Answers : Len(b) <= q.limit}
<1>1. /\ UNCHANGED <<entries, response>>
      /\ spc[s] = "calling"
      /\ spc' = [spc EXCEPT ![s] = "answered"]
    BY DEF Answer
<1>2. PICK a \in asked :
          search' = [search EXCEPT ![s] = [query |-> q, elapsed |-> search[s].elapsed,
                                           hits |-> HitsOf(a), age |-> 0]]
    BY DEF Answer
<1>3. RequestsTyped /\ search[s] \in Calling
    BY <1>1 DEF SearchInv, RequestsTyped
<1>4. q \in Queries /\ search[s].elapsed \in 0..Timeout /\ q.limit \in Nat
    BY <1>3, SearchEndpointAssumption DEF Calling
<1>5. HitsOf(a) \in AllHits /\ Len(HitsOf(a)) <= q.limit
  <2>1. CASE a = <<>>
      BY <1>4, <2>1, NoHits, EmptyHits
  <2>2. CASE a # <<>>
    <3>1. a \in Answers /\ Len(a) <= q.limit
        BY <2>2
    <3>2. a \in Seq(Seq(Texts))
        BY <3>1, SearchEndpointAssumption
    <3>3. Len(HitsOf(a)) <= Len(a) /\ Len(a) \in Nat /\ Len(HitsOf(a)) \in Nat
        BY <3>2, HitsFacts
    <3> QED
        BY <1>4, <3>1, <3>3 DEF AllHits
  <2> QED
      BY <2>1, <2>2
<1> DEFINE new == [query |-> q, elapsed |-> search[s].elapsed, hits |-> HitsOf(a), age |-> 0]
<1>6. /\ new \in Answered /\ new.age <= new.elapsed
      /\ Len(new.hits) <= new.query.limit
  <2> HIDE DEF q
  <2> QED
      BY <1>4, <1>5, SearchEndpointAssumption DEF Answered
<1>7. search' = [search EXCEPT ![s] = new]
    BY <1>2
<1> HIDE DEF new, q
<1>8. /\ spc'[s] = "answered" /\ search'[s] = new
      /\ \A t \in Searches : t # s => spc'[t] = spc[t] /\ search'[t] = search[t]
    BY <1>1, <1>3, <1>7 DEF RequestsTyped
<1>9. RequestsTyped'
  <2>1. spc' \in [Searches -> {"idle", "calling", "answered"}]
      BY <1>1, <1>3 DEF RequestsTyped
  <2>2. search' \in [Searches -> {NoSearch} \cup Calling \cup Answered]
      BY <1>3, <1>6, <1>7 DEF RequestsTyped
  <2>3. \A t \in Searches : /\ spc'[t] = "idle" => search'[t] = NoSearch
                            /\ spc'[t] = "calling" => search'[t] \in Calling
                            /\ spc'[t] = "answered" => search'[t] \in Answered
      BY <1>3, <1>6, <1>8 DEF RequestsTyped
  <2> QED
      BY <2>1, <2>2, <2>3, SameTypes DEF RequestsTyped
<1>10. RequestsFit'
    BY <1>6, <1>8 DEF RequestsFit, SearchInv
<1>11. ResponseTyped' /\ AnswersAreRecent' /\ LimitRespected'
    BY <1>1 DEF SearchInv, ResponseTyped, AllHits, AnswersAreRecent, LimitRespected
<1> QED
    BY <1>1, <1>9, <1>10, <1>11, SameCache DEF SearchInv

(* Search returns: the answer is stored and shown. *)
LEMMA ReceiveOK ==
    ASSUME SearchInv, NEW s \in Searches, Receive(s)
    PROVE  SearchInv' /\ EvictStep
<1> DEFINE r == search[s]
<1>1. /\ spc[s] = "answered"
      /\ Put(CacheKey(r.query), r.hits, r.age)
      /\ Respond(s, 200, r.query.limit, r.hits, r.age)
    BY DEF Receive
<1>2. r \in Answered /\ Len(r.hits) <= r.query.limit
    BY <1>1 DEF SearchInv, RequestsTyped, RequestsFit
<1> HIDE DEF r
<1>3. r.query \in Queries /\ r.hits \in AllHits /\ r.age \in 0..Timeout
    BY <1>2 DEF Answered
<1>4. r.age \in Nat /\ r.age <= CacheTTL + Timeout
    BY <1>3, SearchEndpointAssumption
<1>5. CacheTyped' /\ EntriesFit' /\ CacheFits' /\ EvictStep
    BY <1>1, <1>2, <1>3, KeyFacts, PutFacts
<1>6. /\ RequestsTyped' /\ RequestsFit' /\ ResponseTyped'
      /\ AnswersAreRecent' /\ LimitRespected'
    BY <1>1, <1>2, <1>3, <1>4, KeyFacts, RespondFacts
<1> QED
    BY <1>5, <1>6 DEF SearchInv

(* The deadline or another error: nothing is stored. *)
LEMMA ErrorOK ==
    ASSUME SearchInv, NEW s \in Searches, TimeOut(s) \/ Fail(s)
    PROVE  SearchInv' /\ EvictStep
<1> DEFINE limit == search[s].query.limit
<1>1. /\ UNCHANGED entries
      /\ spc[s] \in {"calling", "answered"}
      /\ \E code \in {502, 504} : Respond(s, code, limit, <<>>, 0)
    BY DEF TimeOut, Fail, Upstream
<1>2. PICK code \in {502, 504} : Respond(s, code, limit, <<>>, 0)
    BY <1>1
<1>3. search[s] \in Calling \cup Answered
    BY <1>1 DEF SearchInv, RequestsTyped
<1>4. limit \in Nat
    BY <1>3, SearchEndpointAssumption DEF Calling, Answered
<1> HIDE DEF limit
<1>5. 0 \in Nat /\ 0 <= CacheTTL + Timeout /\ Len(<<>>) <= limit
    BY <1>4, EmptyHits, SearchEndpointAssumption
<1>6. /\ RequestsTyped' /\ RequestsFit' /\ ResponseTyped'
      /\ AnswersAreRecent' /\ LimitRespected'
    BY <1>2, <1>4, <1>5, EmptyHits, RespondFacts
<1> QED
    BY <1>1, <1>6, SameCache DEF SearchInv

(* Time passes: what an entry loses of its TTL its answer gains in age,    *)
(* and a request that is not past its deadline may grow older by one tick. *)
LEMMA TickOK ==
    ASSUME SearchInv, Tick
    PROVE  SearchInv' /\ EvictStep
<1>1. CacheTyped /\ RequestsTyped /\ UNCHANGED <<spc, response>>
    BY DEF SearchInv, Tick
<1>2. ASSUME NEW k \in Keys
      PROVE  /\ entries'[k] \in Entries \cup {NoEntry}
             /\ entries'[k] = NoEntry <=> entries[k] = NoEntry
             /\ entries[k] # NoEntry =>
                   /\ entries'[k].age + entries'[k].left = entries[k].age + entries[k].left
                   /\ entries'[k].hits = entries[k].hits
  <2>1. CASE entries[k] = NoEntry
      BY <2>1 DEF Tick
  <2>2. CASE entries[k] # NoEntry /\ entries[k].left < 0
    <3>1. entries'[k] = entries[k] /\ entries[k] \in Entries
        BY <1>1, <2>2 DEF Tick, CacheTyped
    <3> QED
        BY <2>2, <3>1
  <2>3. CASE entries[k] # NoEntry /\ ~(entries[k].left < 0)
    <3>1. entries[k] \in Entries
        BY <1>1, <2>3 DEF CacheTyped
    <3> DEFINE e == entries[k]
               f == [hits |-> e.hits, left |-> e.left - 1, age |-> e.age + 1]
    <3>2. entries'[k] = [e EXCEPT !.left = @ - 1, !.age = @ + 1]
        BY <2>3 DEF Tick
    <3> HIDE DEF e
    <3>3. e \in Entries /\ ~(e.left < 0)
        BY <2>3, <3>1 DEF e
    <3>4. /\ e.left \in Int /\ e.left <= CacheTTL /\ e.age \in Nat /\ e.hits \in AllHits
          /\ CacheTTL \in Nat
        BY <3>3, EntryFacts, SearchEndpointAssumption
    <3>5. entries'[k] = f
        BY <3>2, <3>3 DEF Entries
    <3>6. f \in Entries
        BY <3>3, <3>4 DEF Entries
    <3>7. f.age + f.left = e.age + e.left /\ f.hits = e.hits
        BY <3>4
    <3> HIDE DEF f
    <3> QED
        BY <2>3, <3>5, <3>6, <3>7, EntryFacts DEF e
  <2> QED
      BY <2>1, <2>2, <2>3
<1>3. CacheTyped'
  <2>1. entries' = [k \in Keys |-> entries'[k]]
      BY DEF Tick
  <2>2. entries' \in [Keys -> Entries \cup {NoEntry}]
      BY <1>2, <2>1
  <2>3. Keys' = Keys /\ Entries' = Entries /\ NoEntry' = NoEntry
      BY DEF Keys, Entries, NoEntry, AllHits
  <2> QED
      BY <2>2, <2>3 DEF CacheTyped
<1>4. Stored(entries)' = Stored(entries)
    BY <1>2 DEF Stored
<1>5. EntriesFit' /\ CacheFits'
    BY <1>2, <1>4 DEF SearchInv, EntriesFit, CacheFits, CacheBounded, Stored
<1>6. EvictStep
    BY <1>2 DEF EvictStep, Stored
<1>7. ASSUME NEW s \in Searches
      PROVE  /\ spc[s] = "idle" => search'[s] = NoSearch
             /\ spc[s] = "calling" => search'[s] \in Calling
             /\ spc[s] = "answered" =>
                   /\ search'[s] \in Answered
                   /\ search'[s].age <= search'[s].elapsed
                   /\ Len(search'[s].hits) <= search'[s].query.limit
  <2> DEFINE r == search[s]
  <2>1. CASE spc[s] = "idle"
      BY <1>1, <2>1 DEF Tick, RequestsTyped
  <2>2. CASE spc[s] = "calling"
    <3>1. /\ search'[s] = [r EXCEPT !.elapsed = @ + 1]
          /\ r.elapsed < Timeout
        BY <2>2 DEF Tick
    <3>2. r \in Calling
        BY <1>1, <2>2 DEF RequestsTyped
    <3> HIDE DEF r
    <3>3. search'[s] = [query |-> r.query, elapsed |-> r.elapsed + 1]
        BY <3>1, <3>2 DEF Calling
    <3>4. search'[s] \in Calling
        BY <3>1, <3>2, <3>3, SearchEndpointAssumption DEF Calling
    <3> QED
        BY <2>2, <3>4
  <2>3. CASE spc[s] = "answered"
    <3>1. /\ search'[s] = [r EXCEPT !.elapsed = @ + 1, !.age = @ + 1]
          /\ r.elapsed < Timeout
        BY <2>3 DEF Tick
    <3>2. r \in Answered /\ r.age <= r.elapsed /\ Len(r.hits) <= r.query.limit
        BY <1>1, <2>3 DEF SearchInv, RequestsTyped, RequestsFit
    <3> HIDE DEF r
    <3>3. search'[s] = [query |-> r.query, elapsed |-> r.elapsed + 1,
                        hits |-> r.hits, age |-> r.age + 1]
        BY <3>1, <3>2 DEF Answered
    <3>4. search'[s] \in Answered
        BY <3>1, <3>2, <3>3, SearchEndpointAssumption DEF Answered
    <3>5. search'[s].age <= search'[s].elapsed
        BY <3>2, <3>3 DEF Answered
    <3> QED
        BY <2>3, <3>2, <3>3, <3>4, <3>5
  <2> QED
      BY <1>1, <2>1, <2>2, <2>3 DEF RequestsTyped
<1>8. RequestsTyped'
  <2>1. search' = [s \in Searches |-> search'[s]]
    <3> DEFINE Older(s) ==
                   CASE spc[s] = "idle"     -> search[s]
                     [] spc[s] = "calling"  -> [search[s] EXCEPT !.elapsed = @ + 1]
                     [] spc[s] = "answered" ->
                           [search[s] EXCEPT !.elapsed = @ + 1, !.age = @ + 1]
    <3>1. search' = [s \in Searches |-> Older(s)]
        BY Zenon DEF Tick
    <3> HIDE DEF Older
    <3> QED
        BY <3>1
  <2>2. \A s \in Searches : search'[s] \in {NoSearch} \cup Calling \cup Answered
      BY <1>1, <1>7 DEF RequestsTyped
  <2>3. search' \in [Searches -> {NoSearch} \cup Calling \cup Answered]
      BY <2>1, <2>2
  <2> QED
      BY <1>1, <1>7, <2>3, SameTypes DEF RequestsTyped
<1>9. RequestsFit'
    BY <1>1, <1>7 DEF RequestsFit
<1>10. ResponseTyped' /\ AnswersAreRecent' /\ LimitRespected'
    BY <1>1 DEF SearchInv, ResponseTyped, AllHits, AnswersAreRecent, LimitRespected
<1> QED
    BY <1>3, <1>5, <1>6, <1>8, <1>9, <1>10 DEF SearchInv

-----------------------------------------------------------------------------
(* Results *)

(* An empty cache and no request. *)
LEMMA SearchInitOK == SearchInit => SearchInv
<1> SUFFICES ASSUME SearchInit PROVE SearchInv
    OBVIOUS
<1>1. CacheTyped /\ Stored(entries) = {}
    BY DEF SearchInit, CacheTyped, Stored
<1>2. RequestsTyped /\ RequestsFit
    BY DEF SearchInit, RequestsTyped, RequestsFit
<1>3. ResponseTyped /\ AnswersAreRecent /\ LimitRespected
    BY EmptyHits DEF SearchInit, ResponseTyped, AnswersAreRecent, LimitRespected
<1>4. EntriesFit /\ CacheFits
    BY <1>1, FS_EmptySet, SearchEndpointAssumption DEF EntriesFit, CacheFits, CacheBounded
<1> QED
    BY <1>1, <1>2, <1>3, <1>4 DEF SearchInv

(* Every step keeps the invariant and evicts as put says. *)
LEMMA SearchInvStep ==
    ASSUME SearchInv, [SearchNext]_searchVars
    PROVE  SearchInv' /\ EvictStep
<1>1. CASE UNCHANGED searchVars
  <2>1. UNCHANGED <<entries, spc, search, response>>
      BY <1>1 DEF searchVars
  <2>2. RequestsTyped'
      BY <2>1, SameTypes DEF SearchInv, RequestsTyped
  <2>3. RequestsFit' /\ ResponseTyped' /\ AnswersAreRecent' /\ LimitRespected'
      BY <2>1 DEF SearchInv, RequestsFit, ResponseTyped, AllHits, AnswersAreRecent, LimitRespected
  <2> QED
      BY <2>1, <2>2, <2>3, SameCache DEF SearchInv
<1>2. CASE SearchNext
    BY <1>2, ArriveOK, AnswerOK, ReceiveOK, ErrorOK, TickOK DEF SearchNext, SearchStep
<1> QED
    BY <1>1, <1>2

(* The inductive invariant: cache, requests and responses stay within the  *)
(* size, the age and the limits that bound them.                           *)
THEOREM SearchInvariance == SearchSpec => []SearchInv
BY SearchInitOK, SearchInvStep, PTL DEF SearchSpec

(* search: no request outlives its deadline, and responses have the codes  *)
(* and the suggestions that they may have.                                 *)
THEOREM SearchTypeCorrect == SearchSpec => []SearchTypeOK
<1>1. SearchInv => SearchTypeOK
  <2> SUFFICES ASSUME SearchInv PROVE SearchTypeOK
      OBVIOUS
  <2>1. CacheTyped /\ RequestsTyped /\ ResponseTyped
      BY DEF SearchInv
  <2>2. \A s \in Searches :
           \/ spc[s] = "idle" /\ search[s] = NoSearch
           \/ spc[s] = "calling" /\ search[s] \in Calling
           \/ spc[s] = "answered" /\ search[s] \in Answered
      BY <2>1 DEF RequestsTyped
  <2> QED
      BY <2>1, <2>2 DEF SearchTypeOK, CacheTyped, ResponseTyped, Calling, Answered
<1> QED
    BY <1>1, SearchInvariance, PTL

(* resultCache.put: the cache never outgrows cacheMaxSize, whichever and   *)
(* however many requests store their answers.                              *)
THEOREM CacheNeverOutgrown == SearchSpec => []CacheBounded
<1>1. SearchInv => CacheBounded
    BY DEF SearchInv, CacheFits
<1> QED
    BY <1>1, SearchInvariance, PTL

(* cacheTTL: nothing shown is older than one TTL and one deadline. *)
THEOREM ShownAnswersAreRecent == SearchSpec => []AnswersAreRecent
<1>1. SearchInv => AnswersAreRecent
    BY DEF SearchInv
<1> QED
    BY <1>1, SearchInvariance, PTL

(* cacheKey: nobody is shown more suggestions than were asked for. *)
THEOREM LimitAlwaysRespected == SearchSpec => []LimitRespected
<1>1. SearchInv => LimitRespected
    BY DEF SearchInv
<1> QED
    BY <1>1, SearchInvariance, PTL

(* pickISBN and canonicalISBN agree: whatever Open Library lists, what a   *)
(* user posts from the suggestions is stored as it was shown.              *)
THEOREM HitsLandOnTheirEdition == SearchSpec => []HitsKeyTheirEdition
<1>1. SearchInv => HitsKeyTheirEdition
  <2> SUFFICES ASSUME SearchInv,
                      NEW k \in DOMAIN response.hits,
                      InputISBN(response.hits[k]) # NoText
               PROVE  /\ InputISBN(response.hits[k]) = response.hits[k]
                      /\ BooksIsbnShape(InputISBN(response.hits[k]))
      BY DEF HitsKeyTheirEdition
  <2>1. response.hits \in AllHits
      BY DEF SearchInv, ResponseTyped
  <2>2. Clean(response.hits[k])
      BY <2>1, AllHitsFacts
  <2> QED
      BY <2>2, CleanIsStored
<1> QED
    BY <1>1, SearchInvariance, PTL

(* resultCache.put: an answer that could still be served is evicted only   *)
(* by a full cache, alone, and before no older one.                        *)
THEOREM OldestEvictedOnly == SearchSpec => EvictsOldestOnly
<1>1. SearchInv /\ [SearchNext]_searchVars =>
        [\A k \in Stored(entries) \ Expired(entries) : entries'[k] = NoEntry =>
            /\ Cardinality(Stored(entries)) = CacheMaxSize
            /\ \A j \in Stored(entries) \ {k} :
                  /\ entries'[j] # NoEntry
                  /\ entries[k].left <= entries'[j].left]_searchVars
    BY SearchInvStep DEF EvictStep
<1> QED
    BY <1>1, SearchInvariance, PTL DEF SearchSpec, EvictsOldestOnly

(* resultCache.put: a cache that is full even without its expired entries  *)
(* has one nearest to expiry, so room is always made and an answer is      *)
(* always stored.                                                          *)
THEOREM RoomIsAlwaysMade == SearchSpec => [](MadeRoom # {})
<1>1. ASSUME SearchInv PROVE MadeRoom # {}
  <2> DEFINE kept == Without(entries, Expired(entries))
             oldest == {k \in Stored(kept) :
                            \A j \in Stored(kept) : kept[k].left <= kept[j].left}
             full == Cardinality(Stored(entries))
             still == Cardinality(Stored(kept))
  <2>1. /\ CacheMaxSize \in Nat /\ CacheMaxSize > 0
        /\ full \in Nat
        /\ IsFiniteSet(Stored(entries))
      BY <1>1, SearchEndpointAssumption, FS_CardinalityType DEF SearchInv, CacheFits
  <2>2. Stored(kept) \in SUBSET Stored(entries)
      BY DEF Stored, Without
  <2>3. IsFiniteSet(Stored(kept)) /\ still \in Nat
      BY <2>1, <2>2, FS_Subset, FS_CardinalityType
  <2>4. CASE full < CacheMaxSize
    <3>1. /\ full < CacheMaxSize
          /\ ~(full >= CacheMaxSize /\ still < CacheMaxSize)
        BY <2>1, <2>4
    <3>2. MadeRoom = {entries}
        BY <3>1, Zenon DEF MadeRoom
    <3> QED
        BY <3>2
  <2>5. CASE full >= CacheMaxSize /\ still < CacheMaxSize
    <3>1. ~(full < CacheMaxSize)
        BY <2>1, <2>5
    <3>2. MadeRoom = {kept}
        BY <2>5, <3>1, Zenon DEF MadeRoom
    <3> QED
        BY <3>2
  <2>6. CASE full >= CacheMaxSize /\ still >= CacheMaxSize
    <3>1. /\ ~(full < CacheMaxSize)
          /\ ~(full >= CacheMaxSize /\ still < CacheMaxSize)
        BY <2>1, <2>3, <2>6
    <3>2. MadeRoom = {Without(kept, {k}) : k \in oldest}
        BY <3>1, Zenon DEF MadeRoom
    <3>3. Stored(kept) # {}
        BY <2>1, <2>3, <2>6, FS_EmptySet
    <3>4. \A k \in Stored(kept) : kept[k] \in Entries
        BY <1>1, <2>2, StoredFacts DEF SearchInv, Stored, Without
    <3> HIDE DEF kept
    <3> DEFINE lefts == {kept[k].left + 1 : k \in Stored(kept)}
    <3>5. \A k \in Stored(kept) : kept[k].left \in Int /\ kept[k].left + 1 \in Nat
        BY <3>4, SearchEndpointAssumption DEF Entries
    <3>6. lefts \in SUBSET Nat /\ lefts # {}
        BY <3>3, <3>5
    <3>7. PICK least \in lefts : \A n \in lefts : least <= n
      <4> HIDE DEF lefts
      <4> QED
          BY <3>6, LeastNumber
    <3>8. PICK k \in Stored(kept) : least = kept[k].left + 1
        OBVIOUS
    <3>9. \A j \in Stored(kept) : kept[k].left <= kept[j].left
      <4> TAKE j \in Stored(kept)
      <4>1. kept[k].left + 1 <= kept[j].left + 1
          BY <3>7, <3>8
      <4> QED
          BY <3>5, <4>1
    <3>10. k \in oldest
        BY <3>9
    <3> HIDE DEF oldest
    <3> QED
        BY <3>2, <3>10
  <2> QED
      BY <2>1, <2>3, <2>4, <2>5, <2>6
<1> QED
    BY <1>1, SearchInvariance, PTL

(* pickISBN, len(isbn) == 10: the suggestion that POST /books refuses      *)
(* comes from one thing only.  When no work lists ten bytes that are no    *)
(* ISBN (other characters, or fewer and a tab), every suggestion, fresh or *)
(* cached, can be posted.                                                  *)
THEOREM PostableUnlessTenBytes ==
    ASSUME \A a \in Answers : \A k \in DOMAIN a : \A j \in DOMAIN a[k] : a[k][j].kind # "ten"
    PROVE  SearchSpec => []HitsArePostable
<1>1. ASSUME NEW h \in AllHits, NEW n \in DOMAIN h PROVE h[n].kind # "ten"
  <2>1. h # <<>>
      OBVIOUS
  <2>2. PICK a \in Answers : h = HitsOf(a)
      BY <2>1 DEF AllHits
  <2>3. a \in Seq(Seq(Texts))
      BY SearchEndpointAssumption
  <2>4. n \in 1..Len(h)
      BY AllHitsFacts
  <2>5. PICK k \in DOMAIN a : PickISBN(a[k]) # NoText /\ h[n] = PickISBN(a[k])
      BY <2>2, <2>3, <2>4, HitsFacts
  <2>6. a[k] \in Seq(Texts)
      BY <2>3
  <2>7. PICK j \in DOMAIN a[k] : PickISBN(a[k]).kind = a[k][j].kind
      BY <2>5, <2>6, PickKind
  <2> QED
      BY <2>5, <2>7
<1>2. SearchInv => HitsArePostable
  <2> SUFFICES ASSUME SearchInv, NEW k \in DOMAIN response.hits
               PROVE  InputISBN(response.hits[k]) # NoText
      BY DEF HitsArePostable
  <2>1. response.hits \in AllHits
      BY DEF SearchInv, ResponseTyped
  <2>2. Clean(response.hits[k]) /\ response.hits[k].kind # "ten"
      BY <1>1, <2>1, AllHitsFacts
  <2> QED
      BY <2>2, CleanIsAccepted
<1> QED
    BY <1>2, SearchInvariance, PTL
=============================================================================
