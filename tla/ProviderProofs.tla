--------------------------- MODULE ProviderProofs ---------------------------
(***************************************************************************)
(* Proofs about Provider for every client timeout, backoff unit and search *)
(* deadline, whatever the catalogues hold and the network does.            *)
(***************************************************************************)
EXTENDS Provider, TLAPS

(* Which GET of the operation is under way, counted from 0. *)
GetIndex == IF source = "openlibrary" THEN 0 ELSE IF get = "record" THEN 1 ELSE 2

(* The longest that earlier attempts and backoffs of one GET can take. *)
Before(n) == CASE n = 1 -> 0
               [] n = 2 -> ClientTimeout + BackoffUnit
               [] n = 3 -> 2 * ClientTimeout + 5 * BackoffUnit

(* The same with the attempt that the present backoff follows. *)
Spent == IF pc = "backoff" THEN Before(attempt) + ClientTimeout ELSE Before(attempt)

(* The order of the GETs: a search asks one provider, a lookup fetches no  *)
(* image, and Google Books is asked for an image only if it links to one.  *)
Route ==
    /\ op = "Search" => source = "openlibrary"
    /\ source = "openlibrary" => get = FirstGet(op)
    /\ op = "Lookup" => get = "record"
    /\ source = "googlebooks" /\ get = "cover" => holds["googlebooks"].link

Clock ==
    /\ pc = "send" => timer = 0
    /\ pc \in {"wait", "read"} => timer <= ClientTimeout
    /\ pc = "backoff" => attempt < MaxAttempts /\ timer <= attempt * attempt * BackoffUnit
    /\ pc # "idle" => elapsed <= GetIndex * GetBudget + Spent + timer
    /\ pc = "idle" => elapsed <= GetsOf(op) * GetBudget
    /\ op = "Search" => elapsed <= SearchTimeout
    /\ op = "Search" /\ ctx = "live" => elapsed < SearchTimeout

(* The requests of the present GET. *)
SentNow == IF pc = "send" THEN attempt - 1 ELSE attempt

Effort ==
    /\ pc # "idle" =>
          /\ sent["openlibrary"] <= IF source = "openlibrary" THEN SentNow ELSE MaxAttempts
          /\ sent["googlebooks"] <= CASE GetIndex = 0 -> 0
                                      [] GetIndex = 1 -> SentNow
                                      [] GetIndex = 2 -> MaxAttempts + SentNow
    /\ pc = "idle" =>
          /\ sent["openlibrary"] <= MaxAttempts
          /\ sent["googlebooks"] <= (GetsOf(op) - 1) * MaxAttempts

(* Google Books is asked only when Open Library has nothing or was not     *)
(* heard.                                                                  *)
PrimaryDone ==
    source = "googlebooks" /\ ctx = "live" => (Asked("openlibrary") => "openlibrary" \in gaveUp)

ProviderInv ==
    /\ ProviderTypeOK
    /\ Route
    /\ Clock
    /\ Effort
    /\ PrimaryDone
    /\ FindsWhatIsHeld
    /\ VerdictIsReal

-----------------------------------------------------------------------------
(* Arithmetic of one GET *)

(* Every part of a GET fits in its budget, which lies within the           *)
(* operation's.                                                            *)
LEMMA GetFits ==
    ASSUME ProviderTypeOK, Route, Clock, pc # "idle"
    PROVE  /\ elapsed <= (GetIndex + 1) * GetBudget
           /\ GetIndex + 1 \in 1..GetsOf(op)
           /\ elapsed <= GetsOf(op) * GetBudget
<1> USE ProviderAssumption
<1>0. attempt \in {1, 2, 3} /\ timer \in Nat /\ elapsed \in Nat
    BY DEF ProviderTypeOK, MaxAttempts
<1>1. Spent + timer <= GetBudget
  <2>1. CASE attempt = 1
      BY <1>0, <2>1 DEF Clock, Spent, Before, GetBudget, MaxAttempts, ProviderTypeOK
  <2>2. CASE attempt = 2
      BY <1>0, <2>2 DEF Clock, Spent, Before, GetBudget, MaxAttempts, ProviderTypeOK
  <2>3. CASE attempt = 3
      BY <1>0, <2>3 DEF Clock, Spent, Before, GetBudget, MaxAttempts, ProviderTypeOK
  <2> QED
      BY <1>0, <2>1, <2>2, <2>3
<1>2. Spent \in Nat /\ GetBudget \in Nat /\ GetIndex \in {0, 1, 2}
    BY <1>0 DEF Spent, Before, GetBudget, MaxAttempts, GetIndex
<1>3. GetIndex + 1 <= GetsOf(op) /\ GetsOf(op) \in {1, 2, 3}
    BY DEF ProviderTypeOK, Ops, Route, GetIndex, GetsOf, FirstGet
<1>4. elapsed <= GetIndex * GetBudget + GetBudget
  <2>1. elapsed <= GetIndex * GetBudget + Spent + timer
      BY DEF Clock
  <2> QED
      BY <1>0, <1>1, <1>2, <2>1
<1> HIDE DEF GetIndex, GetBudget, GetsOf, Spent
<1>5. elapsed <= (GetIndex + 1) * GetBudget
    BY <1>0, <1>2, <1>4
<1>6. (GetIndex + 1) * GetBudget <= GetsOf(op) * GetBudget
    BY <1>2, <1>3
<1>7. GetsOf(op) * GetBudget \in Nat /\ (GetIndex + 1) * GetBudget \in Nat
    BY <1>2, <1>3
<1> QED
    BY <1>0, <1>2, <1>3, <1>5, <1>6, <1>7

(* So do its requests. *)
LEMMA SentFits ==
    ASSUME ProviderTypeOK, Route, Clock, Effort, pc # "idle"
    PROVE  sent["openlibrary"] <= 3 /\ sent["googlebooks"] <= (GetsOf(op) - 1) * 3
<1>1. attempt \in 1..3 /\ SentNow <= 3 /\ SentNow \in Nat /\ sent \in [Sources -> Nat]
    BY DEF ProviderTypeOK, SentNow, MaxAttempts
<1>2. GetIndex + 1 <= GetsOf(op) /\ GetIndex \in {0, 1, 2} /\ GetsOf(op) \in {1, 2, 3}
    BY GetFits DEF GetIndex, GetsOf, ProviderTypeOK, Ops
<1>3. sent["openlibrary"] <= 3 /\ sent["googlebooks"] <= GetIndex * 3
    BY <1>1, <1>2 DEF Effort, GetIndex, MaxAttempts, Sources
<1> HIDE DEF GetIndex, GetsOf
<1> QED
    BY <1>1, <1>2, <1>3 DEF Sources

-----------------------------------------------------------------------------
(* The end of a GET *)

(* What all steps that end an attempt leave alone. *)
SameCall ==
    /\ UNCHANGED <<op, holds, elapsed, ctx, sent>>
    /\ gaveUp \subseteq gaveUp' /\ gaveUp' \subseteq Sources

(* A provider says that it has nothing only if it has nothing, and every   *)
(* other error of a provider that has it is recorded as a failure, while   *)
(* the caller is there.                                                    *)
Honest(outcome) ==
    /\ outcome \in Outcomes
    /\ outcome \in {"ErrNotFound", "ErrNoCover"} => ~Asked(source) /\ op # "Search"
    /\ outcome # "found" /\ ctx = "live" /\ Asked(source) => source \in gaveUp'

(* A GET of the fallback, or its second one, starts with a fresh budget. *)
LEMMA StartGetOK ==
    ASSUME ProviderInv, pc # "idle", op # "Search", SameCall, NEW g, StartGet("googlebooks", g),
           \/ /\ source = "openlibrary" /\ g = "record"
              /\ ctx = "live" /\ Asked(source) => source \in gaveUp'
           \/ /\ source = "googlebooks" /\ get = "record" /\ g = "cover"
              /\ op = "FetchCover" /\ holds["googlebooks"].link
    PROVE  ProviderInv'
<1> USE ProviderAssumption
<1>1. ProviderTypeOK /\ Route /\ Clock /\ Effort /\ PrimaryDone
    BY DEF ProviderInv
<1>2. /\ GetIndex' = GetIndex + 1 /\ GetIndex \in {0, 1}
      /\ source' = "googlebooks" /\ get' = g /\ attempt' = 1 /\ pc' = "send" /\ timer' = 0
      /\ UNCHANGED <<op, holds, elapsed, ctx, sent, result>>
    BY DEF StartGet, SameCall, GetIndex
<1>3. ProviderTypeOK'
    BY <1>1, <1>2 DEF ProviderTypeOK, SameCall, Sources, MaxAttempts
<1>4. Route'
    BY <1>2 DEF Route
<1>5. Clock'
  <2>1. elapsed <= (GetIndex + 1) * GetBudget /\ Spent' = 0
      BY <1>1, <1>2, GetFits DEF Spent, Before
  <2>2. elapsed \in Nat /\ GetBudget \in Nat
      BY <1>1 DEF ProviderTypeOK, GetBudget, MaxAttempts
  <2>3. GetBudget' = GetBudget
      BY DEF GetBudget
  <2>4. elapsed' <= GetIndex' * GetBudget' + Spent' + timer'
    <3> HIDE DEF GetBudget
    <3> QED
      BY <1>2, <2>1, <2>2, <2>3
  <2> QED
      BY <1>1, <1>2, <2>4 DEF Clock
<1>6. Effort'
  <2>1. attempt \in 1..3 /\ SentNow <= 3 /\ SentNow \in Nat /\ sent \in [Sources -> Nat]
      BY <1>1 DEF ProviderTypeOK, SentNow, MaxAttempts
  <2> QED
      BY <1>1, <1>2, <2>1 DEF Effort, SentNow, GetIndex, MaxAttempts, Sources
<1>7. PrimaryDone'
    BY <1>1, <1>2 DEF PrimaryDone, Asked, SameCall
<1>8. FindsWhatIsHeld' /\ VerdictIsReal'
    BY <1>2 DEF FindsWhatIsHeld, VerdictIsReal
<1> QED
    BY <1>3, <1>4, <1>5, <1>6, <1>7, <1>8 DEF ProviderInv

(* The call returns what the last provider that it asks said. *)
LEMMA ReturnOK ==
    ASSUME ProviderInv, pc # "idle", SameCall, NEW outcome, Return(outcome), Honest(outcome),
           source = "googlebooks" \/ op = "Search" \/ outcome = "found"
    PROVE  ProviderInv'
<1> USE ProviderAssumption
<1>1. ProviderTypeOK /\ Route /\ Clock /\ Effort /\ PrimaryDone
    BY DEF ProviderInv
<1>2. /\ pc' = "idle" /\ timer' = 0 /\ result' = outcome
      /\ UNCHANGED <<op, holds, elapsed, ctx, sent, source, get, attempt>>
    BY DEF Return, SameCall
<1>3. ProviderTypeOK'
    BY <1>1, <1>2 DEF ProviderTypeOK, SameCall, Honest
<1>4. Route'
    BY <1>1, <1>2 DEF Route
<1>5. Clock'
  <2>1. elapsed <= GetsOf(op) * GetBudget
      BY <1>1, GetFits
  <2> QED
      BY <1>1, <1>2, <2>1 DEF Clock, GetBudget, GetsOf
<1>6. Effort'
  <2>1. sent["openlibrary"] <= 3 /\ sent["googlebooks"] <= (GetsOf(op) - 1) * 3
      BY <1>1, SentFits
  <2> QED
      BY <1>2, <2>1 DEF Effort, MaxAttempts, GetsOf
<1>7. PrimaryDone'
    BY <1>1, <1>2 DEF PrimaryDone, Asked, SameCall
<1>8. FindsWhatIsHeld'
  <2> SUFFICES ASSUME outcome # "found", ctx = "live", NEW s \in Consulted, Asked(s)
               PROVE  s \in gaveUp'
      BY <1>2 DEF FindsWhatIsHeld, Consulted, Asked
  <2>1. source = "googlebooks" /\ s \in Sources
      BY DEF Consulted
  <2>2. CASE s = "openlibrary"
      BY <1>1, <2>1, <2>2 DEF PrimaryDone, SameCall
  <2>3. CASE s = "googlebooks"
      BY <2>1, <2>3 DEF Honest
  <2> QED
      BY <2>1, <2>2, <2>3 DEF Sources
<1>9. VerdictIsReal'
  <2> SUFFICES ASSUME outcome \in {"ErrNotFound", "ErrNoCover"}
               PROVE  ~Asked("googlebooks")
      BY <1>2 DEF VerdictIsReal, Asked
  <2> QED
      BY DEF Honest
<1> QED
    BY <1>3, <1>4, <1>5, <1>6, <1>7, <1>8, <1>9 DEF ProviderInv

(* FallbackProvider: any error of the primary leads to the secondary. *)
LEMMA ConcludeOK ==
    ASSUME ProviderInv, pc # "idle", SameCall, NEW outcome, Conclude(outcome), Honest(outcome)
    PROVE  ProviderInv'
<1>1. CASE op # "Search" /\ source = "openlibrary" /\ outcome # "found"
  <2>1. StartGet("googlebooks", "record")
      BY <1>1 DEF Conclude
  <2>2. ctx = "live" /\ Asked(source) => source \in gaveUp'
      BY <1>1 DEF Honest
  <2> QED
      BY <1>1, <2>1, <2>2, StartGetOK
<1>2. CASE ~(op # "Search" /\ source = "openlibrary" /\ outcome # "found")
  <2>1. Return(outcome)
      BY <1>2 DEF Conclude
  <2>2. source = "googlebooks" \/ op = "Search" \/ outcome = "found"
      BY <1>2 DEF ProviderInv, ProviderTypeOK, Sources
  <2> QED
      BY <2>1, <2>2, ReturnOK
<1> QED
    BY <1>1, <1>2

(* An error that is no verdict is honest once the provider counts as one   *)
(* that failed, or the caller is gone.                                     *)
LEMMA ErrorIsHonest ==
    ASSUME NEW outcome \in {"deadline", "canceled", "failed"}, source \in gaveUp' \/ ctx # "live"
    PROVE  Honest(outcome)
BY DEF Honest, Outcomes

(* httpGetWithRetry: after a failed attempt there is a backoff, or the     *)
(* provider gives up.                                                      *)
LEMMA AttemptFailedOK ==
    ASSUME ProviderInv, pc \in {"send", "wait"}, SameCall,
           NEW err \in {"deadline", "canceled", "failed"}, AttemptFailed(err),
           pc = "send" => ctx # "live",
           attempt = MaxAttempts => source \in gaveUp' \/ ctx # "live"
    PROVE  ProviderInv'
<1> USE ProviderAssumption
<1>1. ProviderTypeOK /\ Route /\ Clock /\ Effort /\ PrimaryDone
    BY DEF ProviderInv
<1>2. CASE attempt < MaxAttempts
  <2>1. /\ pc' = "backoff" /\ timer' = 0 /\ GetIndex' = GetIndex
        /\ UNCHANGED <<op, holds, elapsed, ctx, sent, source, get, attempt, result>>
      BY <1>2 DEF AttemptFailed, SameCall, GetIndex
  <2>2. attempt \in {1, 2} /\ timer \in Nat /\ elapsed \in Nat /\ GetIndex \in {0, 1, 2}
      BY <1>1, <1>2 DEF ProviderTypeOK, MaxAttempts, GetIndex
  <2>3. ProviderTypeOK'
      BY <1>1, <2>1 DEF ProviderTypeOK, SameCall
  <2>4. Route' /\ PrimaryDone' /\ FindsWhatIsHeld' /\ VerdictIsReal'
      BY <1>1, <2>1 DEF Route, PrimaryDone, FindsWhatIsHeld, VerdictIsReal, Asked, SameCall
  <2>5. Clock'
    <3>1. Spent + timer <= Spent' /\ Spent \in Nat /\ Spent' \in Nat
        BY <1>1, <2>1, <2>2 DEF Spent, Before, Clock
    <3>2. GetIndex * GetBudget \in Nat /\ GetBudget' = GetBudget
        BY <2>2 DEF GetBudget, MaxAttempts
    <3>3. elapsed <= GetIndex * GetBudget + Spent + timer
        BY <1>1 DEF Clock
    <3>4. elapsed <= GetIndex * GetBudget + Spent' + 0
        BY <2>2, <3>1, <3>2, <3>3
    <3>5. GetIndex' * GetBudget' = GetIndex * GetBudget
        BY <2>1, <3>2
    <3>6. 0 <= attempt * attempt * BackoffUnit
        BY <2>2
    <3> QED
        BY <1>1, <1>2, <2>1, <3>4, <3>5, <3>6 DEF Clock
  <2>6. Effort'
      BY <1>1, <2>1, <2>2 DEF Effort, SentNow, GetIndex, ProviderTypeOK, Sources, MaxAttempts
  <2> QED
      BY <2>3, <2>4, <2>5, <2>6 DEF ProviderInv
<1>3. CASE ~(attempt < MaxAttempts)
  <2>1. Conclude(err) /\ Honest(err)
      BY <1>1, <1>3, ErrorIsHonest DEF AttemptFailed, ProviderTypeOK, MaxAttempts
  <2> QED
      BY <2>1, ConcludeOK
<1> QED
    BY <1>2, <1>3

-----------------------------------------------------------------------------
(* One lemma per action *)

(* A new call starts with nothing spent. *)
LEMMA CallOK ==
    ASSUME ProviderInv, NEW o \in Ops, NEW h \in Holdings, Call(o, h)
    PROVE  ProviderInv'
<1> USE ProviderAssumption
<1>1. ProviderTypeOK'
    BY DEF Call, ProviderTypeOK, FirstGet, Sources, MaxAttempts
<1>2. Route' /\ PrimaryDone' /\ FindsWhatIsHeld' /\ VerdictIsReal'
    BY DEF Call, Route, PrimaryDone, FindsWhatIsHeld, VerdictIsReal, FirstGet, Ops
<1>3. Clock'
  <2>1. GetIndex' = 0 /\ Spent' = 0 /\ GetBudget' \in Nat
      BY DEF Call, GetIndex, Spent, Before, GetBudget, MaxAttempts
  <2>2. GetIndex' * GetBudget' = 0
      BY <2>1
  <2> QED
      BY <2>1, <2>2 DEF Call, Clock
<1>4. Effort'
    BY DEF Call, Effort, SentNow, GetIndex, Sources, MaxAttempts
<1> QED
    BY <1>1, <1>2, <1>3, <1>4 DEF ProviderInv

(* client.Do sends the request, or reports the end of the context. *)
LEMMA SendOK ==
    ASSUME ProviderInv, Send
    PROVE  ProviderInv'
<1> USE ProviderAssumption
<1>1. ProviderTypeOK /\ Route /\ Clock /\ Effort /\ PrimaryDone /\ pc = "send"
    BY DEF ProviderInv, Send
<1>2. CASE ctx = "live"
  <2>1. /\ pc' = "wait" /\ timer' = 0 /\ timer = 0 /\ GetIndex' = GetIndex /\ Spent' = Spent
        /\ sent' = [sent EXCEPT ![source] = @ + 1]
        /\ UNCHANGED <<op, holds, elapsed, ctx, gaveUp, source, get, attempt, result>>
      BY <1>1, <1>2 DEF Send, GetIndex, Spent, Clock
  <2>2. ProviderTypeOK'
      BY <1>1, <2>1 DEF ProviderTypeOK
  <2>3. Route' /\ PrimaryDone' /\ FindsWhatIsHeld' /\ VerdictIsReal'
      BY <1>1, <2>1 DEF Route, PrimaryDone, FindsWhatIsHeld, VerdictIsReal, Asked
  <2>4. Clock'
    <3>1. GetBudget' = GetBudget
        BY DEF GetBudget
    <3>2. GetIndex' * GetBudget' = GetIndex * GetBudget
        BY <2>1, <3>1
    <3> QED
        BY <1>1, <2>1, <3>2 DEF Clock
  <2>5. Effort'
    <3>1. /\ attempt \in 1..3 /\ SentNow = attempt - 1 /\ SentNow' = attempt
          /\ sent \in [Sources -> Nat] /\ source \in Sources
        BY <1>1, <2>1 DEF ProviderTypeOK, SentNow, MaxAttempts
    <3>2. CASE source = "openlibrary"
        BY <1>1, <2>1, <3>1, <3>2 DEF Effort, GetIndex, MaxAttempts, Sources
    <3>3. CASE source = "googlebooks"
        BY <1>1, <2>1, <3>1, <3>3 DEF Effort, GetIndex, MaxAttempts, Sources
    <3> QED
        BY <3>1, <3>2, <3>3 DEF Sources
  <2> QED
      BY <2>2, <2>3, <2>4, <2>5 DEF ProviderInv
<1>3. CASE ctx # "live"
  <2>1. SameCall /\ AttemptFailed(ctx) /\ ctx \in {"deadline", "canceled"}
      BY <1>1, <1>3 DEF Send, SameCall, ProviderTypeOK
  <2> QED
      BY <1>1, <1>3, <2>1, AttemptFailedOK
<1> QED
    BY <1>2, <1>3

(* Network errors, 429 and 5xx. *)
LEMMA TransientOK ==
    ASSUME ProviderInv, Transient
    PROVE  ProviderInv'
<1>1. SameCall /\ pc = "wait" /\ AttemptFailed("failed")
    BY DEF Transient, SameCall, GaveUpIfLast, GaveUp, ProviderInv, ProviderTypeOK
<1>2. attempt = MaxAttempts => source \in gaveUp'
    BY DEF Transient, GaveUpIfLast, GaveUp, MaxAttempts
<1> QED
    BY <1>1, <1>2, AttemptFailedOK

(* The end of the client's time or of the context. *)
LEMMA CutOffOK ==
    ASSUME ProviderInv, CutOff
    PROVE  ProviderInv'
<1>1. PICK err \in Outcomes :
        /\ \/ timer >= ClientTimeout /\ err = "deadline"
           \/ ctx # "live" /\ err = ctx
        /\ \/ pc = "wait" /\ AttemptFailed(err) /\ GaveUpIfLast
           \/ pc = "read" /\ Conclude(err) /\ GaveUp
    BY DEF CutOff
<1>2. SameCall /\ err \in {"deadline", "canceled", "failed"}
    BY <1>1 DEF CutOff, SameCall, GaveUpIfLast, GaveUp, ProviderInv, ProviderTypeOK
<1>3. CASE pc = "wait" /\ AttemptFailed(err) /\ GaveUpIfLast
  <2>1. attempt = MaxAttempts => source \in gaveUp'
      BY <1>3 DEF GaveUpIfLast, GaveUp, MaxAttempts
  <2> QED
      BY <1>2, <1>3, <2>1, AttemptFailedOK
<1>4. CASE pc = "read" /\ Conclude(err) /\ GaveUp
  <2>1. Honest(err)
      BY <1>2, <1>4, ErrorIsHonest DEF GaveUp
  <2> QED
      BY <1>2, <1>4, <2>1, ConcludeOK
<1> QED
    BY <1>1, <1>3, <1>4

(* Status 200. *)
LEMMA HeadersOK ==
    ASSUME ProviderInv, Headers
    PROVE  ProviderInv'
<1>1. ProviderTypeOK /\ Route /\ Clock /\ Effort /\ PrimaryDone
    BY DEF ProviderInv
<1>2. /\ pc = "wait" /\ pc' = "read" /\ GetIndex' = GetIndex /\ Spent' = Spent
      /\ UNCHANGED <<op, holds, elapsed, ctx, sent, gaveUp, source, get, attempt, timer, result>>
    BY DEF Headers, GetIndex, Spent, histVars
<1>3. ProviderTypeOK' /\ Route' /\ PrimaryDone' /\ FindsWhatIsHeld' /\ VerdictIsReal'
    BY <1>1, <1>2 DEF ProviderTypeOK, Route, PrimaryDone, FindsWhatIsHeld, VerdictIsReal, Asked
<1>4. Clock'
    BY <1>1, <1>2 DEF Clock, GetBudget
<1>5. Effort'
    BY <1>1, <1>2 DEF Effort, SentNow
<1> QED
    BY <1>3, <1>4, <1>5 DEF ProviderInv

(* 404 of the cover service is a verdict of Open Library. *)
LEMMA NoImageOK ==
    ASSUME ProviderInv, NoImage
    PROVE  ProviderInv'
<1>1. SameCall /\ pc = "wait" /\ Conclude("ErrNoCover")
    BY DEF NoImage, SameCall, histVars, ProviderInv, ProviderTypeOK
<1>2. op = "FetchCover" /\ ~Asked(source)
    BY DEF NoImage, ProviderInv, Route, FirstGet, Asked
<1>3. Honest("ErrNoCover")
    BY <1>2 DEF Honest, Outcomes
<1> QED
    BY <1>1, <1>3, ConcludeOK

(* A status or body that cannot be used is a failure of the provider. *)
LEMMA UnusableOK ==
    ASSUME ProviderInv, Unusable
    PROVE  ProviderInv'
<1>1. SameCall /\ pc # "idle" /\ Conclude("failed") /\ source \in gaveUp'
    BY DEF Unusable, SameCall, GaveUp, ProviderInv, ProviderTypeOK
<1>2. Honest("failed")
    BY <1>1, ErrorIsHonest
<1> QED
    BY <1>1, <1>2, ConcludeOK

(* What the provider makes of a whole body is a verdict on its holdings. *)
LEMMA BodyOK ==
    ASSUME ProviderInv, Body
    PROVE  ProviderInv'
<1>1. SameCall /\ pc = "read" /\ pc # "idle"
    BY DEF Body, SameCall, histVars, ProviderInv, ProviderTypeOK
<1>2. /\ op \in Ops /\ holds \in Holdings /\ source \in Sources /\ Route
      /\ get \in {"record", "cover"}
    BY DEF ProviderInv, ProviderTypeOK
<1>3. /\ holds \in [Sources -> [record : BOOLEAN, link : BOOLEAN, cover : BOOLEAN]]
      /\ holds["googlebooks"].cover => holds["googlebooks"].link
      /\ holds["googlebooks"].link => holds["googlebooks"].record
    BY <1>2 DEF Holdings
<1>4. CASE LookupBody
  <2>1. PICK outcome \in {"found", "ErrNotFound"} :
          Conclude(outcome) /\ (outcome = "ErrNotFound" <=> ~holds[source].record)
      BY <1>4 DEF LookupBody
  <2>2. Honest(outcome)
      BY <1>4, <2>1 DEF Honest, LookupBody, Asked, Outcomes
  <2> QED
      BY <1>1, <2>1, <2>2, ConcludeOK
<1>5. CASE VolumeBody
  <2>1. source = "googlebooks" /\ op # "Search" /\ get = "record"
      BY <1>2, <1>5 DEF VolumeBody, Route
  <2>2. CASE ~holds[source].record /\ Conclude("ErrNotFound")
    <3>1. ~Asked(source)
        BY <1>3, <2>1, <2>2 DEF Asked
    <3> QED
        BY <1>1, <2>1, <2>2, <3>1, ConcludeOK DEF Honest, Outcomes
  <2>3. CASE Conclude("found")
      BY <1>1, <2>3, ConcludeOK DEF Honest, Outcomes
  <2>4. CASE op = "FetchCover" /\ ~holds[source].link /\ Conclude("ErrNoCover")
    <3>1. ~Asked(source)
        BY <1>3, <2>1, <2>4 DEF Asked
    <3> QED
        BY <1>1, <2>1, <2>4, <3>1, ConcludeOK DEF Honest, Outcomes
  <2>5. CASE holds[source].link /\ op = "FetchCover" /\ StartGet(source, "cover")
      BY <1>1, <2>1, <2>5, StartGetOK
  <2> QED
      BY <1>5, <2>2, <2>3, <2>4, <2>5 DEF VolumeBody
<1>6. CASE ImageBody
  <2>1. PICK outcome \in {"found", "ErrNoCover"} :
          Conclude(outcome) /\ (outcome = "ErrNoCover" <=> ~holds[source].cover)
      BY <1>6 DEF ImageBody
  <2>2. op = "FetchCover"
      BY <1>2, <1>6 DEF ImageBody, Route, FirstGet, Ops, Sources
  <2>3. Honest(outcome)
      BY <2>1, <2>2 DEF Honest, Asked, Outcomes
  <2> QED
      BY <1>1, <2>1, <2>3, ConcludeOK
<1>7. CASE SearchBody
    BY <1>1, <1>7, ConcludeOK DEF SearchBody, Honest, Outcomes
<1> QED
    BY <1>4, <1>5, <1>6, <1>7 DEF Body

(* The next attempt, or the end of the context. *)
LEMMA BackoffOK ==
    ASSUME ProviderInv, Backoff
    PROVE  ProviderInv'
<1> USE ProviderAssumption
<1>1. ProviderTypeOK /\ Route /\ Clock /\ Effort /\ PrimaryDone /\ pc = "backoff"
    BY DEF ProviderInv, Backoff
<1>2. CASE /\ timer >= attempt * attempt * BackoffUnit
           /\ attempt' = attempt + 1
           /\ pc' = "send" /\ timer' = 0
           /\ UNCHANGED <<source, get, result>>
  <2>1. /\ attempt' = attempt + 1 /\ pc' = "send" /\ timer' = 0 /\ GetIndex' = GetIndex
        /\ UNCHANGED <<op, holds, elapsed, ctx, sent, gaveUp, source, get, result>>
      BY <1>2 DEF Backoff, GetIndex, histVars
  <2>2. /\ attempt \in {1, 2} /\ timer \in Nat /\ elapsed \in Nat /\ GetIndex \in {0, 1, 2}
        /\ timer <= attempt * attempt * BackoffUnit
      BY <1>1 DEF ProviderTypeOK, MaxAttempts, GetIndex, Clock
  <2>3. ProviderTypeOK'
      BY <1>1, <2>1, <2>2 DEF ProviderTypeOK, MaxAttempts
  <2>4. Route' /\ PrimaryDone' /\ FindsWhatIsHeld' /\ VerdictIsReal'
      BY <1>1, <2>1 DEF Route, PrimaryDone, FindsWhatIsHeld, VerdictIsReal, Asked
  <2>5. Clock'
    <3>1. Spent + timer <= Spent' /\ Spent \in Nat /\ Spent' \in Nat
      <4>1. CASE attempt = 1
          BY <1>1, <2>1, <2>2, <4>1 DEF Spent, Before
      <4>2. CASE attempt = 2
          BY <1>1, <2>1, <2>2, <4>2 DEF Spent, Before
      <4> QED
          BY <2>2, <4>1, <4>2
    <3>2. GetIndex * GetBudget \in Nat /\ GetBudget' = GetBudget
        BY <2>2 DEF GetBudget, MaxAttempts
    <3>3. elapsed <= GetIndex * GetBudget + Spent + timer
        BY <1>1 DEF Clock
    <3>4. elapsed <= GetIndex * GetBudget + Spent' + 0
        BY <2>2, <3>1, <3>2, <3>3
    <3>5. GetIndex' * GetBudget' = GetIndex * GetBudget
        BY <2>1, <3>2
    <3> QED
        BY <1>1, <2>1, <3>4, <3>5 DEF Clock
  <2>6. Effort'
    <3>1. SentNow' = SentNow
        BY <1>1, <2>1, <2>2 DEF SentNow
    <3> QED
        BY <1>1, <2>1, <3>1 DEF Effort
  <2> QED
      BY <2>3, <2>4, <2>5, <2>6 DEF ProviderInv
<1>3. CASE ctx # "live" /\ Conclude(ctx)
  <2>1. SameCall /\ ctx \in {"deadline", "canceled"}
      BY <1>1, <1>3 DEF Backoff, SameCall, histVars, ProviderTypeOK
  <2>2. Honest(ctx)
      BY <1>3, <2>1, ErrorIsHonest
  <2> QED
      BY <1>1, <1>3, <2>1, <2>2, ConcludeOK
<1> QED
    BY <1>2, <1>3 DEF Backoff

(* Time passes only while something still has to wait. *)
LEMMA TickOK ==
    ASSUME ProviderInv, Tick
    PROVE  ProviderInv'
<1> USE ProviderAssumption
<1>1. ProviderTypeOK /\ Route /\ Clock /\ Effort /\ PrimaryDone
    BY DEF ProviderInv
<1>2. /\ pc \in {"wait", "read", "backoff"} /\ ctx = "live"
      /\ pc \in {"wait", "read"} => timer < ClientTimeout
      /\ pc = "backoff" => timer < attempt * attempt * BackoffUnit
  <2>1. /\ attempt \in {1, 2, 3} /\ timer \in Nat
        /\ attempt * attempt * BackoffUnit \in Nat
      BY <1>1 DEF ProviderTypeOK, MaxAttempts
  <2> QED
      BY <1>1, <2>1 DEF Tick, Due, BackoffOver, ProviderTypeOK
<1>3. /\ timer' = timer + 1 /\ elapsed' = elapsed + 1
      /\ GetIndex' = GetIndex /\ Spent' = Spent /\ SentNow' = SentNow
      /\ UNCHANGED <<op, holds, source, get, attempt, pc, result, sent, gaveUp>>
      /\ ctx' = IF op = "Search" /\ elapsed + 1 >= SearchTimeout THEN "deadline" ELSE "live"
    BY <1>2 DEF Tick, histVars, GetIndex, Spent, SentNow
<1>4. ProviderTypeOK'
    BY <1>1, <1>3 DEF ProviderTypeOK
<1>5. Route' /\ PrimaryDone' /\ FindsWhatIsHeld' /\ VerdictIsReal'
    BY <1>1, <1>2, <1>3 DEF Route, PrimaryDone, FindsWhatIsHeld, VerdictIsReal, Asked
<1>6. Clock'
  <2>1. /\ timer \in Nat /\ elapsed \in Nat /\ attempt \in {1, 2, 3}
        /\ Spent \in Nat /\ GetIndex \in {0, 1, 2}
      BY <1>1 DEF ProviderTypeOK, MaxAttempts, Spent, Before, GetIndex
  <2>2. GetIndex * GetBudget \in Nat /\ GetBudget' = GetBudget
      BY <2>1 DEF GetBudget, MaxAttempts
  <2>3. elapsed <= GetIndex * GetBudget + Spent + timer
      BY <1>1, <1>2 DEF Clock
  <2>4. elapsed + 1 <= GetIndex * GetBudget + Spent + (timer + 1)
      BY <2>1, <2>2, <2>3
  <2>5. GetIndex' * GetBudget' = GetIndex * GetBudget
      BY <1>3, <2>2
  <2>6. attempt * attempt * BackoffUnit \in Nat
      BY <2>1
  <2>7. /\ op = "Search" => elapsed' <= SearchTimeout
        /\ op = "Search" /\ ctx' = "live" => elapsed' < SearchTimeout
      BY <1>1, <1>2, <1>3, <2>1 DEF Clock
  <2> QED
      BY <1>1, <1>2, <1>3, <2>1, <2>4, <2>5, <2>6, <2>7 DEF Clock
<1>7. Effort'
    BY <1>1, <1>2, <1>3 DEF Effort
<1> QED
    BY <1>4, <1>5, <1>6, <1>7 DEF ProviderInv

(* A cancelled call goes on until it notices; a stuttering step changes    *)
(* nothing.                                                                *)
LEMMA CancelOK ==
    ASSUME ProviderInv, Cancel \/ UNCHANGED providerVars
    PROVE  ProviderInv'
<1>1. ProviderTypeOK /\ Route /\ Clock /\ Effort /\ PrimaryDone
    BY DEF ProviderInv
<1>2. /\ GetIndex' = GetIndex /\ Spent' = Spent /\ SentNow' = SentNow
      /\ UNCHANGED <<op, holds, source, get, attempt, pc, timer, elapsed, result, sent, gaveUp>>
      /\ ctx' = ctx \/ ctx' = "canceled"
    BY DEF Cancel, providerVars, getVars, histVars, GetIndex, Spent, SentNow
<1>3. ProviderTypeOK' /\ Route' /\ PrimaryDone'
    BY <1>1, <1>2 DEF ProviderTypeOK, Route, PrimaryDone, Asked
<1>4. FindsWhatIsHeld' /\ VerdictIsReal'
    BY <1>2 DEF ProviderInv, FindsWhatIsHeld, VerdictIsReal, Asked, Consulted
<1>5. Clock'
    BY <1>1, <1>2 DEF Clock, GetBudget, GetsOf
<1>6. Effort'
    BY <1>1, <1>2 DEF Effort, GetsOf
<1> QED
    BY <1>3, <1>4, <1>5, <1>6 DEF ProviderInv

(* Before the first call nothing has been asked. *)
LEMMA ProviderInitOK == ProviderInit => ProviderInv
<1> USE ProviderAssumption
<1> SUFFICES ASSUME ProviderInit PROVE ProviderInv
    OBVIOUS
<1>1. ProviderTypeOK
    BY DEF ProviderInit, ProviderTypeOK, Ops, Holdings, Sources, Outcomes, MaxAttempts
<1>2. Route /\ PrimaryDone /\ FindsWhatIsHeld /\ VerdictIsReal
    BY DEF ProviderInit, Route, FirstGet, PrimaryDone, FindsWhatIsHeld, VerdictIsReal
<1>3. Clock
    BY DEF ProviderInit, Clock, GetsOf, GetBudget, MaxAttempts
<1>4. Effort
    BY DEF ProviderInit, Effort, GetsOf, Sources, MaxAttempts
<1> QED
    BY <1>1, <1>2, <1>3, <1>4 DEF ProviderInv

-----------------------------------------------------------------------------
(* The theorems *)

(* The inductive invariant: the GETs come in order, each within its budget *)
(* of time and of requests, and the secondary is asked only where the      *)
(* primary has nothing or was not heard.                                   *)
THEOREM ProviderInvariance == ProviderSpec => []ProviderInv
<1>1. ProviderInv /\ [ProviderNext]_providerVars => ProviderInv'
    BY CallOK, SendOK, TransientOK, CutOffOK, HeadersOK, NoImageOK, UnusableOK, BodyOK,
       BackoffOK, TickOK, CancelOK DEF ProviderNext, Progress
<1> QED
    BY <1>1, ProviderInitOK, PTL DEF ProviderSpec

(* httpGetWithRetry never counts past its attempts, and what a call        *)
(* returns is one of the outcomes its callers tell apart.                  *)
THEOREM ProviderTypeCorrect == ProviderSpec => []ProviderTypeOK
<1>1. ProviderInv => ProviderTypeOK
    BY DEF ProviderInv
<1> QED
    BY <1>1, ProviderInvariance, PTL

(* FallbackProvider: an error reaches a caller that is still there only    *)
(* when every catalogue that holds the answer was asked and not heard.     *)
THEOREM HeldIsFound == ProviderSpec => []FindsWhatIsHeld
<1>1. ProviderInv => FindsWhatIsHeld
    BY DEF ProviderInv
<1> QED
    BY <1>1, ProviderInvariance, PTL

(* ErrNotFound and ErrNoCover are what the last catalogue really said. *)
THEOREM VerdictsAreReal == ProviderSpec => []VerdictIsReal
<1>1. ProviderInv => VerdictIsReal
    BY DEF ProviderInv
<1> QED
    BY <1>1, ProviderInvariance, PTL

(* http.Client.Timeout, maxAttempts and the backoff together: at every     *)
(* moment a call is within its GETs' budget, a search within its deadline, *)
(* and no GET has been sent more than three times.                         *)
THEOREM EffortIsBounded == ProviderSpec => []BoundedEffort
<1>1. ProviderInv => BoundedEffort
  <2> SUFFICES ASSUME ProviderInv PROVE BoundedEffort
      OBVIOUS
  <2>1. ProviderTypeOK /\ Route /\ Clock /\ Effort
      BY DEF ProviderInv
  <2>2. elapsed <= GetsOf(op) * GetBudget
    <3>1. CASE pc = "idle"
        BY <2>1, <3>1 DEF Clock
    <3>2. CASE pc # "idle"
        BY <2>1, <3>2, GetFits
    <3> QED
        BY <3>1, <3>2
  <2>3. sent["openlibrary"] <= 3 /\ sent["googlebooks"] <= (GetsOf(op) - 1) * 3
    <3>1. CASE pc = "idle"
        BY <2>1, <3>1 DEF Effort, MaxAttempts
    <3>2. CASE pc # "idle"
        BY <2>1, <3>2, SentFits
    <3> QED
        BY <3>1, <3>2
  <2> QED
      BY <2>1, <2>2, <2>3 DEF BoundedEffort, Clock, MaxAttempts
<1> QED
    BY <1>1, ProviderInvariance, PTL
=============================================================================
