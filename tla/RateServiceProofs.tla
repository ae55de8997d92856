--------------------------- MODULE RateServiceProofs ---------------------------
(***************************************************************************)
(* Type correctness of RateService, the agreement of the stored and the    *)
(* listed currencies, that stored rates go back only in a race of          *)
(* requests, and what a completed nightly refresh has reached, for any     *)
(* currencies, requests, nights and faults.                                *)
(***************************************************************************)
EXTENDS RateService, TLAPS

USE BoundAssumption

(* A job is queued once and picked up again at most once.                  *)
Queueing ==
  \A j \in Jobs : /\ j > night => job[j] = "none"
                  /\ job[j] \in {"none", "waiting", "active"} => stalls[j] \in 0..1

LEMMA QueueingStep == TypeOK /\ Queueing /\ [Next]_vars => Queueing'
<1> SUFFICES ASSUME TypeOK, Queueing, [Next]_vars PROVE Queueing'
  OBVIOUS
<1> USE DEF TypeOK, Queueing, Jobs
<1>1. CASE HandleCron
  <2>1. /\ night' = night + 1 /\ UNCHANGED stalls
        /\ job' = [job EXCEPT ![night'] = "waiting"]
    BY <1>1 DEF HandleCron, worker
  <2>2. night' \in Jobs /\ job[night'] = "none"
    BY <1>1, <2>1 DEF HandleCron
  <2> QED BY <2>1, <2>2
<1>2. ASSUME NEW j \in Jobs, StartJob(j) \/ StoreNext(j) \/ FailJob(j)
      PROVE  Queueing'
  <2>1. /\ job[j] \in {"waiting", "active"} /\ UNCHANGED <<stalls, night>>
        /\ \E s \in {"active", "completed", "failed"} : job' = [job EXCEPT ![j] = s]
    BY <1>2 DEF StartJob, StoreNext, FailJob, AfterError
  <2> QED BY <2>1
<1>3. CASE Restart
  <2>1. UNCHANGED night
    BY <1>3 DEF Restart
  <2>2. ASSUME NEW j \in Jobs
        PROVE  /\ j > night => job'[j] = "none"
               /\ job'[j] \in {"none", "waiting", "active"} => stalls'[j] \in 0..1
    BY <1>3 DEF Restart, Active, PickedUpAgain
  <2> QED BY <2>1, <2>2
<1>4. ASSUME UNCHANGED <<night, job, stalls>> PROVE Queueing'
  BY <1>4
<1>5. CASE UNCHANGED vars
  BY <1>4, <1>5 DEF vars
<1>6. ASSUME NEW r \in Requests, GetCached(r) \/ RequestStep(r) \/ FailRequest(r)
      PROVE  Queueing'
  BY <1>4, <1>6 DEF GetCached, RequestStep, FetchMissing, StoreFetched, ListCurrency,
                    FailRequest, worker
<1>7. ASSUME NEW j \in Jobs, FetchNext(j) PROVE Queueing'
  BY <1>4, <1>7 DEF FetchNext
<1>8. CASE Publish
  BY <1>4, <1>8 DEF Publish, worker
<1> QED
  BY <1>1, <1>2, <1>3, <1>5, <1>6, <1>7, <1>8 DEF Next, WorkerStep

-------------------------------------------------------------------------------
(* Type correctness.  Nothing holds a version that is not published yet.   *)
LEMMA InitTypeOK == Init => TypeOK
BY DEF Init, TypeOK, Versions, InFlight, Jobs

LEMMA TypeStep == TypeOK /\ Queueing /\ [Next]_vars => TypeOK'
<1> SUFFICES ASSUME TypeOK, Queueing, [Next]_vars PROVE TypeOK'
  OBVIOUS
<1> USE DEF TypeOK, InFlight, Goto, Versions
<1>0. \A n \in 0..published : n \in 0..(published + 1)
  OBVIOUS
<1>1. CASE Publish
  <2>1. published' = published + 1 /\ published' \in Versions \ {0}
    BY <1>1 DEF Publish
  <2>2. UNCHANGED <<baseCode, cache, currencySet, pc, got, night, job, todo, fetched, stalls,
                    due, promised, late, rivals>>
    BY <1>1 DEF Publish, redis, requests, worker, history
  <2>3. /\ cache' \in [Currencies -> 0..published']
        /\ got' \in [Requests -> 0..published']
        /\ fetched' \in 0..published'
        /\ due' \in [Jobs -> 0..published']
    BY <1>0, <2>1, <2>2
  <2> QED BY <2>1, <2>2, <2>3
<1>2. ASSUME NEW r \in Requests, GetCached(r)  PROVE TypeOK'
  BY <1>2 DEF GetCached, redis, worker
<1>3. ASSUME NEW r \in Requests, FetchMissing(r)  PROVE TypeOK'
  BY <1>3 DEF FetchMissing, redis, worker, history
<1>4. ASSUME NEW r \in Requests, StoreFetched(r)  PROVE TypeOK'
  <2>1. late' \in [Jobs -> SUBSET Requests]
    BY <1>4 DEF StoreFetched
  <2> QED BY <1>4, <2>1 DEF StoreFetched, worker
<1>5. ASSUME NEW r \in Requests, ListCurrency(r)  PROVE TypeOK'
  <2>1. currencySet \subseteq currencySet' /\ currencySet' \subseteq Currencies
    BY <1>5 DEF ListCurrency
  <2>2. promised' \in [Jobs -> SUBSET currencySet'] /\ todo' \subseteq currencySet'
    BY <1>5, <2>1 DEF ListCurrency, worker, history
  <2>3. pc' \in [Requests -> {"new", "done", "failed"} \cup InFlight]
    BY <1>5 DEF ListCurrency
  <2> QED BY <1>5, <2>1, <2>2, <2>3 DEF ListCurrency, worker, history
<1>6. ASSUME NEW r \in Requests, FailRequest(r)  PROVE TypeOK'
  BY <1>6 DEF FailRequest, redis, worker, history
<1>7. CASE HandleCron
  BY <1>7 DEF HandleCron, redis, requests, history, Jobs
<1>8. ASSUME NEW j \in Jobs, StartJob(j)  PROVE TypeOK'
  <2>1. job' \in [Jobs -> {"none", "waiting", "active", "completed", "failed"}]
    BY <1>8 DEF StartJob
  <2>2. due' \in [Jobs -> 0..published'] /\ promised' \in [Jobs -> SUBSET currencySet']
    BY <1>8 DEF StartJob, redis
  <2>3. todo' \subseteq currencySet' /\ fetched' \in 0..published'
    BY <1>8 DEF StartJob, redis
  <2> QED BY <1>8, <2>1, <2>2, <2>3 DEF StartJob, redis, requests
<1>9. ASSUME NEW j \in Jobs, FetchNext(j)  PROVE TypeOK'
  BY <1>9 DEF FetchNext, redis, requests, history
<1>10. ASSUME NEW j \in Jobs, StoreNext(j)  PROVE TypeOK'
  <2>1. PICK c \in todo : /\ cache' = [cache EXCEPT ![c] = fetched]
                          /\ todo' = todo \ {c}
                          /\ fetched' = 0
                          /\ job' = IF JobEnds(todo') THEN [job EXCEPT ![j] = "completed"] ELSE job
    BY <1>10 DEF StoreNext
  <2>2. UNCHANGED <<published, currencySet, baseCode, pc, got, night, stalls, due, promised, late, rivals>>
    BY <1>10 DEF StoreNext, requests, history
  <2> QED BY <2>1, <2>2
<1>11. ASSUME NEW j \in Jobs, FailJob(j)  PROVE TypeOK'
  BY <1>11 DEF FailJob, AfterError, redis, requests, history
<1>12. CASE Restart
  <2>1. stalls' \in [Jobs -> 0..2] /\ job' \in [Jobs -> {"none", "waiting", "active", "completed", "failed"}]
    BY <1>12 DEF Restart, Active, Queueing
  <2> QED BY <1>12, <2>1 DEF Restart, redis, history
<1>13. CASE UNCHANGED vars
  BY <1>13 DEF vars
<1> QED
  BY <1>1, <1>2, <1>3, <1>4, <1>5, <1>6, <1>7, <1>8, <1>9, <1>10, <1>11, <1>12, <1>13
     DEF Next, RequestStep, WorkerStep

LEMMA TypeInvariant == Spec => [](TypeOK /\ Queueing)
<1>1. Init => Queueing
  BY DEF Init, Queueing, Jobs
<1> QED
  BY <1>1, InitTypeOK, TypeStep, QueueingStep, PTL DEF Spec

(* Every variable has its type; in particular nothing holds rates that are *)
(* not published yet, and no job is picked up a third time.                *)
THEOREM TypeCorrect == Spec => []TypeOK
BY TypeInvariant, PTL

-------------------------------------------------------------------------------
(* What is stored and what is listed.                                      *)
Stored ==
  /\ ListedMatchesStored
  /\ \A r \in Requests :
       /\ pc[r] \in {"fetched", "stored"} => got[r] # 0
       /\ pc[r] = "stored" => cache[baseCode[r]] # 0

LEMMA StoredFrame ==
  ASSUME Stored, UNCHANGED <<baseCode, cache, currencySet, pc, got>>
  PROVE  Stored'
BY DEF Stored, ListedMatchesStored

LEMMA StoredStep == TypeOK /\ Stored /\ [Next]_vars => Stored'
<1> SUFFICES ASSUME TypeOK, Stored, [Next]_vars PROVE Stored'
  OBVIOUS
<1> USE DEF TypeOK, Goto, InFlight
<1>1. ASSUME NEW r \in Requests, GetCached(r) PROVE Stored'
  <2>1. /\ pc[r] = "new" /\ UNCHANGED <<baseCode, cache, currencySet>>
        /\ pc' = [pc EXCEPT ![r] = "done"] \/ pc' = [pc EXCEPT ![r] = "miss"]
        /\ \A q \in Requests \ {r} : got'[q] = got[q]
    BY <1>1 DEF GetCached, redis
  <2> QED BY <2>1 DEF Stored, ListedMatchesStored
<1>2. ASSUME NEW r \in Requests, FetchMissing(r) PROVE Stored'
  BY <1>2 DEF FetchMissing, redis, Stored, ListedMatchesStored
<1>3. ASSUME NEW r \in Requests, StoreFetched(r) PROVE Stored'
  BY <1>3 DEF StoreFetched, Stored, ListedMatchesStored
<1>4. ASSUME NEW r \in Requests, ListCurrency(r) PROVE Stored'
  BY <1>4 DEF ListCurrency, MayList, Stored, ListedMatchesStored
<1>5. ASSUME NEW r \in Requests, FailRequest(r) PROVE Stored'
  BY <1>5 DEF FailRequest, redis, Stored, ListedMatchesStored
<1>6. ASSUME NEW j \in Jobs, StoreNext(j) PROVE Stored'
  <2>1. PICK c \in todo : cache' = [cache EXCEPT ![c] = fetched]
    BY <1>6 DEF StoreNext
  <2>2. fetched # 0 /\ c \in currencySet /\ UNCHANGED <<baseCode, currencySet, pc, got>>
    BY <1>6 DEF StoreNext, requests
  <2> QED BY <2>1, <2>2 DEF Stored, ListedMatchesStored
<1>7. CASE Restart
  BY <1>7 DEF Restart, redis, Stored, ListedMatchesStored
<1>8. ASSUME NEW j \in Jobs, StartJob(j) \/ FetchNext(j) \/ FailJob(j) PROVE Stored'
  BY <1>8, StoredFrame DEF StartJob, FetchNext, FailJob, redis, requests
<1>9. CASE Publish \/ HandleCron
  BY <1>9, StoredFrame DEF Publish, HandleCron, redis, requests
<1>10. CASE UNCHANGED vars
  BY <1>10, StoredFrame DEF vars
<1> QED
  BY <1>1, <1>2, <1>3, <1>4, <1>5, <1>6, <1>7, <1>8, <1>9, <1>10
     DEF Next, RequestStep, WorkerStep

LEMMA StoredInvariant == Spec => [](TypeOK /\ Queueing /\ Stored)
<1>1. Init => Stored
  BY DEF Init, Stored, ListedMatchesStored
<1> QED
  BY <1>1, TypeInvariant, StoredStep, PTL DEF Spec

(* Listed currencies have rates, and rates that are stored but not listed  *)
(* are those of a request on its way to list them or cut off before.       *)
THEOREM ListedAndStored == Spec => []ListedMatchesStored
BY StoredInvariant, PTL DEF Stored

-------------------------------------------------------------------------------
(* Races of requests.                                                      *)
Fetching(r) == pc[r] \in {"miss", "fetched"}

(* Without rivals a request that is to store rates is the only one for its *)
(* currency, and there are no rates yet; and the worker holds rates that   *)
(* are not older than those it is to replace.                              *)
Alone ==
  /\ \A r \in Requests : Fetching(r) /\ baseCode[r] \notin rivals =>
       /\ cache[baseCode[r]] = 0
       /\ \A q \in Requests : Fetching(q) /\ baseCode[q] = baseCode[r] => q = r
  /\ fetched # 0 => \A c \in todo \ rivals : cache[c] <= fetched

LEMMA AloneFrame ==
  ASSUME TypeOK, Alone, UNCHANGED <<baseCode, cache, rivals>>,
         \A r \in Requests : Fetching(r)' => Fetching(r),
         fetched' = 0 \/ UNCHANGED <<fetched, todo>>
  PROVE  Alone'
BY DEF Alone, TypeOK, Fetching

LEMMA AloneStep == TypeOK /\ Stored /\ Alone /\ [Next]_vars => Alone'
<1> SUFFICES ASSUME TypeOK, Stored, Alone, [Next]_vars PROVE Alone'
  OBVIOUS
<1> USE DEF TypeOK, Goto, InFlight
<1>1. ASSUME NEW r \in Requests, GetCached(r) PROVE Alone'
  <2>1. pc[r] = "new" /\ UNCHANGED <<baseCode, cache, fetched, todo>>
    BY <1>1 DEF GetCached, redis, worker
  <2>2. CASE Cached(r)
    BY <1>1, <2>1, <2>2, AloneFrame DEF GetCached, Fetching
  <2>3. CASE ~ Cached(r)
    <3>1. /\ cache[baseCode[r]] = 0
          /\ pc' = [pc EXCEPT ![r] = "miss"]
          /\ rivals \subseteq rivals'
          /\ \A q \in Requests : Fetching(q) /\ baseCode[q] = baseCode[r] => baseCode[r] \in rivals'
      BY <1>1, <2>3 DEF GetCached, Cached, Fetching
    <3> QED BY <2>1, <3>1 DEF Alone, Fetching
  <2> QED BY <2>2, <2>3
<1>2. ASSUME NEW r \in Requests, FetchMissing(r) PROVE Alone'
  BY <1>2, AloneFrame DEF FetchMissing, Fetching, redis, worker, history
<1>3. ASSUME NEW r \in Requests, StoreFetched(r) PROVE Alone'
  <2>1. /\ pc[r] = "fetched" /\ pc' = [pc EXCEPT ![r] = "stored"]
        /\ cache' = [cache EXCEPT ![baseCode[r]] = got[r]]
        /\ UNCHANGED <<baseCode, rivals, fetched, todo, currencySet>>
    BY <1>3 DEF StoreFetched, worker
  <2>2. baseCode[r] \notin rivals => baseCode[r] \notin todo
    BY <2>1 DEF Alone, Fetching, Stored, ListedMatchesStored
  <2> QED BY <2>1, <2>2 DEF Alone, Fetching
<1>4. ASSUME NEW r \in Requests, ListCurrency(r) \/ FailRequest(r) PROVE Alone'
  BY <1>4, AloneFrame DEF ListCurrency, MayList, FailRequest, Fetching, redis, worker, history
<1>5. ASSUME NEW j \in Jobs, FetchNext(j) PROVE Alone'
  BY <1>5 DEF FetchNext, Alone, Fetching, redis, requests, history
<1>6. ASSUME NEW j \in Jobs, StoreNext(j) PROVE Alone'
  <2>1. PICK c \in todo : cache' = [cache EXCEPT ![c] = fetched]
    BY <1>6 DEF StoreNext
  <2>2. cache[c] # 0 /\ fetched' = 0 /\ UNCHANGED <<baseCode, pc, rivals>>
    BY <1>6 DEF StoreNext, requests, history, Stored, ListedMatchesStored
  <2> QED BY <2>1, <2>2 DEF Alone, Fetching
<1>7. ASSUME NEW j \in Jobs, StartJob(j) \/ FailJob(j) PROVE Alone'
  BY <1>7, AloneFrame DEF StartJob, FailJob, Fetching, redis, requests, history
<1>8. CASE Restart
  BY <1>8, AloneFrame DEF Restart, Fetching, redis, history
<1>9. CASE Publish \/ HandleCron
  BY <1>9, AloneFrame DEF Publish, HandleCron, Fetching, redis, requests, worker, history
<1>10. CASE UNCHANGED vars
  BY <1>10, AloneFrame DEF vars, Fetching
<1> QED
  BY <1>1, <1>2, <1>3, <1>4, <1>5, <1>6, <1>7, <1>8, <1>9, <1>10
     DEF Next, RequestStep, WorkerStep

(* Only where two requests fetched at a time can rates become older.       *)
LEMMA NoRollbackStep ==
  TypeOK /\ Alone /\ [Next]_vars => \A c \in Currencies \ rivals : cache'[c] >= cache[c]
<1> SUFFICES ASSUME TypeOK, Alone, [Next]_vars, NEW c \in Currencies \ rivals
             PROVE  cache'[c] >= cache[c]
  OBVIOUS
<1> USE DEF TypeOK
<1>1. ASSUME NEW r \in Requests, StoreFetched(r) PROVE cache'[c] >= cache[c]
  <2>1. cache' = [cache EXCEPT ![baseCode[r]] = got[r]] /\ pc[r] = "fetched"
    BY <1>1 DEF StoreFetched
  <2>2. baseCode[r] \notin rivals => cache[baseCode[r]] = 0
    BY <2>1 DEF Alone, Fetching
  <2> QED BY <2>1, <2>2
<1>2. ASSUME NEW j \in Jobs, StoreNext(j) PROVE cache'[c] >= cache[c]
  <2>1. PICK d \in todo : cache' = [cache EXCEPT ![d] = fetched]
    BY <1>2 DEF StoreNext
  <2>2. d \notin rivals => cache[d] <= fetched
    BY <1>2 DEF StoreNext, Alone
  <2> QED BY <2>1, <2>2
<1>3. ASSUME UNCHANGED cache PROVE cache'[c] >= cache[c]
  BY <1>3
<1> QED
  BY <1>1, <1>2, <1>3
     DEF Next, RequestStep, WorkerStep, GetCached, FetchMissing, ListCurrency, FailRequest,
         StartJob, FetchNext, FailJob, Restart, Publish, HandleCron, vars, redis

(* Rates never go back for a currency that no two requests fetched at the  *)
(* same time, whatever the worker does meanwhile.                          *)
THEOREM RollbackNeedsRace == Spec => NoRollbackWithoutRace
<1>1. Init => Alone
  BY DEF Init, Alone, Fetching
<1>2. Spec => []Alone
  BY <1>1, StoredInvariant, AloneStep, PTL DEF Spec
<1> QED
  BY <1>2, StoredInvariant, NoRollbackStep, PTL DEF Spec, NoRollbackWithoutRace

-------------------------------------------------------------------------------
(* The nightly refresh.                                                    *)

(* What job j stored for c is there, or newer rates, or those of a request *)
(* that came late.                                                         *)
Refreshed(j, c) ==
  \/ cache[c] >= due[j]
  \/ \E r \in late[j] : baseCode[r] = c /\ got[r] = cache[c]

(* A job has refreshed all but what is left to do, and the running job     *)
(* holds rates at least as new as those any job started with.              *)
Refreshing ==
  /\ \A j \in Jobs : /\ \A c \in Reached(j) : Refreshed(j, c)
                     /\ \A r \in late[j] : pc[r] \in {"stored", "done", "failed"}
  /\ \A j \in Jobs : job[j] = "active" =>
       /\ fetched # 0 => fetched >= due[j]
       /\ \A i \in Jobs : due[i] <= due[j] /\ (job[i] = "active" => i = j)

(* Steps that store nothing, and leave the running job where it is.        *)
LEMMA RefreshingFrame ==
  ASSUME TypeOK, Refreshing, UNCHANGED <<baseCode, cache, todo, fetched, job, due, promised, late>>,
         \A r \in Requests : pc[r] \in {"stored", "done", "failed"} =>
           pc'[r] \in {"stored", "done", "failed"} /\ got'[r] = got[r]
  PROVE  Refreshing'
<1>1. ASSUME NEW j \in Jobs, NEW c \in Reached(j) PROVE Refreshed(j, c)'
  <2>1. \A r \in late[j] : got'[r] = got[r]
    BY DEF TypeOK, Refreshing
  <2> QED BY <2>1 DEF Refreshing, Refreshed
<1>2. \A j \in Jobs : Reached(j)' = Reached(j)
  BY DEF Reached
<1>3. \A j \in Jobs : \A r \in late'[j] : pc'[r] \in {"stored", "done", "failed"}
  BY DEF TypeOK, Refreshing
<1> QED BY <1>1, <1>2, <1>3 DEF Refreshing

(* Steps that end the running job, or queue one, and store nothing.        *)
LEMMA RefreshingEnd ==
  ASSUME TypeOK, Refreshing, UNCHANGED <<baseCode, cache, got, due, promised, late>>,
         \A r \in Requests : pc[r] \in {"stored", "done", "failed"} =>
           pc'[r] \in {"stored", "done", "failed"},
         \A j \in Jobs : job'[j] # "active" /\ (job'[j] = "completed" => job[j] = "completed")
  PROVE  Refreshing'
<1>1. ASSUME NEW j \in Jobs, NEW c \in Reached(j)' PROVE Refreshed(j, c)'
  <2>1. c \in Reached(j)
    BY <1>1 DEF Reached
  <2> QED BY <2>1 DEF Refreshing, Refreshed
<1>2. \A j \in Jobs : \A r \in late'[j] : pc'[r] \in {"stored", "done", "failed"}
  BY DEF TypeOK, Refreshing
<1> QED BY <1>1, <1>2 DEF Refreshing

LEMMA RefreshingStep == TypeOK /\ Queueing /\ Refreshing /\ [Next]_vars => Refreshing'
<1> SUFFICES ASSUME TypeOK, Queueing, Refreshing, [Next]_vars PROVE Refreshing'
  OBVIOUS
<1> USE DEF Goto, InFlight
<1>0. /\ pc \in [Requests -> {"new", "done", "failed"} \cup InFlight]
      /\ got \in [Requests -> 0..published] /\ cache \in [Currencies -> 0..published]
      /\ baseCode \in [Requests -> Currencies] /\ published \in Nat
      /\ job \in [Jobs -> {"none", "waiting", "active", "completed", "failed"}]
      /\ due \in [Jobs -> 0..published] /\ promised \in [Jobs -> SUBSET Currencies]
      /\ todo \subseteq Currencies /\ fetched \in 0..published
      /\ late \in [Jobs -> SUBSET Requests]
  BY DEF TypeOK, Versions
<1>1. ASSUME NEW r \in Requests, GetCached(r) \/ FetchMissing(r) \/ ListCurrency(r) \/ FailRequest(r)
      PROVE  Refreshing'
  <2>1. UNCHANGED <<baseCode, cache, todo, fetched, job, due, promised, late>>
    BY <1>1 DEF GetCached, FetchMissing, ListCurrency, FailRequest, redis, worker, history
  <2>2. \A q \in Requests : pc[q] \in {"stored", "done", "failed"} =>
          pc'[q] \in {"stored", "done", "failed"} /\ got'[q] = got[q]
    BY <1>0, <1>1 DEF GetCached, FetchMissing, ListCurrency, MayList, FailRequest
  <2> QED BY <2>1, <2>2, RefreshingFrame
<1>2. ASSUME NEW r \in Requests, StoreFetched(r) PROVE Refreshing'
  <2>1. /\ pc[r] = "fetched" /\ pc' = [pc EXCEPT ![r] = "stored"]
        /\ cache' = [cache EXCEPT ![baseCode[r]] = got[r]]
        /\ late' = [j \in Jobs |-> IF baseCode[r] \in Reached(j) /\ got[r] < due[j]
                                   THEN late[j] \cup {r} ELSE late[j]]
        /\ UNCHANGED <<baseCode, got, todo, fetched, job, due, promised>>
    BY <1>2 DEF StoreFetched, worker
  <2>2. ASSUME NEW j \in Jobs, NEW c \in Reached(j) PROVE Refreshed(j, c)'
    <3>0. c \in Currencies
      BY <1>0 DEF Reached
    <3>1. CASE c = baseCode[r]
      <4>1. cache'[c] = got[r] /\ got'[r] = got[r] /\ baseCode'[r] = c
        BY <1>0, <2>1, <3>1
      <4>2. got[r] >= due[j] \/ r \in late'[j]
        BY <1>0, <2>1, <2>2, <3>1
      <4> QED BY <2>1, <4>1, <4>2 DEF Refreshed
    <3>2. CASE c # baseCode[r]
      <4>1. cache'[c] = cache[c] /\ late[j] \subseteq late'[j]
        BY <1>0, <2>1, <3>0, <3>2
      <4> QED BY <2>1, <2>2, <4>1 DEF Refreshing, Refreshed
    <3> QED BY <3>1, <3>2
  <2>3. \A j \in Jobs : Reached(j)' = Reached(j)
    BY <2>1 DEF Reached
  <2>4. \A j \in Jobs : \A q \in late'[j] : pc'[q] \in {"stored", "done", "failed"}
    BY <1>0, <2>1 DEF Refreshing
  <2> QED BY <2>1, <2>2, <2>3, <2>4 DEF Refreshing
<1>3. ASSUME NEW j \in Jobs, StartJob(j) PROVE Refreshing'
  <2>1. /\ job[j] = "waiting" /\ \A i \in Jobs : job[i] # "active"
        /\ job' = [job EXCEPT ![j] = IF currencySet = {} THEN "completed" ELSE "active"]
        /\ todo' = currencySet /\ fetched' = 0
        /\ due' = [due EXCEPT ![j] = published] /\ promised' = [promised EXCEPT ![j] = currencySet]
        /\ late' = [late EXCEPT ![j] = {}]
        /\ UNCHANGED <<baseCode, cache, pc, got>>
    BY <1>3 DEF StartJob, Active, redis, requests
  <2>2. /\ due'[j] = published /\ promised'[j] = currencySet /\ late'[j] = {}
        /\ \A i \in Jobs : due'[i] <= due'[j]
    BY <1>0, <2>1
  <2>3. \A i \in Jobs \ {j} : /\ job'[i] = job[i] /\ due'[i] = due[i]
                              /\ promised'[i] = promised[i] /\ late'[i] = late[i]
    BY <1>0, <2>1
  <2>4. ASSUME NEW i \in Jobs, NEW c \in Reached(i)' PROVE Refreshed(i, c)'
    <3>1. i # j
      BY <1>0, <2>1, <2>2, <2>4 DEF Reached
    <3>2. c \in Reached(i)
      BY <2>1, <2>3, <2>4, <3>1 DEF Reached
    <3>3. Refreshed(i, c)
      BY <3>2 DEF Refreshing
    <3> QED BY <2>1, <2>3, <3>1, <3>3 DEF Refreshed
  <2>5. ASSUME NEW i \in Jobs, job'[i] = "active" PROVE i = j
    BY <1>0, <2>1, <2>5
  <2>6. \A i \in Jobs : \A q \in late'[i] : pc'[q] \in {"stored", "done", "failed"}
    BY <2>1, <2>2, <2>3 DEF Refreshing
  <2> QED BY <2>1, <2>2, <2>4, <2>5, <2>6 DEF Refreshing
<1>4. ASSUME NEW j \in Jobs, FetchNext(j) PROVE Refreshing'
  <2>1. /\ job[j] = "active" /\ fetched' = published
        /\ UNCHANGED <<baseCode, cache, pc, got, todo, job, due, promised, late>>
    BY <1>4 DEF FetchNext, redis, requests, history
  <2>2. \A i \in Jobs : due[i] <= published
    BY <1>0
  <2> QED BY <1>0, <2>1, <2>2 DEF Refreshing, Refreshed, Reached
<1>5. ASSUME NEW j \in Jobs, StoreNext(j) PROVE Refreshing'
  <2>1. PICK c \in todo :
          /\ cache' = [cache EXCEPT ![c] = fetched] /\ todo' = todo \ {c} /\ fetched' = 0
          /\ job' = IF JobEnds(todo') THEN [job EXCEPT ![j] = "completed"] ELSE job
    BY <1>5 DEF StoreNext
  <2>2. /\ job[j] = "active" /\ fetched # 0
        /\ UNCHANGED <<baseCode, pc, got, due, promised, late>>
    BY <1>5 DEF StoreNext, requests, history
  <2>3. \A i \in Jobs : due[i] <= fetched
    BY <1>0, <2>2 DEF Refreshing
  <2>4. \A i \in Jobs : Refreshed(i, c)'
    BY <1>0, <2>1, <2>2, <2>3 DEF Refreshed
  <2>5. ASSUME NEW i \in Jobs, NEW d \in Currencies \ {c}, Refreshed(i, d)
        PROVE  Refreshed(i, d)'
    BY <1>0, <2>1, <2>2, <2>5 DEF Refreshed
  <2>6. ASSUME NEW i \in Jobs, NEW d \in Reached(i)' PROVE Refreshed(i, d)'
    <3>1. d \in Reached(i) \/ d = c
      <4>1. CASE i = j
        BY <1>0, <2>1, <2>2, <2>6, <4>1 DEF Reached, JobEnds
      <4>2. CASE i # j
        <5>1. job'[i] = job[i] /\ job[i] # "active"
          BY <1>0, <2>1, <2>2, <4>2 DEF Refreshing
        <5> QED BY <2>2, <2>6, <5>1 DEF Reached
      <4> QED BY <4>1, <4>2
    <3>2. d \in Currencies
      BY <1>0, <2>1, <3>1 DEF Reached
    <3> QED BY <2>4, <2>5, <3>1, <3>2 DEF Refreshing
  <2>7. ASSUME NEW i \in Jobs, job'[i] = "active" PROVE i = j /\ job[i] = "active"
    BY <1>0, <2>1, <2>2, <2>7 DEF Refreshing
  <2>8. \A i \in Jobs : due[i] <= due[j]
    BY <2>2 DEF Refreshing
  <2> QED BY <2>1, <2>2, <2>6, <2>7, <2>8 DEF Refreshing
<1>6. ASSUME NEW j \in Jobs, FailJob(j) PROVE Refreshing'
  <2>1. /\ job[j] = "active" /\ job' = [job EXCEPT ![j] = "failed"]
        /\ UNCHANGED <<baseCode, cache, pc, got, due, promised, late>>
    BY <1>6 DEF FailJob, AfterError, redis, requests, history
  <2>2. \A i \in Jobs : job'[i] # "active" /\ (job'[i] = "completed" => job[i] = "completed")
    BY <1>0, <2>1 DEF Refreshing
  <2> QED BY <2>1, <2>2, RefreshingEnd
<1>7. CASE Restart
  <2>1. /\ UNCHANGED <<baseCode, cache, got, due, promised, late>>
        /\ \A r \in Requests : pc[r] \in {"stored", "done", "failed"} => pc'[r] \in {"done", "failed"}
        /\ \A i \in Jobs : job'[i] # "active" /\ (job'[i] = "completed" => job[i] = "completed")
    BY <1>0, <1>7 DEF Restart, Active, redis, history
  <2> QED BY <2>1, RefreshingEnd
<1>8. CASE HandleCron
  <2>1. /\ UNCHANGED <<baseCode, cache, pc, got, todo, fetched, due, promised, late>>
        /\ night' \in Jobs /\ job[night'] = "none" /\ job' = [job EXCEPT ![night'] = "waiting"]
    BY <1>8 DEF HandleCron, TypeOK, Queueing, Jobs, redis, requests, history
  <2>2. \A i \in Jobs : /\ job'[i] = "active" <=> job[i] = "active"
                        /\ job'[i] = "completed" <=> job[i] = "completed"
    BY <1>0, <2>1
  <2>3. \A i \in Jobs : Reached(i)' = Reached(i)
    BY <2>1, <2>2 DEF Reached
  <2> QED BY <2>1, <2>2, <2>3 DEF Refreshing, Refreshed
<1>9. CASE Publish \/ UNCHANGED vars
  <2>1. UNCHANGED <<baseCode, cache, pc, got, todo, fetched, job, due, promised, late>>
    BY <1>9 DEF Publish, vars, redis, requests, worker, history
  <2> QED BY <2>1, RefreshingFrame
<1> QED
  BY <1>1, <1>2, <1>3, <1>4, <1>5, <1>6, <1>7, <1>8, <1>9 DEF Next, RequestStep, WorkerStep

(* A completed job has refreshed every currency it found: older rates are  *)
(* there only if a request, which had fetched them before the job started, *)
(* stored them over the job's.                                             *)
THEOREM CompletedMeansRefreshed == Spec => []CompletedJobRefreshed
<1>1. Init => Refreshing
  BY DEF Init, Refreshing, Reached
<1>2. Refreshing => CompletedJobRefreshed
  BY DEF Refreshing, Refreshed, Reached, CompletedJobRefreshed
<1> QED BY <1>1, <1>2, TypeInvariant, RefreshingStep, PTL DEF Spec

-------------------------------------------------------------------------------
(* Hits.                                                                   *)

(* A request that is answered from the cache, or can be, as rates that are *)
(* stored are replaced and never removed.                                  *)
Hit(r) == pc[r] \in {"new", "done", "failed"} /\ cache[baseCode[r]] # 0

LEMMA HitStep ==
  ASSUME NEW r \in Requests
  PROVE  TypeOK /\ Stored /\ Hit(r) /\ [Next]_vars => Hit(r)'
<1> SUFFICES ASSUME TypeOK, Stored, Hit(r), [Next]_vars PROVE Hit(r)'
  OBVIOUS
<1> USE DEF TypeOK, Hit, Goto, InFlight
<1>1. ASSUME UNCHANGED <<baseCode, cache>>, pc'[r] \in {"new", "done", "failed"} PROVE Hit(r)'
  BY <1>1
<1>2. ASSUME NEW q \in Requests, GetCached(q) PROVE Hit(r)'
  BY <1>1, <1>2 DEF GetCached, Cached, redis
<1>3. ASSUME NEW q \in Requests, FetchMissing(q) \/ ListCurrency(q) \/ FailRequest(q) PROVE Hit(r)'
  BY <1>1, <1>3 DEF FetchMissing, ListCurrency, MayList, FailRequest, redis
<1>4. ASSUME NEW q \in Requests, StoreFetched(q) PROVE Hit(r)'
  BY <1>4 DEF StoreFetched, Stored
<1>5. ASSUME NEW j \in Jobs, StoreNext(j) PROVE Hit(r)'
  BY <1>5 DEF StoreNext, requests
<1>6. ASSUME NEW j \in Jobs, StartJob(j) \/ FetchNext(j) \/ FailJob(j) PROVE Hit(r)'
  BY <1>1, <1>6 DEF StartJob, FetchNext, FailJob, redis, requests
<1>7. CASE Restart
  BY <1>1, <1>7 DEF Restart, redis
<1>8. CASE Publish \/ HandleCron \/ UNCHANGED vars
  BY <1>1, <1>8 DEF Publish, HandleCron, vars, redis, requests
<1> QED
  BY <1>2, <1>3, <1>4, <1>5, <1>6, <1>7, <1>8 DEF Next, RequestStep, WorkerStep

(* Once rates of its currency are stored, a request that has yet to look   *)
(* for them never asks the API, whatever faults, restarts and refreshes    *)
(* come before it looks.                                                   *)
THEOREM HitsNeverFetch == Spec => HitsStayHits
<1> SUFFICES ASSUME NEW r \in Requests
             PROVE  Spec => [](pc[r] = "new" /\ cache[baseCode[r]] # 0 => [](pc[r] \notin InFlight))
  BY DEF HitsStayHits
<1>1. pc[r] = "new" /\ cache[baseCode[r]] # 0 => Hit(r)
  BY DEF Hit
<1>2. Hit(r) => pc[r] \notin InFlight
  BY DEF Hit, InFlight
<1>3. TypeOK /\ Stored /\ Hit(r) /\ [Next]_vars => Hit(r)'
  BY HitStep
<1> QED BY <1>1, <1>2, <1>3, StoredInvariant, PTL DEF Spec
===============================================================================
