------------------------------ MODULE RateService ------------------------------
(***************************************************************************)
(* The rate service: GetExchangeRates (gRPC) reads the rates of a base     *)
(* currency from Redis, or fetches them from the exchange rate API and     *)
(* stores them; every midnight a job is queued (Bull) whose worker fetches *)
(* the rates of all currencies stored so far again.  Rates are versions:   *)
(* the API's published version only grows.  Requests and the worker        *)
(* interleave at every await of Redis or the API.                          *)
(***************************************************************************)
EXTENDS Naturals

CONSTANTS
  Currencies,   \* base codes
  Requests,     \* the GetExchangeRates calls
  Nights,       \* the midnights, and the jobs they queue, are 1..Nights
  MaxVersion,   \* bound on the rates the API publishes
  Faults        \* the faults the environment may inject

ASSUME BoundAssumption ==
  /\ Nights \in Nat
  /\ MaxVersion \in Nat \ {0}
  /\ Faults \subseteq {"api", "redis", "restart"}

VARIABLES
  baseCode,    \* of each request              (fixed by the caller)
  published,   \* version of the rates the API answers with
  cache,       \* Redis, "currency:<code>"; 0 when there is no such key
  currencySet, \* Redis, CURRENCY_SET_KEY
  pc,          \* where each request is
  got,         \* the version a request holds, and returns
  night,       \* midnights so far
  job,         \* state of each job
  todo,        \* the currencies the running job has still to store
  fetched,     \* the version the running job fetched for a currency, or 0
  stalls,      \* how often a job was picked up again
  due,         \* history: the version published when a job was started
  promised,    \* history: the currencies that job found in the set
  late,        \* history: requests that put older rates over that job's
  rivals       \* history: currencies that two requests fetched at a time

redis == <<cache, currencySet>>
requests == <<baseCode, pc, got>>
worker == <<job, todo, fetched, stalls>>
history == <<due, promised, late, rivals>>
vars == <<baseCode, published, cache, currencySet, pc, got, night, job, todo,
          fetched, stalls, due, promised, late, rivals>>

Jobs == 1..Nights
InFlight == {"miss", "fetched", "stored"}

Init ==
  /\ baseCode \in [Requests -> Currencies]
  /\ published = 1
  /\ cache = [c \in Currencies |-> 0]
  /\ currencySet = {}
  /\ pc = [r \in Requests |-> "new"]
  /\ got = [r \in Requests |-> 0]
  /\ night = 0
  /\ job = [j \in Jobs |-> "none"]
  /\ todo = {}
  /\ fetched = 0
  /\ stalls = [j \in Jobs |-> 0]
  /\ due = [j \in Jobs |-> 0]
  /\ promised = [j \in Jobs |-> {}]
  /\ late = [j \in Jobs |-> {}]
  /\ rivals = {}

Goto(r, label) == pc' = [pc EXCEPT ![r] = label]

(* The API publishes new rates.                                            *)
Publish ==
  /\ published < MaxVersion
  /\ published' = published + 1
  /\ UNCHANGED <<redis, requests, night, worker, history>>

-------------------------------------------------------------------------------
(* getExchangeRates                                                        *)

(* Mutant: the set is asked instead of the key.                            *)
Cached_Listed(r) == baseCode[r] \in currencySet
Cached(r) == cache[baseCode[r]] # 0

GetCached(r) ==
  /\ pc[r] = "new"
  /\ IF Cached(r)
     THEN /\ Goto(r, "done")
          /\ got' = [got EXCEPT ![r] = cache[baseCode[r]]]
          /\ UNCHANGED rivals
     ELSE /\ Goto(r, "miss")
          /\ rivals' = IF \E q \in Requests : /\ baseCode[q] = baseCode[r]
                                             /\ pc[q] \in {"miss", "fetched"}
                       THEN rivals \cup {baseCode[r]} ELSE rivals
          /\ UNCHANGED got
  /\ UNCHANGED <<baseCode, published, redis, night, worker, due, promised, late>>

FetchMissing(r) ==
  /\ pc[r] = "miss"
  /\ got' = [got EXCEPT ![r] = published]
  /\ Goto(r, "fetched")
  /\ UNCHANGED <<baseCode, published, redis, night, worker, history>>

(* The currencies a job has stored since it started.                       *)
Reached(j) == IF job[j] = "completed" THEN promised[j]
              ELSE IF job[j] = "active" THEN promised[j] \ todo
              ELSE {}

StoreFetched(r) ==
  /\ pc[r] = "fetched"
  /\ cache' = [cache EXCEPT ![baseCode[r]] = got[r]]
  /\ late' = [j \in Jobs |-> IF baseCode[r] \in Reached(j) /\ got[r] < due[j]
                             THEN late[j] \cup {r} ELSE late[j]]
  /\ Goto(r, "stored")
  /\ UNCHANGED <<baseCode, published, currencySet, got, night, worker, due, promised, rivals>>

(* Mutant: the wrong order, the currency is listed before it is stored.    *)
MayList_Fetched(r) == pc[r] \in {"fetched", "stored"}
MayList(r) == pc[r] = "stored"

ListCurrency(r) ==
  /\ MayList(r)
  /\ currencySet' = currencySet \cup {baseCode[r]}
  /\ Goto(r, "done")
  /\ UNCHANGED <<baseCode, published, cache, got, night, worker, history>>

(* The API or Redis answers with an error: the request fails, and what it  *)
(* stored stays stored.                                                    *)
FailRequest(r) ==
  /\ \/ "api" \in Faults /\ pc[r] = "miss"
     \/ "redis" \in Faults /\ pc[r] \in {"fetched", "stored"}
  /\ Goto(r, "failed")
  /\ UNCHANGED <<baseCode, published, redis, got, night, worker, history>>

-------------------------------------------------------------------------------
(* handleCron and fetchRates                                               *)

HandleCron ==
  /\ night < Nights
  /\ night' = night + 1
  /\ job' = [job EXCEPT ![night'] = "waiting"]
  /\ UNCHANGED <<published, redis, requests, todo, fetched, stalls, history>>

Active == {j \in Jobs : job[j] = "active"}

(* Bull gives the oldest waiting job to the one worker, which reads the    *)
(* members of the set.  With none there is nothing to do.                  *)
StartJob(j) ==
  /\ job[j] = "waiting"
  /\ Active = {}
  /\ \A i \in Jobs : i < j => job[i] # "waiting"
  /\ job' = [job EXCEPT ![j] = IF currencySet = {} THEN "completed" ELSE "active"]
  /\ todo' = currencySet
  /\ fetched' = 0
  /\ due' = [due EXCEPT ![j] = published]
  /\ promised' = [promised EXCEPT ![j] = currencySet]
  /\ late' = [late EXCEPT ![j] = {}]
  /\ UNCHANGED <<published, redis, requests, night, stalls, rivals>>

FetchNext(j) ==
  /\ job[j] = "active"
  /\ fetched = 0
  /\ fetched' = published
  /\ UNCHANGED <<published, redis, requests, night, job, todo, stalls, history>>

(* Mutant: the job ends one currency early.                                *)
JobEnds_Early(rest) == \E c \in Currencies : rest \subseteq {c}
JobEnds(rest) == rest = {}

(* SMEMBERS has no order: any currency may come next.                      *)
StoreNext(j) ==
  /\ job[j] = "active"
  /\ fetched # 0
  /\ \E c \in todo :
       /\ cache' = [cache EXCEPT ![c] = fetched]
       /\ todo' = todo \ {c}
       /\ fetched' = 0
       /\ job' = IF JobEnds(todo') THEN [job EXCEPT ![j] = "completed"] ELSE job
  /\ UNCHANGED <<published, currencySet, requests, night, stalls, history>>

(* Mutant: the error is logged and not thrown.                             *)
AfterError_Logged == "completed"

(* The job has one attempt.                                                *)
AfterError == "failed"

(* The API or Redis fails for one currency: the job fails, the currencies  *)
(* behind it are not tried.                                                *)
FailJob(j) ==
  /\ Faults \cap {"api", "redis"} # {}
  /\ job[j] = "active"
  /\ job' = [job EXCEPT ![j] = AfterError]
  /\ todo' = {}
  /\ fetched' = 0
  /\ UNCHANGED <<published, redis, requests, night, stalls, history>>

(* Mutant: a stalled job is always queued again.                           *)
PickedUpAgain_Always(j) == TRUE
PickedUpAgain(j) == stalls[j] = 0

(* The service restarts.  Bull finds the active job stalled and queues it  *)
(* again, once; the second time it fails it.                               *)
Restart ==
  /\ "restart" \in Faults
  /\ pc' = [r \in Requests |-> IF pc[r] \in InFlight THEN "failed" ELSE pc[r]]
  /\ job' = [j \in Jobs |-> IF j \notin Active THEN job[j]
                            ELSE IF PickedUpAgain(j) THEN "waiting" ELSE "failed"]
  /\ stalls' = [j \in Jobs |-> IF j \in Active THEN stalls[j] + 1 ELSE stalls[j]]
  /\ todo' = {}
  /\ fetched' = 0
  /\ UNCHANGED <<baseCode, published, redis, got, night, history>>

RequestStep(r) == FetchMissing(r) \/ StoreFetched(r) \/ ListCurrency(r)
WorkerStep(j) == StartJob(j) \/ FetchNext(j) \/ StoreNext(j)

Next ==
  \/ Publish
  \/ \E r \in Requests : GetCached(r) \/ RequestStep(r) \/ FailRequest(r)
  \/ HandleCron
  \/ \E j \in Jobs : WorkerStep(j) \/ FailJob(j)
  \/ Restart

Spec == Init /\ [][Next]_vars

(* Redis and the API answer, and Bull hands out waiting jobs.  Midnight is *)
(* an event of the environment, as are requests and new rates.             *)
FairSpec ==
  /\ Spec
  /\ \A r \in Requests : WF_vars(RequestStep(r))
  /\ \A j \in Jobs : WF_vars(WorkerStep(j))

-------------------------------------------------------------------------------
Versions == 0..MaxVersion

TypeOK ==
  /\ baseCode \in [Requests -> Currencies]
  /\ published \in Versions \ {0}
  /\ cache \in [Currencies -> 0..published]
  /\ currencySet \subseteq Currencies
  /\ pc \in [Requests -> {"new", "done", "failed"} \cup InFlight]
  /\ got \in [Requests -> 0..published]
  /\ night \in 0..Nights
  /\ job \in [Jobs -> {"none", "waiting", "active", "completed", "failed"}]
  /\ todo \subseteq currencySet
  /\ fetched \in 0..published
  /\ stalls \in [Jobs -> 0..2]
  /\ due \in [Jobs -> 0..published]
  /\ promised \in [Jobs -> SUBSET currencySet]
  /\ late \in [Jobs -> SUBSET Requests]
  /\ rivals \subseteq Currencies

(* Every currency the worker will be told to refresh has rates, and rates  *)
(* that are stored are going to be refreshed, unless they are those of a   *)
(* request that has still to list them or was cut off before it did:       *)
(* getExchangeRates stores first and lists second, with nothing atomic.    *)
ListedMatchesStored ==
  \A c \in Currencies :
    /\ c \in currencySet => cache[c] # 0
    /\ cache[c] # 0 /\ c \notin currencySet =>
         \E r \in Requests : /\ baseCode[r] = c
                             /\ pc[r] \in {"stored", "failed"}
                             /\ got[r] = cache[c]

(* A job that completed leaves every currency it found with rates          *)
(* published since it started.  Rates that are older are those of a        *)
(* request that stored them after the job had stored its own, having       *)
(* fetched them before the job started.                                    *)
CompletedJobRefreshed ==
  \A j \in Jobs :
    job[j] = "completed" =>
      \A c \in promised[j] :
        \/ cache[c] >= due[j]
        \/ \E r \in late[j] : baseCode[r] = c /\ got[r] = cache[c]

(* A request that starts when the rates of its currency are stored never   *)
(* asks the API: only requests that overlap the first one do.              *)
HitsStayHits ==
  \A r \in Requests :
    [](pc[r] = "new" /\ cache[baseCode[r]] # 0 => [](pc[r] \notin InFlight))

(* Stored rates are never replaced by older ones, unless two requests      *)
(* missed the cache for the same currency at the same time: one request    *)
(* and the worker alone cannot do it, in whatever order they fetch and     *)
(* store, since a currency is listed only after it was stored.             *)
NoRollbackWithoutRace ==
  [][\A c \in Currencies \ rivals : cache'[c] >= cache[c]]_vars

(* Once a midnight's job waits, and nothing fails, every listed currency   *)
(* gets rates at least as new as those published then.                     *)
MidnightRefreshes ==
  \A j \in Jobs, c \in Currencies, v \in Versions :
    job[j] = "waiting" /\ c \in currencySet /\ published = v ~> cache[c] >= v
===============================================================================
