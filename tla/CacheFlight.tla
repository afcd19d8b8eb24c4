---------------------------- MODULE CacheFlight ----------------------------
(***************************************************************************)
(* The disposable read cache of utils/cache: MGet over a shared Redis store*)
(* with per-key flight merging (flight.go).  Request goroutines (Callers)  *)
(* read a batch from Redis, join the flights of the keys another request   *)
(* is already loading, queue for one of Limit physical loader slots and    *)
(* start a Run (a supervisor and a worker goroutine) for the keys nobody   *)
(* loads.  The loader is the source of truth; Redis and the loader can     *)
(* fail, hang or panic, and a request can be cancelled, at any time.       *)
(*                                                                         *)
(* A flight is identified by its run and its key: runLoader completes all  *)
(* the flights it owns in one critical section.  What a closed flight      *)
(* holds never changes and only the callers that joined it can read it, so *)
(* closing it is modelled as handing its value to those callers.           *)
(***************************************************************************)
EXTENDS Integers, FiniteSets

CONSTANTS Callers,          \* request goroutines
          Keys,             \* full cache keys of one namespace
          Runs,             \* identities of loader runs
          NoRun,            \* "no flight registered / joined"
          Limit,            \* loaderParallel, the capacity of Client.limit
          MaxBatch,         \* Policy.MaxBatch
          MaxVersion,       \* bound on the versions of a source row
          Writable,         \* bound: the keys whose rows are written
          NegativeCaching   \* Policy.NegativeTTL > 0

ASSUME CacheAssumption ==
  /\ NoRun \notin Runs
  /\ Limit \in Nat \ {0}
  /\ MaxBatch \in Nat \ {0}
  /\ MaxVersion \in Nat \ {0}
  /\ Writable \subseteq Keys
  /\ NegativeCaching \in BOOLEAN
  /\ IsFiniteSet(Callers) /\ IsFiniteSet(Runs) /\ IsFiniteSet(Keys)
  /\ Callers \cap Runs = {}
  /\ Limit <= Cardinality(Runs)        \* a slot always finds an identity

Absent == 0                             \* the row does not exist
Unset  == -1                            \* no value / no entry
Value  == Absent..MaxVersion
Result == Unset..MaxVersion
Errors == {"cancelled", "queue", "deadline", "source", "panic"}

VARIABLES
  pc,       \* control point of every caller
  asked,    \* the distinct keys of the request
  todo,     \* keys the caller has not batched yet (unique[start:])
  missing,  \* keys of the current batch Redis did not answer
  calls,    \* the run whose flight for k the caller joined: calls[c][k]
  answer,   \* what that flight held when it was closed
  ctxDone,  \* the caller's request context is cancelled
  got,      \* the caller's result map; Absent: answered, without a value
  errs,     \* the errors joined into the caller's result
  flights,  \* Client.flights
  limit,    \* number of tokens in the Client.limit channel
  owned,    \* keys whose flights a run owns
  sup,      \* control point of a run's supervisor (runLoader)
  worker,   \* control point of a run's worker goroutine
  loaded,   \* the buffered channel with what callLoader returned
  final,    \* the flightValues the run will publish
  store,    \* Redis: the value cached for a key, Absent for a negative entry
  source,   \* the database row behind a key
  evict     \* keys written by a committed transaction, not yet invalidated

callerVars == <<pc, asked, todo, missing, calls, answer, ctxDone, got, errs>>
runVars    == <<owned, sup, worker, loaded, final>>
vars       == <<callerVars, flights, limit, runVars, store, source, evict>>

NoCalls  == [k \in Keys |-> NoRun]
NoValues == [k \in Keys |-> Unset]
Outcome  == [err: {"ok", "source", "panic", "deadline"}, vals: [Keys -> Result]]
Nothing  == [err |-> "ok", vals |-> NoValues]

Open        == [err |-> "open", val |-> Unset]
FlightValue == {Open} \cup [err: {"ok", "source", "panic", "deadline"}, val: Result]
NoAnswer == [k \in Keys |-> Open]

\* The run has closed its flights.
Published(r) == sup[r] = "done"

\* The identity of a run that has ended stands for a new run.
Free(r) == sup[r] = "done" /\ worker[r] = "exited"

-----------------------------------------------------------------------------
Init ==
  /\ pc = [c \in Callers |-> "idle"]
  /\ asked = [c \in Callers |-> {}]
  /\ todo = [c \in Callers |-> {}]
  /\ missing = [c \in Callers |-> {}]
  /\ calls = [c \in Callers |-> NoCalls]
  /\ answer = [c \in Callers |-> NoAnswer]
  /\ ctxDone = [c \in Callers |-> FALSE]
  /\ got = [c \in Callers |-> NoValues]
  /\ errs = [c \in Callers |-> {}]
  /\ flights = NoCalls
  /\ limit = 0
  /\ owned = [r \in Runs |-> {}]
  /\ sup = [r \in Runs |-> "done"]
  /\ worker = [r \in Runs |-> "exited"]
  /\ loaded = [r \in Runs |-> Nothing]
  /\ final = [r \in Runs |-> Nothing]
  /\ store = NoValues
  /\ source = [k \in Keys |-> 1]
  /\ evict = {}

(***************************************************************************)
(* Request goroutines: MGet, readBatch, loadBatch, awaitFlights.           *)
(***************************************************************************)

\* A request calls MGet; duplicate keys are dropped, an empty list returns
\* at once and is not a step.
Request(c) ==
  /\ pc[c] = "idle"
  /\ \E ks \in SUBSET Keys \ {{}} :
       /\ asked' = [asked EXCEPT ![c] = ks]
       /\ todo' = [todo EXCEPT ![c] = ks]
  /\ pc' = [pc EXCEPT ![c] = "batch"]
  /\ UNCHANGED <<missing, calls, answer, ctxDone, got, errs, flights, limit,
                 runVars, store, source, evict>>

\* The client goes away: the request context is cancelled.
Cancel(c) ==
  /\ pc[c] \notin {"idle", "returned"}
  /\ ~ctxDone[c]
  /\ ctxDone' = [ctxDone EXCEPT ![c] = TRUE]
  /\ UNCHANGED <<pc, asked, todo, missing, calls, answer, got, errs, flights,
                 limit, runVars, store, source, evict>>

\* The loop test of MGet: the result is complete, or the context is done.
Return(c) ==
  /\ pc[c] = "batch"
  /\ todo[c] = {} \/ ctxDone[c]
  /\ errs' = [errs EXCEPT ![c] = IF todo[c] = {} THEN @ ELSE @ \cup {"cancelled"}]
  /\ pc' = [pc EXCEPT ![c] = "returned"]
  /\ UNCHANGED <<asked, todo, missing, calls, answer, ctxDone, got, flights,
                 limit, runVars, store, source, evict>>

\* The handler has used the result and the request ends.
Deliver(c) ==
  /\ pc[c] = "returned"
  /\ pc' = [pc EXCEPT ![c] = "idle"]
  /\ asked' = [asked EXCEPT ![c] = {}]
  /\ todo' = [todo EXCEPT ![c] = {}]
  /\ got' = [got EXCEPT ![c] = NoValues]
  /\ errs' = [errs EXCEPT ![c] = {}]
  /\ ctxDone' = [ctxDone EXCEPT ![c] = FALSE]
  /\ UNCHANGED <<missing, calls, answer, flights, limit, runVars, store, source,
                 evict>>

\* One MGET for the next batch.  Redis answers, and the entries that were
\* written, have not expired and decode are hits (a negative entry is a hit
\* without a value); or it fails or times out and the whole batch is missing.
ReadBatch(c) ==
  /\ pc[c] = "batch" /\ todo[c] # {} /\ ~ctxDone[c]
  /\ \E batch \in SUBSET todo[c] :
       /\ batch # {}
       /\ Cardinality(batch) <= MaxBatch
       /\ batch = todo[c] \/ Cardinality(batch) = MaxBatch
       /\ \E hits \in SUBSET {k \in batch : store[k] # Unset} :
            /\ got' = [got EXCEPT ![c] = [k \in Keys |->
                 IF k \in hits THEN store[k] ELSE @[k]]]
            /\ missing' = [missing EXCEPT ![c] = batch \ hits]
            /\ pc' = [pc EXCEPT ![c] = IF batch = hits THEN "batch" ELSE "join"]
       /\ todo' = [todo EXCEPT ![c] = @ \ batch]
  /\ UNCHANGED <<asked, calls, answer, ctxDone, errs, flights, limit, runVars,
                 store, source, evict>>

\* First critical section of loadBatch: join the flights in progress.  A
\* caller that found one for every key needs no slot.
Join(c) ==
  /\ pc[c] = "join"
  /\ calls' = [calls EXCEPT ![c] = [k \in Keys |->
                 IF k \in missing[c] THEN flights[k] ELSE NoRun]]
  /\ pc' = [pc EXCEPT ![c] =
              IF \E k \in missing[c] : flights[k] = NoRun THEN "queue" ELSE "await"]
  /\ UNCHANGED <<asked, todo, missing, answer, ctxDone, got, errs, flights,
                 limit, runVars, store, source, evict>>

\* c.limit <- struct{}{}
Acquire(c) ==
  /\ pc[c] = "queue"
  /\ limit < Limit
  /\ limit' = limit + 1
  /\ pc' = [pc EXCEPT ![c] = "register"]
  /\ UNCHANGED <<asked, todo, missing, calls, answer, ctxDone, got, errs,
                 flights, runVars, store, source, evict>>

\* The batch is over and MGet goes on with the next one.
EndBatch(c) ==
  /\ pc' = [pc EXCEPT ![c] = "batch"]
  /\ missing' = [missing EXCEPT ![c] = {}]
  /\ calls' = [calls EXCEPT ![c] = NoCalls]
  /\ answer' = [answer EXCEPT ![c] = NoAnswer]

\* The batch fails with e, without a value.
GiveUp(c, e) ==
  /\ errs' = [errs EXCEPT ![c] = @ \cup {e}]
  /\ EndBatch(c)

\* <-queueCtx.Done(): no slot became free in time, or the request is cancelled.
QueueTimeout(c) ==
  /\ pc[c] = "queue"
  /\ GiveUp(c, IF ctxDone[c] THEN "cancelled" ELSE "queue")
  /\ UNCHANGED <<asked, todo, ctxDone, got, flights, limit, runVars, store,
                 source, evict>>

AbandonSlotLeaks(c) ==
  /\ pc[c] = "register" /\ ctxDone[c]
  /\ GiveUp(c, "cancelled")
  /\ UNCHANGED <<asked, todo, ctxDone, got, flights, limit, runVars, store,
                 source, evict>>

\* The context was cancelled while the caller was queueing: give the slot back.
AbandonSlot(c) ==
  /\ pc[c] = "register" /\ ctxDone[c]
  /\ limit' = limit - 1
  /\ GiveUp(c, "cancelled")
  /\ UNCHANGED <<asked, todo, ctxDone, got, flights, runVars, store, source,
                 evict>>

LeadersUnchecked(c) == {k \in missing[c] : calls[c][k] = NoRun}

\* The keys nobody has begun to load since the caller last looked.
Leaders(c) == {k \in missing[c] : calls[c][k] = NoRun /\ flights[k] = NoRun}

\* Second critical section of loadBatch: flights registered meanwhile are
\* joined, the remaining keys get new flights, owned by a run that inherits the slot.
Register(c) ==
  /\ pc[c] = "register" /\ ~ctxDone[c]
  /\ Leaders(c) # {}
  /\ \E r \in Runs :
       /\ Free(r)
       /\ flights' = [k \in Keys |-> IF k \in Leaders(c) THEN r ELSE flights[k]]
       /\ calls' = [calls EXCEPT ![c] = [k \in Keys |->
            IF k \notin missing[c] THEN NoRun
            ELSE IF @[k] # NoRun THEN @[k]
            ELSE IF k \in Leaders(c) THEN r ELSE flights[k]]]
       /\ owned' = [owned EXCEPT ![r] = Leaders(c)]
       /\ sup' = [sup EXCEPT ![r] = "select"]
       /\ worker' = [worker EXCEPT ![r] = "loading"]
  /\ UNCHANGED <<loaded, final>>
  /\ pc' = [pc EXCEPT ![c] = "await"]
  /\ UNCHANGED <<asked, todo, missing, answer, ctxDone, got, errs, limit, store,
                 source, evict>>

\* The same section when every key is in flight by now: the slot is not needed.
JoinLate(c) ==
  /\ pc[c] = "register" /\ ~ctxDone[c]
  /\ Leaders(c) = {}
  /\ limit' = limit - 1
  /\ calls' = [calls EXCEPT ![c] = [k \in Keys |->
       IF k \notin missing[c] THEN NoRun
       ELSE IF @[k] # NoRun THEN @[k] ELSE flights[k]]]
  /\ pc' = [pc EXCEPT ![c] = "await"]
  /\ UNCHANGED <<asked, todo, missing, answer, ctxDone, got, errs, flights,
                 runVars, store, source, evict>>

\* The flights of the batch that are closed.
Closed(c) == {k \in missing[c] : answer[c][k] # Open}

\* awaitFlights has collected the closed flights ks, keeping the first error.
Collect(c, ks) ==
  /\ got' = [got EXCEPT ![c] = [k \in Keys |->
       IF k \in ks THEN answer[c][k].val ELSE @[k]]]
  /\ LET failed == {answer[c][k].err : k \in ks} \ {"ok"}
     IN  \E first \in SUBSET failed :
           /\ Cardinality(first) = IF failed = {} THEN 0 ELSE 1
           /\ errs' = [errs EXCEPT ![c] = @ \cup first
                         \cup IF ks = missing[c] THEN {} ELSE {"cancelled"}]
  /\ EndBatch(c)

\* Every flight of the batch is closed.
AwaitAll(c) ==
  /\ pc[c] = "await"
  /\ Closed(c) = missing[c]
  /\ Collect(c, missing[c])
  /\ UNCHANGED <<asked, todo, ctxDone, flights, limit, runVars, store, source,
                 evict>>

\* The request is cancelled while it waits; it keeps the prefix it collected.
\* The flights themselves go on.
AwaitCancelled(c) ==
  /\ pc[c] = "await" /\ ctxDone[c]
  /\ \E ks \in SUBSET Closed(c) : ks # missing[c] /\ Collect(c, ks)
  /\ UNCHANGED <<asked, todo, ctxDone, flights, limit, runVars, store, source,
                 evict>>

(***************************************************************************)
(* A run: the worker (callLoader) and its supervisor (runLoader).          *)
(***************************************************************************)

LoadedOptimistic(k, err, found) == IF k \in found THEN source[k] ELSE Absent

\* What callLoader makes of a requested key: a key the loader left out is an
\* absent row only if the loader did not fail.
Loaded(k, err, found) ==
  IF k \in found THEN source[k] ELSE IF err = "ok" THEN Absent ELSE Unset

LoadResult(r, err, found) ==
  [err |-> err, vals |-> [k \in Keys |->
     IF k \in owned[r] THEN Loaded(k, err, found) ELSE Unset]]

\* The loader returns: all requested rows, some rows with an error, or a panic
\* (no values, no writes).  It may also never return.
LoaderReturns(r) ==
  /\ worker[r] = "loading"
  /\ \E err \in {"ok", "source", "panic"}, found \in SUBSET owned[r] :
       /\ \A k \in found : source[k] # Absent
       /\ err = "ok" => \A k \in owned[r] \ found : source[k] = Absent
       /\ err = "panic" => found = {}
       /\ loaded' = [loaded EXCEPT ![r] = LoadResult(r, err, found)]
  /\ worker' = [worker EXCEPT ![r] = "returned"]
  /\ UNCHANGED <<callerVars, flights, limit, owned, sup, final, store, source,
                 evict>>

\* The supervisor receives the result before its deadline.
Receive(r) ==
  /\ sup[r] = "select" /\ worker[r] = "returned"
  /\ final' = [final EXCEPT ![r] = loaded[r]]
  /\ loaded' = [loaded EXCEPT ![r] = Nothing]
  /\ sup' = [sup EXCEPT ![r] = "write"]
  /\ UNCHANGED <<callerVars, flights, limit, owned, worker, store, source, evict>>

\* The deadline is only looked at when the loader has returned.
DeadlineUnwatched(r) ==
  /\ sup[r] = "select" /\ worker[r] = "returned"
  /\ final' = [final EXCEPT ![r] = [err |-> "deadline", vals |-> NoValues]]
  /\ sup' = [sup EXCEPT ![r] = "publish"]
  /\ UNCHANGED <<callerVars, flights, limit, owned, worker, loaded, store,
                 source, evict>>

\* The deadline of the shared load passes first; a late result is discarded.
Deadline(r) ==
  /\ sup[r] = "select"
  /\ final' = [final EXCEPT ![r] = [err |-> "deadline", vals |-> NoValues]]
  /\ sup' = [sup EXCEPT ![r] = "publish"]
  /\ UNCHANGED <<callerVars, flights, limit, owned, worker, loaded, store,
                 source, evict>>

\* A loaded row is cached even when the loader also failed; an absent row only
\* when negative caching is on, and a failed loader checked no absent row.
Cacheable(r) == {k \in owned[r] :
  \/ final[r].vals[k] \in Value \ {Absent}
  \/ final[r].vals[k] = Absent /\ NegativeCaching}

\* The pipelined SETs.  Entries may be skipped (too large, deadline past) and
\* Redis may fail after some of them.
WriteStore(r) ==
  /\ sup[r] = "write"
  /\ \E ks \in SUBSET Cacheable(r) :
       store' = [k \in Keys |-> IF k \in ks THEN final[r].vals[k] ELSE store[k]]
  /\ sup' = [sup EXCEPT ![r] = "publish"]
  /\ UNCHANGED <<callerVars, flights, limit, owned, worker, loaded, final,
                 source, evict>>

\* The callers a closed flight reaches: all that joined it.
Reached(r) == Callers

\* Last critical section of runLoader: the flights get their values, leave the
\* map (whatever is registered under the key) and are closed.  The deferred
\* close(finished) follows; only Release waits for it.
Publish(r) ==
  /\ sup[r] = "publish"
  /\ answer' = [c \in Callers |-> [k \in Keys |->
       IF c \in Reached(r) /\ calls[c][k] = r /\ k \in owned[r] /\ answer[c][k] = Open
       THEN [err |-> final[r].err, val |-> final[r].vals[k]] ELSE answer[c][k]]]
  /\ flights' = [k \in Keys |-> IF k \in owned[r] THEN NoRun ELSE flights[k]]
  /\ owned' = [owned EXCEPT ![r] = {}]
  /\ final' = [final EXCEPT ![r] = Nothing]
  /\ sup' = [sup EXCEPT ![r] = "done"]
  /\ UNCHANGED <<pc, asked, todo, missing, calls, ctxDone, got, errs, limit,
                 worker, loaded, store, source, evict>>

\* The worker's deferred <-finished; <-c.limit: the slot is free once the loader
\* has really returned and the supervisor is through.
Release(r) ==
  /\ worker[r] = "returned" /\ sup[r] = "done"
  /\ limit' = limit - 1
  /\ worker' = [worker EXCEPT ![r] = "exited"]
  /\ loaded' = [loaded EXCEPT ![r] = Nothing]
  /\ UNCHANGED <<callerVars, flights, owned, sup, final, store, source, evict>>

(***************************************************************************)
(* The source and the store.                                               *)
(***************************************************************************)

\* A transaction commits a new version of a row, or deletes it.
CommitWrite(k) ==
  /\ k \in Writable
  /\ \E v \in {Absent, source[k] + 1} :
       /\ v \in Value /\ v # source[k]
       /\ source' = [source EXCEPT ![k] = v]
  /\ evict' = evict \cup {k}
  /\ UNCHANGED <<callerVars, flights, limit, runVars, store>>

\* invalidateReadCache after the commit; a Redis failure is only logged.
Invalidate(k) ==
  /\ k \in evict
  /\ evict' = evict \ {k}
  /\ store' \in {store, [store EXCEPT ![k] = Unset]}
  /\ UNCHANGED <<callerVars, flights, limit, runVars, source>>

\* The TTL of an entry passes.
Expire(k) ==
  /\ store[k] # Unset
  /\ store' = [store EXCEPT ![k] = Unset]
  /\ UNCHANGED <<callerVars, flights, limit, runVars, source, evict>>

-----------------------------------------------------------------------------
CallerStep(c) == \/ Return(c) \/ Deliver(c) \/ ReadBatch(c) \/ Join(c) \/ Acquire(c)
                 \/ QueueTimeout(c) \/ AbandonSlot(c) \/ Register(c)
                 \/ JoinLate(c) \/ AwaitAll(c) \/ AwaitCancelled(c)

SupervisorStep(r) == \/ Receive(r) \/ Deadline(r) \/ WriteStore(r)
                     \/ Publish(r)

Next == \/ \E c \in Callers : Request(c) \/ Cancel(c) \/ CallerStep(c)
        \/ \E r \in Runs : LoaderReturns(r) \/ SupervisorStep(r) \/ Release(r)
        \/ \E k \in Keys : CommitWrite(k) \/ Invalidate(k) \/ Expire(k)

Spec == Init /\ [][Next]_vars

(***************************************************************************)
(* Go schedules every runnable goroutine and the timers fire, so callers   *)
(* and supervisors make progress.  Nothing is assumed of the loaders: they *)
(* may ignore their context and hang for ever.                             *)
(***************************************************************************)
FairSpec == /\ Spec
            /\ \A c \in Callers : WF_vars(CallerStep(c))
            /\ \A r \in Runs : WF_vars(SupervisorStep(r))

(***************************************************************************)
(* Properties.                                                             *)
(***************************************************************************)

\* Type invariant.
TypeOK ==
  /\ pc \in [Callers -> {"idle", "batch", "join", "queue", "register", "await",
                       "returned"}]
  /\ asked \in [Callers -> SUBSET Keys]
  /\ answer \in [Callers -> [Keys -> FlightValue]]
  /\ todo \in [Callers -> SUBSET Keys]
  /\ missing \in [Callers -> SUBSET Keys]
  /\ calls \in [Callers -> [Keys -> Runs \cup {NoRun}]]
  /\ ctxDone \in [Callers -> BOOLEAN]
  /\ got \in [Callers -> [Keys -> Result]]
  /\ errs \in [Callers -> SUBSET Errors]
  /\ flights \in [Keys -> Runs \cup {NoRun}]
  /\ limit \in 0..Limit
  /\ owned \in [Runs -> SUBSET Keys]
  /\ sup \in [Runs -> {"select", "write", "publish", "done"}]
  /\ worker \in [Runs -> {"loading", "returned", "exited"}]
  /\ loaded \in [Runs -> Outcome]
  /\ final \in [Runs -> Outcome]
  /\ store \in [Keys -> Result]
  /\ source \in [Keys -> Value]
  /\ evict \in SUBSET Keys

\* Client.flights holds exactly the unfinished flights: a registered flight is
\* owned by a run that has not published it, and a run that has not published
\* is registered under each of its keys.  So no key has two loads in progress
\* that callers wait for, and the unconditional delete and close at the end of
\* runLoader remove the run's own flight and close it once.
FlightsMatchRuns ==
  /\ \A k \in Keys : flights[k] # NoRun =>
       k \in owned[flights[k]] /\ ~Published(flights[k])
  /\ \A r \in Runs : ~Published(r) => \A k \in owned[r] : flights[k] = r

\* Nobody waits on a flight that no supervisor will complete: every flight a
\* caller awaits is closed, or still registered and owned by an unfinished run.
WaitersHaveSupervisor ==
  \A c \in Callers : pc[c] = "await" =>
    \A k \in missing[c] \ Closed(c) :
      /\ calls[c][k] \in Runs
      /\ flights[k] = calls[c][k]
      /\ sup[calls[c][k]] \in {"select", "write", "publish"}

\* Every flight is somebody's work: the map of flights and the runs agree, and whoever waits is
\* going to be answered, in a state that is what MGet, loadBatch and runLoader take it for.
FlightsServed == TypeOK /\ FlightsMatchRuns /\ WaitersHaveSupervisor

\* A caller holds a loader slot between the channel send and the registration,
\* a run from then on until its loader has returned and its supervisor is done.
SlotHolders == {c \in Callers : pc[c] = "register"}
                 \cup {r \in Runs : worker[r] # "exited"}

\* Every slot is accounted for: none leaks on a cancelled, late or merged
\* request or on a loader that outlives its deadline, and none is freed twice
\* (which would let more than Limit loaders run).
SlotsAccounted == limit = Cardinality(SlotHolders)

\* A request that reports no error has an answer for every key it asked for: a
\* row, or the word of Redis or of an error-free load that there is none.  No
\* timed out, failed, merged or cancelled load silently drops a key.
NoSilentMiss ==
  \A c \in Callers : pc[c] = "returned" /\ errs[c] = {} =>
    \A k \in asked[c] : got[c][k] # Unset

\* A row that was never deleted is never reported or cached as absent, however
\* its load failed.
NoFalseAbsence ==
  \A k \in Keys \ Writable :
    /\ store[k] # Absent
    /\ \A c \in Callers : got[c][k] # Absent

\* What MGet leaves unanswered and what it calls absent: a request without an error answers for
\* every key it asked for, and no answer or entry calls a row absent that is never deleted.
MissesExplained == NoSilentMiss /\ NoFalseAbsence

\* Every request returns, even when loaders hang for ever and hold all slots.
EveryRequestReturns == \A c \in Callers : pc[c] # "idle" ~> pc[c] = "idle"
=============================================================================
