----------------------------- MODULE ReadsProof -----------------------------
(***************************************************************************)
(* Proofs about the three parts that answer readers: the read cache        *)
(* (CacheFlight), the lists behind page tokens (CursorLists) and the visit *)
(* statistics (Analytics), each for every value of its constants.  The     *)
(* parts share no variable; every theorem is about one of them.            *)
(***************************************************************************)
EXTENDS CacheFlight, CursorLists, Analytics, SumLemmas, FiniteSetTheorems, SequenceTheorems, TLAPS

-----------------------------------------------------------------------------
(* THE READ CACHE *)

\* A published run owns nothing; a flight a caller joined and has not seen
\* closed is the registered one; whoever awaits has joined all that is missing.
Joined ==
  /\ \A r \in Runs : Published(r) => owned[r] = {}
  /\ \A c \in Callers, k \in Keys :
       calls[c][k] # NoRun /\ answer[c][k] = Open => flights[k] = calls[c][k]
  /\ \A c \in Callers : pc[c] = "await" => \A k \in missing[c] : calls[c][k] # NoRun

\* The invariant that the steps preserve.
IInv == TypeOK /\ FlightsMatchRuns /\ Joined /\ SlotsAccounted

\* The initial state satisfies the invariant.
LEMMA InitInv == Init => IInv
<1> SUFFICES ASSUME Init PROVE IInv
  OBVIOUS
<1>1. TypeOK
  BY CacheAssumption DEF Init, TypeOK, NoCalls, NoValues, Nothing, Outcome, NoAnswer,
     FlightValue, Open, Result, Value, Unset, Absent
<1>2. FlightsMatchRuns /\ Joined
  BY CacheAssumption DEF Init, FlightsMatchRuns, Joined, Published, NoCalls
<1>3. SlotHolders = {}
  BY DEF Init, SlotHolders
<1>4. SlotsAccounted
  BY <1>3, FS_EmptySet DEF SlotsAccounted, Init
<1> QED
  BY <1>1, <1>2, <1>4 DEF IInv

\* Collecting closed flights keeps the types: a closed flight holds an error of
\* the loader or a result.
LEMMA CollectType ==
  ASSUME TypeOK, NEW c \in Callers, NEW ks \in SUBSET Closed(c), Collect(c, ks)
  PROVE  /\ got' \in [Callers -> [Keys -> Result]]
         /\ errs' \in [Callers -> SUBSET Errors]
         /\ pc' = [pc EXCEPT ![c] = "batch"]
         /\ missing' \in [Callers -> SUBSET Keys]
         /\ calls' \in [Callers -> [Keys -> Runs \cup {NoRun}]]
         /\ answer' \in [Callers -> [Keys -> FlightValue]]
<1>1. ASSUME NEW k \in ks
      PROVE  /\ k \in Keys /\ answer[c][k].val \in Result
             /\ answer[c][k].err \in Errors \cup {"ok"}
  BY <1>1 DEF Closed, TypeOK, FlightValue, Errors
<1>2. got' \in [Callers -> [Keys -> Result]]
  BY <1>1 DEF Collect, TypeOK
<1>3. errs' \in [Callers -> SUBSET Errors]
  <2> DEFINE failed == {answer[c][k].err : k \in ks} \ {"ok"}
  <2>1. failed \subseteq Errors
    BY <1>1
  <2>2. PICK first \in SUBSET failed :
          errs' = [errs EXCEPT ![c] = @ \cup first
                     \cup IF ks = missing[c] THEN {} ELSE {"cancelled"}]
    BY DEF Collect
  <2>3. first \cup (IF ks = missing[c] THEN {} ELSE {"cancelled"}) \in SUBSET Errors
    BY <2>1 DEF Errors
  <2> QED
    BY <2>2, <2>3 DEF TypeOK
<1>4. /\ pc' = [pc EXCEPT ![c] = "batch"]
      /\ missing' \in [Callers -> SUBSET Keys]
      /\ calls' \in [Callers -> [Keys -> Runs \cup {NoRun}]]
      /\ answer' \in [Callers -> [Keys -> FlightValue]]
  BY DEF Collect, EndBatch, TypeOK, NoCalls, NoAnswer, FlightValue
<1> QED
  BY <1>2, <1>3, <1>4

\* Every step keeps the types, given that the slots are accounted for.
LEMMA TypeStep == TypeOK /\ limit \in 0..Limit /\ limit' \in 0..Limit /\ [Next]_vars => TypeOK'
<1> SUFFICES ASSUME TypeOK, limit' \in 0..Limit, [Next]_vars PROVE TypeOK'
  OBVIOUS
<1> USE CacheAssumption DEF TypeOK
<1>1. ASSUME NEW c \in Callers, Request(c) PROVE TypeOK'
  BY <1>1 DEF Request, runVars
<1>2. ASSUME NEW c \in Callers, Cancel(c) PROVE TypeOK'
  BY <1>2 DEF Cancel, runVars
<1>3. ASSUME NEW c \in Callers, Return(c) PROVE TypeOK'
  BY <1>3 DEF Return, runVars, Errors
<1>4. ASSUME NEW c \in Callers, Deliver(c) PROVE TypeOK'
  BY <1>4 DEF Deliver, runVars, NoValues, Result, Unset
<1>5. ASSUME NEW c \in Callers, ReadBatch(c) PROVE TypeOK'
  BY <1>5 DEF ReadBatch, runVars
<1>6. ASSUME NEW c \in Callers, Join(c) PROVE TypeOK'
  BY <1>6 DEF Join, runVars
<1>7. ASSUME NEW c \in Callers, Acquire(c) PROVE TypeOK'
  BY <1>7 DEF Acquire, runVars
<1>8. ASSUME NEW c \in Callers, QueueTimeout(c) PROVE TypeOK'
  BY <1>8 DEF QueueTimeout, runVars, GiveUp, EndBatch, Errors, NoCalls, NoAnswer, FlightValue
<1>9. ASSUME NEW c \in Callers, AbandonSlot(c) PROVE TypeOK'
  BY <1>9 DEF AbandonSlot, runVars, GiveUp, EndBatch, Errors, NoCalls, NoAnswer, FlightValue
<1>10. ASSUME NEW c \in Callers, Register(c) PROVE TypeOK'
  BY <1>10 DEF Register, Leaders
<1>11. ASSUME NEW c \in Callers, JoinLate(c) PROVE TypeOK'
  BY <1>11 DEF JoinLate, runVars
<1>12. ASSUME NEW c \in Callers, AwaitAll(c) PROVE TypeOK'
  <2>1. missing[c] \in SUBSET Closed(c) /\ Collect(c, missing[c])
    BY <1>12 DEF AwaitAll
  <2>2. /\ got' \in [Callers -> [Keys -> Result]]
        /\ errs' \in [Callers -> SUBSET Errors]
        /\ pc' = [pc EXCEPT ![c] = "batch"]
        /\ missing' \in [Callers -> SUBSET Keys]
        /\ calls' \in [Callers -> [Keys -> Runs \cup {NoRun}]]
        /\ answer' \in [Callers -> [Keys -> FlightValue]]
    BY <2>1, CollectType
  <2>3. UNCHANGED <<asked, todo, ctxDone, flights, limit, owned, sup, worker, loaded, final,
                    store, source, evict>>
    BY <1>12 DEF AwaitAll, runVars
  <2>4. pc' \in [Callers -> {"idle", "batch", "join", "queue", "register", "await", "returned"}]
    BY <2>2
  <2> QED
    BY <2>2, <2>3, <2>4
<1>13. ASSUME NEW c \in Callers, AwaitCancelled(c) PROVE TypeOK'
  <2>1. PICK ks \in SUBSET Closed(c) : Collect(c, ks)
    BY <1>13 DEF AwaitCancelled
  <2>2. /\ got' \in [Callers -> [Keys -> Result]]
        /\ errs' \in [Callers -> SUBSET Errors]
        /\ pc' = [pc EXCEPT ![c] = "batch"]
        /\ missing' \in [Callers -> SUBSET Keys]
        /\ calls' \in [Callers -> [Keys -> Runs \cup {NoRun}]]
        /\ answer' \in [Callers -> [Keys -> FlightValue]]
    BY <2>1, CollectType
  <2>3. UNCHANGED <<asked, todo, ctxDone, flights, limit, owned, sup, worker, loaded, final,
                    store, source, evict>>
    BY <1>13 DEF AwaitCancelled, runVars
  <2>4. pc' \in [Callers -> {"idle", "batch", "join", "queue", "register", "await", "returned"}]
    BY <2>2
  <2> QED
    BY <2>2, <2>3, <2>4
<1>14. ASSUME NEW r \in Runs, LoaderReturns(r) PROVE TypeOK'
  <2>1. PICK err \in {"ok", "source", "panic"}, found \in SUBSET owned[r] :
          loaded' = [loaded EXCEPT ![r] = LoadResult(r, err, found)]
    BY <1>14 DEF LoaderReturns
  <2>2. \A k \in Keys : Loaded(k, err, found) \in Result /\ Unset \in Result
    BY DEF Loaded, Result, Value, Unset, Absent
  <2>3. LoadResult(r, err, found) \in Outcome
    BY <2>2 DEF LoadResult, Outcome
  <2>4. loaded' \in [Runs -> Outcome]
    BY <2>1, <2>3
  <2> QED
    BY <1>14, <2>4 DEF LoaderReturns, callerVars
<1>15. ASSUME NEW r \in Runs, Receive(r) PROVE TypeOK'
  BY <1>15 DEF Receive, callerVars, Nothing, NoValues, Outcome, Result, Unset
<1>16. ASSUME NEW r \in Runs, Deadline(r) PROVE TypeOK'
  BY <1>16 DEF Deadline, callerVars, NoValues, Outcome, Result, Unset
<1>17. ASSUME NEW r \in Runs, WriteStore(r) PROVE TypeOK'
  BY <1>17 DEF WriteStore, callerVars, Outcome
<1>18. ASSUME NEW r \in Runs, Publish(r) PROVE TypeOK'
  BY <1>18 DEF Publish, Outcome, FlightValue, Nothing, NoValues, Result, Unset
<1>19. ASSUME NEW r \in Runs, Release(r) PROVE TypeOK'
  BY <1>19 DEF Release, callerVars, Nothing, NoValues, Outcome, Result, Unset
<1>20. ASSUME NEW k \in Keys, CommitWrite(k) PROVE TypeOK'
  BY <1>20 DEF CommitWrite, callerVars, runVars
<1>21. ASSUME NEW k \in Keys, Invalidate(k) PROVE TypeOK'
  <2>1. store' = store \/ store' = [store EXCEPT ![k] = Unset]
    BY <1>21 DEF Invalidate
  <2>2. Unset \in Result
    BY DEF Result, Unset
  <2>3. store' \in [Keys -> Result]
    BY <2>1, <2>2
  <2> QED
    BY <1>21, <2>3 DEF Invalidate, callerVars, runVars
<1>22. ASSUME NEW k \in Keys, Expire(k) PROVE TypeOK'
  BY <1>22 DEF Expire, callerVars, runVars, Result, Unset
<1>23. CASE UNCHANGED vars
  BY <1>23 DEF vars, callerVars, runVars
<1> QED
  BY <1>1, <1>2, <1>3, <1>4, <1>5, <1>6, <1>7, <1>8, <1>9, <1>10, <1>11, <1>12,
     <1>13, <1>14, <1>15, <1>16, <1>17, <1>18, <1>19, <1>20, <1>21, <1>22, <1>23
     DEF Next, CallerStep, SupervisorStep

\* Every step keeps the table of flights and the waiters consistent.
LEMMA FlightStep ==
  TypeOK /\ TypeOK' /\ FlightsMatchRuns /\ Joined /\ [Next]_vars
    => FlightsMatchRuns' /\ Joined'
<1> SUFFICES ASSUME TypeOK, TypeOK', FlightsMatchRuns, Joined, [Next]_vars
             PROVE  FlightsMatchRuns' /\ Joined'
  OBVIOUS
<1> USE CacheAssumption DEF Published, FlightsMatchRuns, Joined
<1>1. ASSUME NEW c \in Callers, Request(c) \/ Cancel(c) \/ Return(c) \/ Deliver(c)
                                 \/ ReadBatch(c) \/ Acquire(c)
      PROVE  FlightsMatchRuns' /\ Joined'
  <2>1. /\ UNCHANGED <<flights, calls, answer, owned, sup>>
        /\ \A d \in Callers : pc'[d] = "await" => pc[d] = "await" /\ missing'[d] = missing[d]
    BY <1>1 DEF Request, Cancel, Return, Deliver, ReadBatch, Acquire, runVars, TypeOK
  <2> QED
    BY <2>1
<1>2. ASSUME NEW c \in Callers, Join(c) PROVE FlightsMatchRuns' /\ Joined'
  BY <1>2 DEF Join, runVars, TypeOK
<1>3. ASSUME NEW c \in Callers, EndBatch(c), UNCHANGED <<flights, runVars>>
      PROVE  FlightsMatchRuns' /\ Joined'
  BY <1>3 DEF EndBatch, runVars, TypeOK, NoCalls
<1>4. ASSUME NEW c \in Callers, QueueTimeout(c) \/ AbandonSlot(c) \/ AwaitAll(c)
                                 \/ AwaitCancelled(c)
      PROVE  FlightsMatchRuns' /\ Joined'
  BY <1>3, <1>4 DEF QueueTimeout, AbandonSlot, AwaitAll, AwaitCancelled, GiveUp, Collect
<1>5. ASSUME NEW c \in Callers, Register(c) PROVE FlightsMatchRuns' /\ Joined'
  <2>1. PICK r \in Runs :
          /\ Free(r)
          /\ flights' = [k \in Keys |-> IF k \in Leaders(c) THEN r ELSE flights[k]]
          /\ calls' = [calls EXCEPT ![c] = [k \in Keys |->
               IF k \notin missing[c] THEN NoRun
               ELSE IF @[k] # NoRun THEN @[k]
               ELSE IF k \in Leaders(c) THEN r ELSE flights[k]]]
          /\ owned' = [owned EXCEPT ![r] = Leaders(c)]
          /\ sup' = [sup EXCEPT ![r] = "select"]
    BY <1>5 DEF Register
  <2>2. /\ Leaders(c) \subseteq Keys
        /\ \A k \in Leaders(c) : flights[k] = NoRun /\ calls[c][k] = NoRun
        /\ \A k \in missing[c] \ Leaders(c) : calls[c][k] # NoRun \/ flights[k] # NoRun
    BY DEF Leaders, TypeOK
  <2>3. \A k \in Keys : flights[k] # r
    BY <2>1 DEF Free, TypeOK
  <2>4. FlightsMatchRuns'
    BY <2>1, <2>2, <2>3 DEF TypeOK
  <2>5. \A d \in Callers, k \in Keys :
          calls'[d][k] # NoRun /\ answer'[d][k] = Open => flights'[k] = calls'[d][k]
    BY <1>5, <2>1, <2>2 DEF Register, TypeOK
  <2>6. \A d \in Callers : pc'[d] = "await" => \A k \in missing'[d] : calls'[d][k] # NoRun
    BY <1>5, <2>1, <2>2 DEF Register, TypeOK
  <2>7. \A q \in Runs : Published(q)' => owned'[q] = {}
    BY <2>1 DEF TypeOK
  <2> QED
    BY <2>4, <2>5, <2>6, <2>7
<1>6. ASSUME NEW c \in Callers, JoinLate(c) PROVE FlightsMatchRuns' /\ Joined'
  BY <1>6 DEF JoinLate, Leaders, runVars, TypeOK
<1>7. ASSUME NEW r \in Runs, LoaderReturns(r) \/ Receive(r) \/ Deadline(r)
                              \/ WriteStore(r) \/ Release(r)
      PROVE  FlightsMatchRuns' /\ Joined'
  <2>1. /\ UNCHANGED <<flights, calls, answer, owned, pc, missing>>
        /\ \A q \in Runs : sup'[q] = "done" <=> sup[q] = "done"
    BY <1>7 DEF LoaderReturns, Receive, Deadline, WriteStore, Release, callerVars, TypeOK
  <2> QED
    BY <2>1 DEF TypeOK
<1>8. ASSUME NEW r \in Runs, Publish(r) PROVE FlightsMatchRuns' /\ Joined'
  <2>1. FlightsMatchRuns'
    BY <1>8 DEF Publish, TypeOK
  <2>2. final[r].err # "open"
    BY DEF TypeOK, Outcome
  <2>3. \A d \in Callers, k \in Keys :
          calls'[d][k] # NoRun /\ answer'[d][k] = Open => flights'[k] = calls'[d][k]
    <3> SUFFICES ASSUME NEW d \in Callers, NEW k \in Keys,
                        calls'[d][k] # NoRun, answer'[d][k] = Open
                 PROVE  flights'[k] = calls'[d][k]
      OBVIOUS
    <3>1. calls' = calls /\ flights'[k] = (IF k \in owned[r] THEN NoRun ELSE flights[k])
      BY <1>8 DEF Publish
    <3>2. answer'[d][k] =
            IF calls[d][k] = r /\ k \in owned[r] /\ answer[d][k] = Open
            THEN [err |-> final[r].err, val |-> final[r].vals[k]] ELSE answer[d][k]
      BY <1>8 DEF Publish, Reached
    <3>3. ~(calls[d][k] = r /\ k \in owned[r] /\ answer[d][k] = Open)
      BY <2>2, <3>2 DEF Open
    <3>4. answer[d][k] = Open /\ flights[k] = calls[d][k]
      BY <3>1, <3>2, <3>3
    <3>5. k \notin owned[r]
      BY <1>8, <3>3, <3>4 DEF Publish
    <3> QED
      BY <3>1, <3>4, <3>5
  <2> QED
    BY <1>8, <2>1, <2>3 DEF Publish, TypeOK
<1>9. ASSUME NEW k \in Keys, CommitWrite(k) \/ Invalidate(k) \/ Expire(k)
      PROVE  FlightsMatchRuns' /\ Joined'
  BY <1>9 DEF CommitWrite, Invalidate, Expire, callerVars, runVars
<1>10. CASE UNCHANGED vars
  BY <1>10 DEF vars, callerVars, runVars
<1> QED
  BY <1>1, <1>2, <1>4, <1>5, <1>6, <1>7, <1>8, <1>9, <1>10
     DEF Next, CallerStep, SupervisorStep

\* Every step moves the counter of the slot channel as it moves the holders.
LEMMA SlotStep ==
  TypeOK /\ SlotsAccounted /\ [Next]_vars => SlotsAccounted' /\ limit' \in 0..Limit
<1> SUFFICES ASSUME TypeOK, SlotsAccounted, [Next]_vars
             PROVE  SlotsAccounted' /\ limit' \in 0..Limit
  OBVIOUS
<1> USE CacheAssumption DEF TypeOK, SlotsAccounted
<1>1. IsFiniteSet(SlotHolders)
  <2>1. IsFiniteSet(Callers \cup Runs)
    BY FS_Union
  <2> QED
    BY <2>1, FS_Subset DEF SlotHolders
<1>2. Cardinality(SlotHolders) \in Nat
  BY <1>1, FS_CardinalityType
<1>3. ASSUME SlotHolders' = SlotHolders, limit' = limit
      PROVE  SlotsAccounted' /\ limit' \in 0..Limit
  BY <1>3
<1>4. ASSUME NEW h \in SlotHolders, SlotHolders' = SlotHolders \ {h}, limit' = limit - 1
      PROVE  SlotsAccounted' /\ limit' \in 0..Limit
  <2>1. /\ Cardinality(SlotHolders') = Cardinality(SlotHolders) - 1
        /\ Cardinality(SlotHolders') \in Nat
    BY <1>1, <1>4, FS_RemoveElement, FS_CardinalityType
  <2> QED
    BY <1>2, <1>4, <2>1
<1>5. ASSUME NEW c \in Callers, Acquire(c) PROVE SlotsAccounted' /\ limit' \in 0..Limit
  <2>1. SlotHolders' = SlotHolders \cup {c} /\ c \notin SlotHolders
    BY <1>5 DEF Acquire, runVars, SlotHolders
  <2>2. Cardinality(SlotHolders') = Cardinality(SlotHolders) + 1
    BY <1>1, <2>1, FS_AddElement
  <2> QED
    BY <1>2, <1>5, <2>2 DEF Acquire
<1>6. ASSUME NEW c \in Callers, AbandonSlot(c) \/ JoinLate(c)
      PROVE  SlotsAccounted' /\ limit' \in 0..Limit
  <2>1. c \in SlotHolders /\ SlotHolders' = SlotHolders \ {c} /\ limit' = limit - 1
    BY <1>6 DEF AbandonSlot, JoinLate, GiveUp, EndBatch, runVars, SlotHolders
  <2> QED
    BY <1>4, <2>1
<1>7. ASSUME NEW r \in Runs, Release(r) PROVE SlotsAccounted' /\ limit' \in 0..Limit
  <2>1. r \in SlotHolders /\ SlotHolders' = SlotHolders \ {r} /\ limit' = limit - 1
    BY <1>7 DEF Release, callerVars, SlotHolders
  <2> QED
    BY <1>4, <2>1
<1>8. ASSUME NEW c \in Callers, Register(c) PROVE SlotsAccounted' /\ limit' \in 0..Limit
  <2>1. PICK r \in Runs : Free(r) /\ worker' = [worker EXCEPT ![r] = "loading"]
    BY <1>8 DEF Register
  <2>2. /\ c \in SlotHolders /\ r \notin SlotHolders
        /\ SlotHolders' = (SlotHolders \ {c}) \cup {r}
    BY <1>8, <2>1 DEF Register, Free, SlotHolders
  <2>3. /\ IsFiniteSet(SlotHolders \ {c})
        /\ Cardinality(SlotHolders \ {c}) = Cardinality(SlotHolders) - 1
    BY <1>1, <2>2, FS_RemoveElement
  <2>4. Cardinality(SlotHolders') = Cardinality(SlotHolders \ {c}) + 1
    BY <2>2, <2>3, FS_AddElement
  <2> QED
    BY <1>2, <1>8, <2>3, <2>4 DEF Register
<1>9. ASSUME NEW c \in Callers, Request(c) \/ Cancel(c) \/ Return(c) \/ Deliver(c)
                                 \/ ReadBatch(c) \/ Join(c)
      PROVE  SlotHolders' = SlotHolders /\ limit' = limit
  BY <1>9 DEF Request, Cancel, Return, Deliver, ReadBatch, Join, runVars, SlotHolders
<1>10. ASSUME NEW c \in Callers, QueueTimeout(c) \/ AwaitAll(c) \/ AwaitCancelled(c)
       PROVE  SlotHolders' = SlotHolders /\ limit' = limit
  BY <1>10 DEF QueueTimeout, AwaitAll, AwaitCancelled, GiveUp, Collect, EndBatch,
     runVars, SlotHolders
<1>11. ASSUME NEW r \in Runs, LoaderReturns(r) \/ SupervisorStep(r)
       PROVE  SlotHolders' = SlotHolders /\ limit' = limit
  BY <1>11 DEF LoaderReturns, SupervisorStep, Receive, Deadline, WriteStore, Publish,
     callerVars, SlotHolders
<1>12. ASSUME NEW k \in Keys, CommitWrite(k) \/ Invalidate(k) \/ Expire(k)
       PROVE  SlotHolders' = SlotHolders /\ limit' = limit
  BY <1>12 DEF CommitWrite, Invalidate, Expire, callerVars, runVars, SlotHolders
<1>13. CASE UNCHANGED vars
  BY <1>3, <1>13 DEF vars, callerVars, runVars, SlotHolders
<1> QED
  BY <1>3, <1>5, <1>6, <1>7, <1>8, <1>9, <1>10, <1>11, <1>12, <1>13 DEF Next, CallerStep

\* The invariant holds in every state of the specification.
THEOREM Invariance == Spec => []IInv
<1>1. IInv /\ [Next]_vars => IInv'
  <2> SUFFICES ASSUME IInv, [Next]_vars PROVE IInv'
    OBVIOUS
  <2>1. SlotsAccounted' /\ limit' \in 0..Limit
    BY SlotStep DEF IInv
  <2>2. TypeOK'
    BY <2>1, TypeStep DEF IInv, TypeOK
  <2>3. FlightsMatchRuns' /\ Joined'
    BY <2>2, FlightStep DEF IInv
  <2> QED
    BY <2>1, <2>2, <2>3 DEF IInv
<1> QED
  BY InitInv, <1>1, PTL DEF Spec

\* MGet, its flights and its loader runs keep the types of their state.
THEOREM TypeCorrect == Spec => []TypeOK
<1>1. IInv => TypeOK
  BY DEF IInv
<1> QED
  BY Invariance, <1>1, PTL

\* Client.flights holds exactly the unfinished flights, for any number of
\* concurrent requests and runs.
THEOREM FlightsConsistent == Spec => []FlightsMatchRuns
<1>1. IInv => FlightsMatchRuns
  BY DEF IInv
<1> QED
  BY Invariance, <1>1, PTL

\* Nobody waits on a flight that no supervisor is going to complete.
THEOREM NoOrphanedWaiter == Spec => []WaitersHaveSupervisor
<1>1. IInv => WaitersHaveSupervisor
  BY CacheAssumption DEF IInv, TypeOK, Joined, FlightsMatchRuns, Published,
     WaitersHaveSupervisor, Closed
<1> QED
  BY Invariance, <1>1, PTL

\* Every flight is served, for any number of requests, keys, runs and slots.
THEOREM FlightsAreServed == Spec => []FlightsServed
<1>1. TypeOK /\ FlightsMatchRuns /\ WaitersHaveSupervisor => FlightsServed
  BY DEF FlightsServed
<1> QED
  BY <1>1, TypeCorrect, FlightsConsistent, NoOrphanedWaiter, PTL

\* No loader slot leaks and none is freed twice.
THEOREM SlotsConserved == Spec => []SlotsAccounted
<1>1. IInv => SlotsAccounted
  BY DEF IInv
<1> QED
  BY Invariance, <1>1, PTL
-----------------------------------------------------------------------------
(* Misses *)

\* A row that is never written is there, and nobody has heard otherwise.
AbsenceInv ==
  \A k \in Keys \ Writable :
    /\ source[k] # Absent /\ store[k] # Absent
    /\ \A c \in Callers : got[c][k] # Absent /\ answer[c][k].val # Absent
    /\ \A r \in Runs : final[r].vals[k] # Absent /\ loaded[r].vals[k] # Absent

\* What is reported without an error has a value for every key.
ValueInv ==
  /\ \A c \in Callers, k \in Keys : answer[c][k].err = "ok" => answer[c][k].val # Unset
  /\ \A r \in Runs : sup[r] \in {"write", "publish"} /\ final[r].err = "ok" =>
       \A k \in owned[r] : final[r].vals[k] # Unset
  /\ \A r \in Runs : sup[r] = "select" /\ worker[r] = "returned" /\ loaded[r].err = "ok" =>
       \A k \in owned[r] : loaded[r].vals[k] # Unset

\* A key that was asked for is still to do, or answered, or there is an error.
AnswerInv ==
  \A c \in Callers :
    /\ pc[c] \in {"idle", "batch", "returned"} => missing[c] = {}
    /\ pc[c] = "returned" => todo[c] = {} \/ errs[c] # {}
    /\ \A k \in asked[c] : k \in todo[c] \cup missing[c] \/ got[c][k] # Unset \/ errs[c] # {}

MissInv == AbsenceInv /\ ValueInv /\ AnswerInv

\* The invariants of misses and values hold at the start.
LEMMA InitMiss == Init => MissInv
<1> SUFFICES ASSUME Init PROVE MissInv
  OBVIOUS
<1>1. AbsenceInv
  BY DEF Init, AbsenceInv, NoValues, Nothing, NoAnswer, Open, Unset, Absent
<1>2. ValueInv
  BY DEF Init, ValueInv, NoAnswer, Open
<1>3. AnswerInv
  BY DEF Init, AnswerInv
<1> QED
  BY <1>1, <1>2, <1>3 DEF MissInv

\* What the loader returned: every requested row, or an error, and no false absence.
LEMMA LoadHonest ==
  ASSUME TypeOK, TypeOK', AbsenceInv, NEW r \in Runs, LoaderReturns(r)
  PROVE  /\ \A q \in Runs \ {r} : loaded'[q] = loaded[q] /\ worker'[q] = worker[q]
         /\ loaded'[r].err = "ok" => \A k \in owned[r] : loaded'[r].vals[k] # Unset
         /\ \A k \in Keys \ Writable : loaded'[r].vals[k] # Absent
<1>1. PICK err \in {"ok", "source", "panic"}, found \in SUBSET owned[r] :
        /\ err = "ok" => \A k \in owned[r] \ found : source[k] = Absent
        /\ loaded' = [loaded EXCEPT ![r] = LoadResult(r, err, found)]
  BY DEF LoaderReturns
<1>2. /\ \A q \in Runs \ {r} : loaded'[q] = loaded[q] /\ worker'[q] = worker[q]
      /\ loaded'[r] = LoadResult(r, err, found)
  BY <1>1 DEF TypeOK, LoaderReturns
<1>3. /\ LoadResult(r, err, found).err = err
      /\ \A k \in Keys : LoadResult(r, err, found).vals[k] =
           IF k \in owned[r] THEN Loaded(k, err, found) ELSE Unset
  BY DEF LoadResult
<1>4. \A k \in Keys : source[k] \in Value /\ source[k] # Unset
  BY CacheAssumption DEF TypeOK, Value, Absent, Unset
<1>5. ASSUME err = "ok", NEW k \in owned[r] PROVE LoadResult(r, err, found).vals[k] # Unset
  <2>1. k \in Keys
    BY DEF TypeOK
  <2> QED
    BY <1>3, <1>4, <1>5, <2>1 DEF Loaded, Absent, Unset
<1>6. ASSUME NEW k \in Keys \ Writable PROVE LoadResult(r, err, found).vals[k] # Absent
  <2>1. source[k] # Absent
    BY DEF AbsenceInv
  <2> QED
    BY <1>1, <1>3, <2>1 DEF Loaded, Absent, Unset
<1> QED
  BY <1>2, <1>3, <1>5, <1>6

\* A step keeps what the entries and the loads say of absent rows.
LEMMA AbsenceStep == TypeOK /\ TypeOK' /\ AbsenceInv /\ [Next]_vars => AbsenceInv'
<1> SUFFICES ASSUME TypeOK, TypeOK', AbsenceInv, [Next]_vars, NEW k \in Keys \ Writable
             PROVE  /\ source'[k] # Absent /\ store'[k] # Absent
                    /\ \A c \in Callers : got'[c][k] # Absent /\ answer'[c][k].val # Absent
                    /\ \A r \in Runs : final'[r].vals[k] # Absent /\ loaded'[r].vals[k] # Absent
  BY DEF AbsenceInv
<1>0. /\ source[k] # Absent /\ store[k] # Absent
      /\ \A c \in Callers : got[c][k] # Absent /\ answer[c][k].val # Absent
      /\ \A r \in Runs : final[r].vals[k] # Absent /\ loaded[r].vals[k] # Absent
  BY DEF AbsenceInv
<1>e. /\ NoValues[k] # Absent /\ NoAnswer[k].val # Absent /\ Nothing.vals[k] # Absent
  BY DEF NoValues, NoAnswer, Nothing, Open, Unset, Absent
<1> DEFINE Goal == /\ source'[k] # Absent /\ store'[k] # Absent
                   /\ \A c \in Callers : got'[c][k] # Absent /\ answer'[c][k].val # Absent
                   /\ \A r \in Runs : final'[r].vals[k] # Absent /\ loaded'[r].vals[k] # Absent
<1>1. ASSUME NEW c \in Callers, Request(c) \/ Cancel(c) \/ Return(c) \/ Join(c) \/ Acquire(c) PROVE Goal
  BY <1>0, <1>1 DEF Request, Cancel, Return, Join, Acquire, runVars
<1>2. ASSUME NEW c \in Callers, Deliver(c) PROVE Goal
  BY <1>0, <1>e, <1>2 DEF Deliver, runVars, TypeOK
<1>3. ASSUME NEW c \in Callers, ReadBatch(c) PROVE Goal
  <2>1. PICK hits : got' = [got EXCEPT ![c] = [j \in Keys |-> IF j \in hits THEN store[j] ELSE @[j]]]
    BY <1>3 DEF ReadBatch
  <2>2. \A d \in Callers : got'[d][k] = got[d][k] \/ got'[d][k] = store[k]
    BY <2>1 DEF TypeOK
  <2> QED
    BY <1>0, <1>3, <2>2 DEF ReadBatch, runVars
<1>4. ASSUME NEW c \in Callers, EndBatch(c), UNCHANGED <<got, store, source, final, loaded>> PROVE Goal
  BY <1>0, <1>e, <1>4 DEF EndBatch, TypeOK
<1>5. ASSUME NEW c \in Callers, QueueTimeout(c) \/ AbandonSlot(c) PROVE Goal
  BY <1>4, <1>5 DEF QueueTimeout, AbandonSlot, GiveUp, runVars
<1>6. ASSUME NEW c \in Callers, Register(c) \/ JoinLate(c) PROVE Goal
  BY <1>0, <1>6 DEF Register, JoinLate, runVars
<1>7. ASSUME NEW c \in Callers, AwaitAll(c) \/ AwaitCancelled(c) PROVE Goal
  <2>1. PICK ks : Collect(c, ks)
    BY <1>7 DEF AwaitAll, AwaitCancelled
  <2>2. got' = [got EXCEPT ![c] = [j \in Keys |-> IF j \in ks THEN answer[c][j].val ELSE @[j]]]
    BY <2>1 DEF Collect
  <2>3. \A d \in Callers : got'[d][k] = got[d][k] \/ got'[d][k] = answer[d][k].val
    BY <2>2 DEF TypeOK
  <2>4. \A d \in Callers : answer'[d][k] = answer[d][k] \/ answer'[d][k] = NoAnswer[k]
    BY <2>1 DEF Collect, EndBatch, TypeOK
  <2> QED
    BY <1>0, <1>e, <1>7, <2>3, <2>4 DEF AwaitAll, AwaitCancelled, runVars
<1>8. ASSUME NEW r \in Runs, LoaderReturns(r) PROVE Goal
  <2>1. \A q \in Runs : loaded'[q].vals[k] # Absent
    BY <1>0, <1>8, LoadHonest
  <2> QED
    BY <1>0, <1>8, <2>1 DEF LoaderReturns, callerVars
<1>9. ASSUME NEW r \in Runs, Receive(r) \/ Deadline(r) \/ Release(r) PROVE Goal
  <2>1. \A q \in Runs : /\ loaded'[q] = loaded[q] \/ loaded'[q] = Nothing
                        /\ \/ final'[q] = final[q] \/ final'[q] = loaded[q]
                           \/ final'[q].vals = NoValues
    BY <1>9 DEF Receive, Deadline, Release, TypeOK
  <2> QED
    BY <1>0, <1>e, <1>9, <2>1 DEF Receive, Deadline, Release, callerVars
<1>10. ASSUME NEW r \in Runs, WriteStore(r) PROVE Goal
  <2>1. store'[k] = store[k] \/ store'[k] = final[r].vals[k]
    BY <1>10 DEF WriteStore
  <2> QED
    BY <1>0, <1>10, <2>1 DEF WriteStore, callerVars
<1>11. ASSUME NEW r \in Runs, Publish(r) PROVE Goal
  <2>1. \A c \in Callers : answer'[c][k] = answer[c][k] \/ answer'[c][k].val = final[r].vals[k]
    BY <1>11 DEF Publish
  <2>2. \A q \in Runs : final'[q] = final[q] \/ final'[q] = Nothing
    BY <1>11 DEF Publish, TypeOK
  <2> QED
    BY <1>0, <1>e, <1>11, <2>1, <2>2 DEF Publish
<1>12. ASSUME NEW j \in Keys, CommitWrite(j) \/ Invalidate(j) \/ Expire(j) PROVE Goal
  BY <1>0, <1>12 DEF CommitWrite, Invalidate, Expire, callerVars, runVars, TypeOK, Unset, Absent
<1>13. CASE UNCHANGED vars
  BY <1>0, <1>13 DEF vars, callerVars, runVars
<1> QED
  BY <1>1, <1>2, <1>3, <1>5, <1>6, <1>7, <1>8, <1>9, <1>10, <1>11, <1>12, <1>13
     DEF Next, CallerStep, SupervisorStep
\* A step keeps what callers, flights and loads say of the values they hold.
LEMMA ValueStep == TypeOK /\ TypeOK' /\ AbsenceInv /\ ValueInv /\ [Next]_vars => ValueInv'
<1> SUFFICES ASSUME TypeOK, TypeOK', AbsenceInv, ValueInv, [Next]_vars PROVE ValueInv'
  OBVIOUS
<1>0. /\ \A c \in Callers, k \in Keys : answer[c][k].err = "ok" => answer[c][k].val # Unset
      /\ \A r \in Runs : sup[r] \in {"write", "publish"} /\ final[r].err = "ok" =>
           \A k \in owned[r] : final[r].vals[k] # Unset
      /\ \A r \in Runs : sup[r] = "select" /\ worker[r] = "returned" /\ loaded[r].err = "ok" =>
           \A k \in owned[r] : loaded[r].vals[k] # Unset
  BY DEF ValueInv
<1>1. ASSUME NEW c \in Callers, Request(c) \/ Cancel(c) \/ Return(c) \/ Deliver(c) \/ ReadBatch(c)
                                \/ Join(c) \/ Acquire(c) \/ JoinLate(c)
      PROVE  ValueInv'
  <2>1. UNCHANGED <<answer, runVars>>
    BY <1>1 DEF Request, Cancel, Return, Deliver, ReadBatch, Join, Acquire, JoinLate
  <2> QED
    BY <1>0, <2>1 DEF ValueInv, runVars
<1>2. ASSUME NEW c \in Callers, EndBatch(c), UNCHANGED runVars PROVE ValueInv'
  <2>1. \A k \in Keys : NoAnswer[k].err # "ok"
    BY DEF NoAnswer, Open
  <2>2. \A d \in Callers : answer'[d] = answer[d] \/ answer'[d] = NoAnswer
    BY <1>2 DEF EndBatch, TypeOK
  <2> QED
    BY <1>0, <1>2, <2>1, <2>2 DEF ValueInv, runVars
<1>3. ASSUME NEW c \in Callers, QueueTimeout(c) \/ AbandonSlot(c) \/ AwaitAll(c) \/ AwaitCancelled(c)
      PROVE  ValueInv'
  BY <1>2, <1>3 DEF QueueTimeout, AbandonSlot, AwaitAll, AwaitCancelled, GiveUp, Collect
<1>4. ASSUME NEW c \in Callers, Register(c) PROVE ValueInv'
  <2>1. PICK r \in Runs : /\ sup' = [sup EXCEPT ![r] = "select"]
                          /\ worker' = [worker EXCEPT ![r] = "loading"]
                          /\ owned' = [owned EXCEPT ![r] = Leaders(c)]
    BY <1>4 DEF Register
  <2>2. UNCHANGED <<answer, loaded, final>>
    BY <1>4 DEF Register
  <2>3. /\ sup'[r] = "select" /\ worker'[r] = "loading"
        /\ \A q \in Runs \ {r} : sup'[q] = sup[q] /\ worker'[q] = worker[q] /\ owned'[q] = owned[q]
    BY <2>1 DEF TypeOK
  <2> QED
    BY <1>0, <2>2, <2>3 DEF ValueInv
<1>5. ASSUME NEW r \in Runs, LoaderReturns(r) PROVE ValueInv'
  <2>1. /\ \A q \in Runs \ {r} : loaded'[q] = loaded[q] /\ worker'[q] = worker[q]
        /\ loaded'[r].err = "ok" => \A k \in owned[r] : loaded'[r].vals[k] # Unset
    BY <1>5, LoadHonest
  <2>2. UNCHANGED <<answer, owned, sup, final>>
    BY <1>5 DEF LoaderReturns, callerVars
  <2> QED
    BY <1>0, <2>1, <2>2 DEF ValueInv
<1>6. ASSUME NEW r \in Runs, Receive(r) PROVE ValueInv'
  <2>1. /\ sup[r] = "select" /\ worker[r] = "returned" /\ final'[r] = loaded[r] /\ sup'[r] = "write"
        /\ \A q \in Runs \ {r} : final'[q] = final[q] /\ loaded'[q] = loaded[q] /\ sup'[q] = sup[q]
        /\ UNCHANGED <<answer, owned, worker>>
    BY <1>6 DEF Receive, callerVars, TypeOK
  <2> QED
    BY <1>0, <2>1 DEF ValueInv
<1>7. ASSUME NEW r \in Runs, Deadline(r) PROVE ValueInv'
  <2>1. /\ final'[r].err = "deadline" /\ sup'[r] = "publish"
        /\ \A q \in Runs \ {r} : final'[q] = final[q] /\ sup'[q] = sup[q]
        /\ UNCHANGED <<answer, owned, worker, loaded>>
    BY <1>7 DEF Deadline, callerVars, TypeOK
  <2> QED
    BY <1>0, <2>1 DEF ValueInv
<1>8. ASSUME NEW r \in Runs, WriteStore(r) PROVE ValueInv'
  <2>1. /\ sup[r] = "write" /\ sup'[r] = "publish"
        /\ \A q \in Runs \ {r} : sup'[q] = sup[q]
        /\ UNCHANGED <<answer, owned, worker, loaded, final>>
    BY <1>8 DEF WriteStore, callerVars, TypeOK
  <2> QED
    BY <1>0, <2>1 DEF ValueInv
<1>9. ASSUME NEW r \in Runs, Publish(r) PROVE ValueInv'
  <2>1. /\ sup[r] = "publish" /\ sup'[r] = "done"
        /\ \A q \in Runs \ {r} : final'[q] = final[q] /\ sup'[q] = sup[q] /\ owned'[q] = owned[q]
        /\ UNCHANGED <<worker, loaded>>
    BY <1>9 DEF Publish, TypeOK
  <2>2. ASSUME NEW c \in Callers, NEW k \in Keys, answer'[c][k].err = "ok"
        PROVE  answer'[c][k].val # Unset
    <3>1. \/ answer'[c][k] = answer[c][k]
          \/ k \in owned[r] /\ answer'[c][k] = [err |-> final[r].err, val |-> final[r].vals[k]]
      BY <1>9 DEF Publish
    <3> QED
      BY <1>0, <2>1, <2>2, <3>1
  <2>3. \A q \in Runs : sup'[q] \in {"write", "publish", "select"} => q # r
    BY <2>1
  <2> QED
    BY <1>0, <2>1, <2>2, <2>3 DEF ValueInv
<1>10. ASSUME NEW r \in Runs, Release(r) PROVE ValueInv'
  <2>1. /\ sup[r] = "done"
        /\ \A q \in Runs \ {r} : worker'[q] = worker[q] /\ loaded'[q] = loaded[q]
        /\ UNCHANGED <<answer, owned, sup, final>>
    BY <1>10 DEF Release, callerVars, TypeOK
  <2> QED
    BY <1>0, <2>1 DEF ValueInv
<1>11. ASSUME NEW k \in Keys, CommitWrite(k) \/ Invalidate(k) \/ Expire(k) PROVE ValueInv'
  BY <1>0, <1>11 DEF CommitWrite, Invalidate, Expire, callerVars, runVars, ValueInv
<1>12. CASE UNCHANGED vars
  BY <1>0, <1>12 DEF vars, callerVars, runVars, ValueInv
<1> QED
  BY <1>1, <1>3, <1>4, <1>5, <1>6, <1>7, <1>8, <1>9, <1>10, <1>11, <1>12
     DEF Next, CallerStep, SupervisorStep

\* What AnswerInv says of one caller.
AnswersFound(c) ==
  /\ pc[c] \in {"idle", "batch", "returned"} => missing[c] = {}
  /\ pc[c] = "returned" => todo[c] = {} \/ errs[c] # {}
  /\ \A k \in asked[c] : k \in todo[c] \cup missing[c] \/ got[c][k] # Unset \/ errs[c] # {}

\* A closed flight without an error has a value; otherwise the error is reported.
LEMMA CollectAnswers ==
  ASSUME TypeOK, ValueInv, AnswerInv, NEW c \in Callers, NEW ks \in SUBSET Closed(c), Collect(c, ks),
         UNCHANGED <<asked, todo>>
  PROVE  AnswersFound(c)'
<1>1. ks \in SUBSET missing[c] /\ missing[c] \in SUBSET Keys
  BY DEF Closed, TypeOK
<1>2. pc'[c] = "batch" /\ missing'[c] = {}
  BY DEF Collect, EndBatch, TypeOK
<1>3. \A k \in Keys : got'[c][k] = IF k \in ks THEN answer[c][k].val ELSE got[c][k]
  BY DEF Collect, TypeOK
<1> DEFINE failed == {answer[c][k].err : k \in ks} \ {"ok"}
<1>4. PICK first \in SUBSET failed :
        /\ Cardinality(first) = IF failed = {} THEN 0 ELSE 1
        /\ errs' = [errs EXCEPT ![c] = @ \cup first \cup IF ks = missing[c] THEN {} ELSE {"cancelled"}]
  BY DEF Collect
<1>5. errs'[c] = errs[c] \cup first \cup IF ks = missing[c] THEN {} ELSE {"cancelled"}
  BY <1>4 DEF TypeOK
<1>6. failed # {} => first # {}
  BY <1>4, FS_EmptySet
<1>7. ASSUME NEW k \in ks, answer[c][k].err # "ok" PROVE errs'[c] # {}
  <2>1. failed # {}
    BY <1>7
  <2> QED
    BY <1>5, <1>6, <2>1
<1>8. ks # missing[c] => errs'[c] # {}
  BY <1>5
<1> HIDE DEF failed
<1>9. ASSUME NEW k \in asked[c], errs'[c] = {} PROVE k \in todo[c] \/ got'[c][k] # Unset
  <2>1. k \in Keys /\ errs[c] = {} /\ ks = missing[c]
    BY <1>5, <1>8, <1>9 DEF TypeOK
  <2>2. k \in todo[c] \cup missing[c] \/ got[c][k] # Unset
    BY <2>1 DEF AnswerInv
  <2>3. CASE k \in ks
    <3>1. answer[c][k].err = "ok"
      BY <1>7, <1>9, <2>3
    <3> QED
      BY <1>3, <2>1, <2>3, <3>1 DEF ValueInv
  <2>4. CASE k \notin ks
    BY <1>3, <2>1, <2>2, <2>4
  <2> QED
    BY <2>3, <2>4
<1> QED
  BY <1>2, <1>9 DEF AnswersFound

\* A step keeps, for every caller, that what it asked is still to do, answered or an error.
LEMMA AnswerStep == TypeOK /\ TypeOK' /\ ValueInv /\ AnswerInv /\ [Next]_vars => AnswerInv'
<1> SUFFICES ASSUME TypeOK, TypeOK', ValueInv, AnswerInv, [Next]_vars PROVE AnswerInv'
  OBVIOUS
<1>0. \A c \in Callers : AnswersFound(c)
  BY DEF AnswerInv, AnswersFound
<1>1. ASSUME NEW c \in Callers, AnswersFound(c)',
             \A d \in Callers \ {c} : /\ pc'[d] = pc[d] /\ missing'[d] = missing[d] /\ todo'[d] = todo[d]
                                      /\ errs'[d] = errs[d] /\ asked'[d] = asked[d] /\ got'[d] = got[d]
      PROVE  AnswerInv'
  <2>1. \A d \in Callers \ {c} : AnswersFound(d)'
    BY <1>0, <1>1 DEF AnswersFound
  <2> QED
    BY <1>1, <2>1 DEF AnswerInv, AnswersFound
<1>2. ASSUME UNCHANGED <<pc, missing, todo, errs, asked, got>> PROVE AnswerInv'
  BY <1>0, <1>2 DEF AnswerInv, AnswersFound
<1>3. ASSUME NEW c \in Callers, Request(c) PROVE AnswerInv'
  <2>1. PICK ks \in SUBSET Keys \ {{}} : /\ asked' = [asked EXCEPT ![c] = ks]
                                         /\ todo' = [todo EXCEPT ![c] = ks]
    BY <1>3 DEF Request
  <2>2. /\ asked'[c] = ks /\ todo'[c] = ks /\ pc'[c] = "batch" /\ missing'[c] = {}
    BY <1>0, <1>3, <2>1 DEF Request, TypeOK, AnswersFound
  <2>3. AnswersFound(c)'
    BY <2>2 DEF AnswersFound
  <2> QED
    BY <1>1, <1>3, <2>1, <2>3 DEF Request, TypeOK
<1>4. ASSUME NEW c \in Callers, Return(c) PROVE AnswerInv'
  <2>1. /\ pc[c] = "batch" /\ pc'[c] = "returned" /\ UNCHANGED <<asked, todo, missing, got>>
        /\ errs'[c] = IF todo[c] = {} THEN errs[c] ELSE errs[c] \cup {"cancelled"}
    BY <1>4 DEF Return, TypeOK
  <2>2. AnswersFound(c)'
    BY <1>0, <2>1 DEF AnswersFound
  <2> QED
    BY <1>1, <1>4, <2>2 DEF Return, TypeOK
<1>5. ASSUME NEW c \in Callers, Deliver(c) PROVE AnswerInv'
  <2>1. pc[c] = "returned" /\ pc'[c] = "idle" /\ asked'[c] = {} /\ UNCHANGED missing
    BY <1>5 DEF Deliver, TypeOK
  <2>2. AnswersFound(c)'
    BY <1>0, <2>1 DEF AnswersFound
  <2> QED
    BY <1>1, <1>5, <2>2 DEF Deliver, TypeOK
<1>6. ASSUME NEW c \in Callers, ReadBatch(c) PROVE AnswerInv'
  <2>1. PICK batch \in SUBSET todo[c], hits \in SUBSET {k \in todo[c] : store[k] # Unset} :
          /\ hits \in SUBSET batch
          /\ got' = [got EXCEPT ![c] = [k \in Keys |-> IF k \in hits THEN store[k] ELSE @[k]]]
          /\ missing' = [missing EXCEPT ![c] = batch \ hits]
          /\ pc' = [pc EXCEPT ![c] = IF batch = hits THEN "batch" ELSE "join"]
          /\ todo' = [todo EXCEPT ![c] = @ \ batch]
    BY <1>6 DEF ReadBatch
  <2>2. UNCHANGED <<asked, errs>> /\ pc[c] = "batch" /\ missing[c] = {}
    BY <1>0, <1>6 DEF ReadBatch, AnswersFound
  <2>3. /\ \A k \in Keys : got'[c][k] = IF k \in hits THEN store[k] ELSE got[c][k]
        /\ missing'[c] = batch \ hits /\ todo'[c] = todo[c] \ batch
        /\ pc'[c] = IF batch = hits THEN "batch" ELSE "join"
    BY <2>1 DEF TypeOK
  <2>4. ASSUME NEW k \in asked[c]
        PROVE  k \in todo'[c] \cup missing'[c] \/ got'[c][k] # Unset \/ errs[c] # {}
    <3>1. k \in Keys /\ (k \in todo[c] \/ got[c][k] # Unset \/ errs[c] # {})
      BY <1>0, <2>2 DEF AnswersFound, TypeOK
    <3> QED
      BY <2>1, <2>3, <3>1
  <2>5. AnswersFound(c)'
    BY <2>1, <2>2, <2>3, <2>4 DEF AnswersFound
  <2> QED
    BY <1>1, <2>1, <2>2, <2>5 DEF TypeOK
<1>7. ASSUME NEW c \in Callers, Join(c) \/ Acquire(c) \/ Register(c) \/ JoinLate(c) PROVE AnswerInv'
  <2>1. /\ UNCHANGED <<asked, todo, missing, got, errs>>
        /\ pc'[c] \in {"queue", "await", "register"}
        /\ \A d \in Callers \ {c} : pc'[d] = pc[d]
    BY <1>7 DEF Join, Acquire, Register, JoinLate, TypeOK
  <2>2. AnswersFound(c)'
    BY <1>0, <2>1 DEF AnswersFound
  <2> QED
    BY <1>1, <2>1, <2>2
<1>8. ASSUME NEW c \in Callers, NEW e, GiveUp(c, e), UNCHANGED <<asked, todo, got>> PROVE AnswerInv'
  <2>1. pc'[c] = "batch" /\ missing'[c] = {} /\ errs'[c] = errs[c] \cup {e}
    BY <1>8 DEF GiveUp, EndBatch, TypeOK
  <2>2. AnswersFound(c)'
    BY <2>1 DEF AnswersFound
  <2> QED
    BY <1>1, <1>8, <2>2 DEF GiveUp, EndBatch, TypeOK
<1>9. ASSUME NEW c \in Callers, QueueTimeout(c) \/ AbandonSlot(c) PROVE AnswerInv'
  BY <1>8, <1>9 DEF QueueTimeout, AbandonSlot
<1>10. ASSUME NEW c \in Callers, AwaitAll(c) \/ AwaitCancelled(c) PROVE AnswerInv'
  <2>1. PICK ks \in SUBSET Closed(c) : Collect(c, ks) /\ UNCHANGED <<asked, todo>>
    BY <1>10 DEF AwaitAll, AwaitCancelled
  <2>2. AnswersFound(c)'
    BY <2>1, CollectAnswers
  <2> QED
    BY <1>1, <2>1, <2>2 DEF Collect, EndBatch, TypeOK
<1>11. ASSUME NEW c \in Callers, Cancel(c) PROVE AnswerInv'
  BY <1>2, <1>11 DEF Cancel
<1>12. ASSUME NEW r \in Runs, LoaderReturns(r) \/ SupervisorStep(r) \/ Release(r) PROVE AnswerInv'
  BY <1>2, <1>12 DEF LoaderReturns, SupervisorStep, Receive, Deadline, WriteStore, Publish, Release,
     callerVars
<1>13. ASSUME NEW k \in Keys, CommitWrite(k) \/ Invalidate(k) \/ Expire(k) PROVE AnswerInv'
  BY <1>2, <1>13 DEF CommitWrite, Invalidate, Expire, callerVars
<1>14. CASE UNCHANGED vars
  BY <1>2, <1>14 DEF vars, callerVars
<1> QED
  BY <1>3, <1>4, <1>5, <1>6, <1>7, <1>9, <1>10, <1>11, <1>12, <1>13, <1>14 DEF Next, CallerStep

\* A request that returns without an error has an answer for every key it asked for, and a row that
\* is never deleted is neither answered nor cached as absent, for any number of requests, keys, runs
\* and slots, however loads are merged, cancelled, late or failing (MGet, callLoader, runLoader,
\* awaitFlights).
THEOREM MissesAreExplained == Spec => []MissesExplained
<1>1. IInv /\ IInv' /\ MissInv /\ [Next]_vars => MissInv'
  BY AbsenceStep, ValueStep, AnswerStep DEF IInv, MissInv
<1>2. ASSUME IInv, MissInv PROVE MissesExplained
  <2>1. NoSilentMiss
    BY <1>2 DEF MissInv, AnswerInv, NoSilentMiss
  <2>2. NoFalseAbsence
    BY <1>2 DEF MissInv, AbsenceInv, NoFalseAbsence
  <2> QED
    BY <2>1, <2>2 DEF MissesExplained
<1>3. IInv /\ MissInv => MissesExplained
  BY <1>2
<1> QED
  BY Invariance, InitMiss, <1>1, <1>3, PTL DEF Spec

-----------------------------------------------------------------------------
(* THE LISTS *)

(* Lists: what a query answers. *)

\* R orders U strictly.
Orders(R, U) ==
  /\ \A x \in U : <<x, x>> \notin R
  /\ \A x, y \in U : x # y => <<x, y>> \in R \/ <<y, x>> \in R
  /\ \A x, y, z \in U : <<x, y>> \in R /\ <<y, z>> \in R => <<x, z>> \in R

\* The place of an element in that order.
Upto(R, U, x) == {y \in U : y = x \/ <<y, x>> \in R}
Place(R, U, x) == Cardinality(Upto(R, U, x))

\* Places are numbered in the order.
LEMMA PlaceOrder ==
  ASSUME NEW U, NEW R, IsFiniteSet(U), Orders(R, U)
  PROVE  /\ \A x \in U : Place(R, U, x) \in 1..Cardinality(U)
         /\ \A x, y \in U : <<x, y>> \in R => Place(R, U, x) < Place(R, U, y)
<1>1. ASSUME NEW x \in U
      PROVE  IsFiniteSet(Upto(R, U, x)) /\ Place(R, U, x) \in 1..Cardinality(U)
  <2>1. Upto(R, U, x) \in SUBSET U /\ x \in Upto(R, U, x)
    BY DEF Upto
  <2>2. IsFiniteSet(Upto(R, U, x)) /\ Place(R, U, x) <= Cardinality(U)
    BY <2>1, FS_Subset, Zenon DEF Place
  <2>3. Place(R, U, x) \in Nat /\ Cardinality(U) \in Nat
    BY <2>2, FS_CardinalityType DEF Place
  <2>4. Place(R, U, x) # 0
    BY <2>1, <2>2, FS_EmptySet DEF Place
  <2> QED
    BY <2>2, <2>3, <2>4
<1>2. ASSUME NEW x \in U, NEW y \in U, <<x, y>> \in R
      PROVE  Place(R, U, x) < Place(R, U, y)
  <2>1. Upto(R, U, x) \in SUBSET Upto(R, U, y)
    BY <1>2 DEF Upto, Orders
  <2>2. y \in Upto(R, U, y) /\ y \notin Upto(R, U, x)
    BY <1>2 DEF Upto, Orders
  <2>3. Place(R, U, x) <= Place(R, U, y) /\ Place(R, U, x) # Place(R, U, y)
    BY <1>1, <2>1, <2>2, FS_Subset DEF Place
  <2>4. Place(R, U, x) \in Nat /\ Place(R, U, y) \in Nat
    BY <1>1
  <2> QED
    BY <2>3, <2>4
<1> QED
  BY <1>1, <1>2

\* Every place is somebody's, and the order of two elements is that of their places.
LEMMA PlaceOnto ==
  ASSUME NEW U, NEW R, IsFiniteSet(U), Orders(R, U)
  PROVE  /\ \A k \in 1..Cardinality(U) : \E x \in U : Place(R, U, x) = k
         /\ \A x, y \in U : Place(R, U, x) = Place(R, U, y) => x = y
         /\ \A x, y \in U : Place(R, U, x) < Place(R, U, y) => <<x, y>> \in R
<1> DEFINE n == Cardinality(U)
           f == [x \in U |-> Place(R, U, x)]
<1>1. n \in Nat /\ IsFiniteSet(1..n) /\ Cardinality(1..n) = n
  BY FS_CardinalityType, FS_Interval
<1>2. \A x \in U : Place(R, U, x) \in 1..n
  BY PlaceOrder, Zenon
<1>3. \A x, y \in U : <<x, y>> \in R => Place(R, U, x) < Place(R, U, y)
  BY PlaceOrder, Zenon
<1>4. ASSUME NEW x \in U, NEW y \in U, x # y
      PROVE  /\ Place(R, U, x) # Place(R, U, y)
             /\ Place(R, U, x) < Place(R, U, y) => <<x, y>> \in R
  <2>1. Place(R, U, x) \in Int /\ Place(R, U, y) \in Int
    BY <1>1, <1>2
  <2>2. <<x, y>> \in R \/ <<y, x>> \in R
    BY <1>4 DEF Orders
  <2> QED
    BY <1>3, <2>1, <2>2
<1>5. \A x \in U : ~(Place(R, U, x) < Place(R, U, x))
  BY <1>1, <1>2
<1>6. f \in Injection(U, 1..n)
  BY <1>2, <1>4 DEF Injection, IsInjective
<1>7. f \in Surjection(U, 1..n)
  BY <1>1, <1>6, FS_Injection
<1> QED
  BY <1>4, <1>5, <1>7 DEF Surjection

-----------------------------------------------------------------------------
\* Row i comes before row j in a list.
Precedes(list, i, j) ==
  i # j /\ IF Upwards(list) THEN Below(Key(list, i), Key(list, j)) ELSE Below(Key(list, j), Key(list, i))

RowOrder(list) == {p \in Ids \X Ids : Precedes(list, p[1], p[2])}

\* Times are numbers: all that the order of a list asks of the rows.
Times == \A i \in Ids : row[i].time \in {0, 1}

\* A sort key is a time and an identity.
LEMMA KeyType ==
  ASSUME Times, NEW list, NEW i \in Ids
  PROVE  /\ Key(list, i) \in {0, 1} \X Ids /\ Key(list, i)[1] \in Nat /\ Key(list, i)[2] = i
         /\ i \in Nat /\ Key(list, i)[2] \in Nat
  BY ListsAssumption DEF Key, Times, Ids

\* The order of a query is strict.
LEMMA RowsOrdered ==
  ASSUME Times, NEW list, NEW found \in SUBSET Ids
  PROVE  Orders(RowOrder(list), found)
<1>1. \A i, j, k \in Ids : /\ i # j => Precedes(list, i, j) \/ Precedes(list, j, i)
                           /\ Precedes(list, i, j) /\ Precedes(list, j, k) => Precedes(list, i, k)
  <2> SUFFICES ASSUME NEW i \in Ids, NEW j \in Ids, NEW k \in Ids
               PROVE  /\ i # j => Precedes(list, i, j) \/ Precedes(list, j, i)
                      /\ Precedes(list, i, j) /\ Precedes(list, j, k) => Precedes(list, i, k)
    OBVIOUS
  <2>1. \A x \in {i, j, k} : Key(list, x)[1] \in Nat /\ Key(list, x)[2] = x /\ x \in Nat
    BY KeyType
  <2> QED
    BY <2>1 DEF Precedes, Below
<1>2. \A i, j \in Ids : <<i, j>> \in RowOrder(list) <=> Precedes(list, i, j)
  BY DEF RowOrder
<1>3. \A i \in Ids : ~Precedes(list, i, i)
  BY DEF Precedes
<1> QED
  BY <1>1, <1>2, <1>3 DEF Orders

\* The sequence a query sorts its rows into.
Sorted(list, found) ==
  CHOOSE s \in SetToSeqs(found) : \A m, n \in DOMAIN s :
    m < n => Upwards(list) = Below(Key(list, s[m]), Key(list, s[n]))

\* Sorting keeps every row, each once, and puts them in the order of the list.
LEMMA SortedRows ==
  ASSUME Times, NEW list \in Lists, NEW found \in SUBSET Ids
  PROVE  /\ Cardinality(found) \in Nat
         /\ Sorted(list, found) \in [1..Cardinality(found) -> found]
         /\ \A x \in found : \E k \in 1..Cardinality(found) : Sorted(list, found)[k] = x
         /\ \A k, l \in 1..Cardinality(found) :
              k < l => Precedes(list, Sorted(list, found)[k], Sorted(list, found)[l])
<1> DEFINE n == Cardinality(found)
           R == RowOrder(list)
           Op(i, j) == Upwards(list) = Below(Key(list, i), Key(list, j))
           P(s) == \A k, l \in DOMAIN s : k < l => Op(s[k], s[l])
           t == [k \in 1..n |-> CHOOSE x \in found : Place(R, found, x) = k]
           u == Sorted(list, found)
<1>1. IsFiniteSet(found) /\ n \in Nat /\ IsFiniteSet(1..n) /\ Cardinality(1..n) = n
  <2>1. IsFiniteSet(Ids)
    BY ListsAssumption, FS_Interval DEF Ids
  <2>2. IsFiniteSet(found) /\ n \in Nat
    BY <2>1, FS_Subset, FS_CardinalityType
  <2> QED
    BY <2>2, FS_Interval
<1>2. Orders(R, found)
  BY RowsOrdered
<1>3. \A k \in 1..n : t[k] \in found /\ Place(R, found, t[k]) = k
  BY <1>1, <1>2, PlaceOnto
<1>4. \A x, y \in found : /\ <<x, y>> \in R => Op(x, y)
                          /\ Op(x, y) /\ x # y => Precedes(list, x, y)
  <2> SUFFICES ASSUME NEW x \in found, NEW y \in found
               PROVE  /\ <<x, y>> \in R => Op(x, y)
                      /\ Op(x, y) /\ x # y => Precedes(list, x, y)
    OBVIOUS
  <2>1. \A z \in {x, y} : Key(list, z)[1] \in Nat /\ Key(list, z)[2] = z /\ z \in Nat
    BY KeyType
  <2>2. <<x, y>> \in R => Precedes(list, x, y)
    BY DEF RowOrder
  <2> QED
    BY <2>1, <2>2 DEF Precedes, Below, Upwards
<1>5. t \in SetToSeqs(found)
  <2>1. t \in [1..n -> found]
    BY <1>3
  <2>2. \A k, l \in 1..n : k # l => t[k] # t[l]
    <3> HIDE DEF t
    <3> QED
      BY <1>3
  <2> HIDE DEF t
  <2> QED
    BY <2>1, <2>2 DEF SetToSeqs
<1>6. P(t)
  <2> SUFFICES ASSUME NEW k \in 1..n, NEW l \in 1..n, k < l PROVE Op(t[k], t[l])
    OBVIOUS
  <2> HIDE DEF t, R
  <2>1. Place(R, found, t[k]) < Place(R, found, t[l])
    BY <1>3
  <2>2. <<t[k], t[l]>> \in R
    BY <1>1, <1>2, <1>3, <2>1, PlaceOnto
  <2> QED
    BY <1>3, <1>4, <2>2
<1>7. u \in SetToSeqs(found) /\ P(u)
  <2> HIDE DEF t
  <2>1. u = CHOOSE s \in SetToSeqs(found) : P(s)
    BY DEF Sorted
  <2> HIDE DEF u, P
  <2> QED
    BY <1>5, <1>6, <2>1
<1> HIDE DEF u
<1>8. u \in [1..n -> found] /\ \A k, l \in 1..n : k # l => u[k] # u[l]
  BY <1>7 DEF SetToSeqs
<1>9. \A x \in found : \E k \in 1..n : u[k] = x
  <2>1. u \in Injection(1..n, found)
    BY <1>8 DEF Injection, IsInjective
  <2>2. u \in Surjection(1..n, found)
    BY <1>1, <2>1, FS_Injection
  <2> QED
    BY <2>2 DEF Surjection
<1>10. ASSUME NEW k \in 1..n, NEW l \in 1..n, k < l PROVE Precedes(list, u[k], u[l])
  <2>1. u[k] \in found /\ u[l] \in found /\ u[k] # u[l]
    BY <1>1, <1>8, <1>10
  <2>2. Op(u[k], u[l])
    BY <1>7, <1>8, <1>10
  <2> QED
    BY <1>4, <2>1, <2>2
<1> QED
  BY <1>1, <1>8, <1>9, <1>10 DEF u

\* The rows that follow the cursor.
Following(list, viewer, cursor) ==
  {i \in Ids : Listed(list, viewer, i) /\ Beyond(list, Key(list, i), cursor)}

\* A page holds rows that follow the cursor, in order; if there is more it is full, and every
\* row that is not on it comes after its last one.
LEMMA PageOfQuery ==
  ASSUME Times, NEW list \in Lists, NEW viewer, NEW cursor,
         NEW rows, rows = Query(list, viewer, cursor),
         NEW page, page = Cut(rows), NEW more \in BOOLEAN, more <=> Len(rows) > PageSize
  PROVE  /\ page \in Seq(Ids) /\ Len(page) <= PageSize
         /\ more => Len(page) = PageSize
         /\ \A n \in DOMAIN page : page[n] \in Following(list, viewer, cursor)
         /\ \A m, n \in DOMAIN page : m < n => Precedes(list, page[m], page[n])
         /\ \A i \in Following(list, viewer, cursor) :
              \/ \E n \in DOMAIN page : page[n] = i
              \/ more /\ Precedes(list, page[Len(page)], i)
<1> DEFINE found == Following(list, viewer, cursor)
           all == Cardinality(found)
           u == Sorted(list, found)
           read == IF all > PageSize THEN PageSize + 1 ELSE all
           cut == IF all > PageSize THEN PageSize ELSE all
<1>0. PageSize \in Nat /\ PageSize > 0 /\ found \in SUBSET Ids
  BY ListsAssumption DEF Following
<1>1. /\ all \in Nat /\ u \in [1..all -> found]
      /\ \A x \in found : \E k \in 1..all : u[k] = x
      /\ \A k, l \in 1..all : k < l => Precedes(list, u[k], u[l])
  BY <1>0, SortedRows
<1>2. rows = SubSeq(u, 1, IF Len(u) > PageSize THEN PageSize + 1 ELSE Len(u))
  BY DEF Query, Sorted, Following
<1> HIDE DEF found, u
<1>3. u \in Seq(Ids) /\ Len(u) = all
  BY <1>0, <1>1
<1> HIDE DEF all
<1>4. rows = [k \in 1..read |-> u[k]] /\ rows \in Seq(Ids) /\ Len(rows) = read
  <2>1. read \in Nat /\ read <= all
    BY <1>0, <1>1
  <2>2. rows = SubSeq(u, 1, read)
    BY <1>2, <1>3
  <2> HIDE DEF read
  <2>3. \A k \in 1..read : u[k] \in Ids
    BY <1>0, <1>1, <2>1
  <2>4. Len(rows) = read /\ rows \in Seq(Ids) /\ \A k \in 1..read : rows[k] = u[k]
    BY <1>3, <2>1, <2>2, <2>3, SubSeqProperties
  <2> QED
    BY <2>4
<1>5. page = [k \in 1..cut |-> u[k]] /\ page \in Seq(Ids) /\ Len(page) = cut
  <2>1. cut \in Nat /\ cut <= read /\ read \in Nat /\ cut <= all /\ read <= all
    BY <1>0, <1>1
  <2>2. page = SubSeq(rows, 1, cut)
    BY <1>0, <1>1, <1>4 DEF Cut
  <2> HIDE DEF cut, read
  <2>3. Len(page) = cut /\ page \in Seq(Ids) /\ \A k \in 1..cut : page[k] = rows[k]
    BY <1>4, <2>1, <2>2, SubSeqProperties
  <2> QED
    BY <1>4, <2>1, <2>3
<1>6. more = (all > PageSize)
  BY <1>0, <1>1, <1>4
<1>7. ASSUME NEW i \in found
      PROVE  \/ \E n \in DOMAIN page : page[n] = i
             \/ more /\ Precedes(list, page[Len(page)], i)
  <2>1. PICK k \in 1..all : u[k] = i
    BY <1>1
  <2>2. CASE k <= cut
    BY <1>0, <1>1, <1>5, <2>1, <2>2
  <2>3. CASE k > cut
    <3>1. all > PageSize /\ cut = PageSize /\ PageSize \in 1..all /\ PageSize < k
      BY <1>0, <1>1, <2>3
    <3>2. Precedes(list, u[PageSize], i)
      BY <1>1, <2>1, <3>1
    <3>3. more
      BY <1>6, <3>1, Zenon
    <3>5. PageSize \in 1..cut
      BY <1>0, <3>1
    <3>4. Len(page) = PageSize /\ page[PageSize] = u[PageSize]
      <4> HIDE DEF cut
      <4> QED
        BY <1>5, <3>1, <3>5
    <3> QED
      BY <3>2, <3>3, <3>4
  <2> QED
    BY <1>0, <1>1, <2>2, <2>3
<1>8. \A n \in DOMAIN page : n \in 1..all /\ page[n] = u[n]
  <2>1. cut \in Nat /\ cut <= all
    BY <1>0, <1>1
  <2> HIDE DEF cut
  <2>2. DOMAIN page = 1..cut /\ \A n \in 1..cut : page[n] = u[n]
    BY <1>5
  <2>3. \A n \in 1..cut : n \in 1..all
    BY <1>1, <2>1
  <2> QED
    BY <2>2, <2>3, Zenon
<1>9. Len(page) <= PageSize /\ (more => Len(page) = PageSize)
  <2>1. more => all > PageSize
    BY <1>6, Zenon
  <2> QED
    BY <1>0, <1>1, <1>5, <2>1
<1>10. /\ \A n \in DOMAIN page : page[n] \in found
       /\ \A m, n \in DOMAIN page : m < n => Precedes(list, page[m], page[n])
  <2> HIDE DEF cut, read
  <2> QED
    BY <1>1, <1>8
<1> HIDE DEF cut, read
<1> QED
  BY <1>5, <1>7, <1>9, <1>10 DEF found

-----------------------------------------------------------------------------
(* The walk. *)

CursorKeys == {0, 1} \X Ids
Item == [id : Ids, key : CursorKeys, text : 0..MaxChanges, cover : {"none", "hidden", "open", "secret"}]

Walks == [pc : {"next", "rows", "states", "done", "refused"}, list : Lists, viewer : Viewers,
          cursor : CursorKeys \cup {NoCursor}, listed : [Ids -> 0..2], page : Seq(Item),
          more : BOOLEAN, masked : SUBSET Ids]

WalkType == walk # NoWalk => walk \in Walks

\* The walk reads on: no page has been refused or was the last.
Walking == walk.pc \in {"next", "rows", "states"}

\* What has been listed lies before the cursor, and all that the walk could see throughout and
\* lies before the cursor has been listed.
Position ==
  Walking => \A i \in Ids :
    /\ walk.listed[i] <= 1
    /\ walk.listed[i] = 1 => Exists(i) /\ ~Beyond(walk.list, Key(walk.list, i), walk.cursor)
    /\ (i \in steady /\ ~Beyond(walk.list, Key(walk.list, i), walk.cursor)) => walk.listed[i] = 1

\* The page in hand follows the cursor, in the order of the list, and leaves out none of the
\* rows the walk could see throughout, up to its last one.
PageFollows ==
  walk.pc \in {"rows", "states"} =>
    /\ \A n \in DOMAIN walk.page :
         /\ Exists(walk.page[n].id) /\ walk.page[n].key = Key(walk.list, walk.page[n].id)
         /\ Beyond(walk.list, Key(walk.list, walk.page[n].id), walk.cursor)
    /\ \A m, n \in DOMAIN walk.page : m < n => Precedes(walk.list, walk.page[m].id, walk.page[n].id)
    /\ \A i \in steady : Beyond(walk.list, Key(walk.list, i), walk.cursor) =>
         \/ \E n \in DOMAIN walk.page : walk.page[n].id = i
         \/ walk.more /\ Precedes(walk.list, walk.page[Len(walk.page)].id, i)
    /\ walk.more => Len(walk.page) = PageSize

\* Texts are numbered by the changes that wrote them, and a text is secret only behind a password.
\* Once the passwords are read, a manual without one has only texts written since.
TextsKnown ==
  /\ \A i \in Ids : row[i].text <= changes /\ (~row[i].protected => row[i].text = 0)
  /\ walk.pc \in {"rows", "states"} => \A n \in DOMAIN walk.page : walk.page[n].text <= changes
  /\ walk.pc = "states" => \A n \in DOMAIN walk.page :
       walk.page[n].id \notin walk.masked =>
         row[walk.page[n].id].text = 0 \/ row[walk.page[n].id].text > walk.page[n].text

\* What the walk has been able to see ever since is there to be seen.
SteadyListed == walk # NoWalk => \A i \in steady : Listed(walk.list, walk.viewer, i)

\* The invariant behind the walks.
ListInv == ListTypes /\ WalkType /\ SteadyListed /\ Position /\ PageFollows /\ TextsKnown /\ ExactlyOnce

\* What the type of a walk says of the rows on its page.
LEMMA WalkFacts ==
  ASSUME WalkType, walk.pc \in {"next", "rows", "states", "done", "refused"}
  PROVE  /\ walk # NoWalk
         /\ walk \in Walks
         /\ walk.page \in Seq(Item) /\ DOMAIN walk.page = 1..Len(walk.page) /\ Len(walk.page) \in Nat
         /\ \A n \in DOMAIN walk.page :
              /\ walk.page[n] \in Item /\ walk.page[n].id \in Ids /\ walk.page[n].text \in 0..MaxChanges
              /\ walk.page[n].text \in Nat /\ walk.page[n].key \in CursorKeys
<1> USE DEF Walks
<1>1. walk # NoWalk
  BY DEF NoWalk
<1>2. walk \in Walks
  BY <1>1 DEF WalkType
<1>3. walk.page \in Seq(Item) /\ DOMAIN walk.page = 1..Len(walk.page) /\ Len(walk.page) \in Nat
  BY <1>2
<1>4. \A n \in DOMAIN walk.page : walk.page[n] \in Item
  BY <1>3
<1>5. \A item \in Item : /\ item.id \in Ids /\ item.text \in 0..MaxChanges /\ item.text \in Nat
                         /\ item.key \in CursorKeys
  BY ListsAssumption DEF Item
<1> QED
  BY <1>1, <1>2, <1>3, <1>4, <1>5

\* The lists start with the invariant.
LEMMA ListInit_Inv == ListInit => ListInv
<1> SUFFICES ASSUME ListInit PROVE ListInv
  OBVIOUS
<1>1. walk = NoWalk /\ walk.pc = "idle" /\ steady = {}
  BY DEF ListInit, NoWalk
<1>2. ListTypes
  BY <1>1, ListsAssumption DEF ListInit, ListTypes, NoRow
<1>3. TextsKnown
  BY <1>1, ListsAssumption DEF ListInit, TextsKnown, NoRow
<1> QED
  BY <1>1, <1>2, <1>3 DEF ListInv, WalkType, SteadyListed, Position, Walking, PageFollows, ExactlyOnce

RowRecord == [status : {"none", "draft", "active", "deleted"}, access : {"owner", "authenticated", "public"},
              time : {0, 1}, protected : BOOLEAN, text : 0..MaxChanges, cover : {"open", "secret"}]

\* The row of i becomes another one, as every change does.
Rewrites(i, new) ==
  /\ Change(i, new)
  /\ Exists(i) => new.status # "none" /\ new.time = row[i].time
  /\ new.text \in {row[i].text, 0, changes'} /\ (~new.protected => new.text = 0)

\* The rows change one at a time; a row that is there stays there and keeps its time, and a text
\* is written under the number of its change.
LEMMA MeanwhileEffect ==
  ASSUME ListTypes, TextsKnown, Meanwhile
  PROVE  /\ walk' = walk /\ open' \in BOOLEAN /\ changes' \in 0..MaxChanges /\ changes' = changes + 1
         /\ row' \in [Ids -> RowRecord]
         /\ \A i \in Ids : /\ Exists(i) => Exists(i)' /\ row'[i].time = row[i].time
                           /\ row'[i].text \in {row[i].text, 0, changes'}
                           /\ ~row'[i].protected => row'[i].text = 0
<1> USE DEF RowRecord
<1>0. row \in [Ids -> RowRecord] /\ changes \in Nat /\ MaxChanges \in Nat /\ open \in BOOLEAN
  BY ListsAssumption DEF ListTypes
<1>1. ASSUME NEW i \in Ids, NEW new \in RowRecord, Rewrites(i, new)
      PROVE  /\ walk' = walk /\ open' \in BOOLEAN /\ changes' \in 0..MaxChanges /\ changes' = changes + 1
             /\ row' \in [Ids -> RowRecord]
             /\ \A j \in Ids : /\ Exists(j) => Exists(j)' /\ row'[j].time = row[j].time
                               /\ row'[j].text \in {row[j].text, 0, changes'}
                               /\ ~row'[j].protected => row'[j].text = 0
  <2> HIDE DEF RowRecord
  <2>1. row' = [row EXCEPT ![i] = new] /\ open' = open /\ walk' = walk
    BY <1>1 DEF Change, Rewrites
  <2>2. changes' \in 0..MaxChanges /\ changes' = changes + 1
    BY <1>0, <1>1 DEF Change, Changing, Rewrites
  <2>3. row' \in [Ids -> RowRecord] /\ row'[i] = new /\ \A j \in Ids \ {i} : row'[j] = row[j]
    BY <1>0, <1>1, <2>1
  <2>4. \A j \in Ids : ~row[j].protected => row[j].text = 0
    BY DEF TextsKnown
  <2>5. ASSUME NEW j \in Ids
        PROVE  /\ Exists(j) => Exists(j)' /\ row'[j].time = row[j].time
               /\ row'[j].text \in {row[j].text, 0, changes'}
               /\ ~row'[j].protected => row'[j].text = 0
    BY <1>1, <2>3, <2>4 DEF Exists, Rewrites
  <2> QED
    BY <1>0, <2>1, <2>2, <2>3, <2>5
<1>2. ASSUME NEW i \in Ids, NEW time \in {0, 1}, Insert(i, time)
      PROVE  \E new \in RowRecord : Rewrites(i, new)
  <2> DEFINE new == [NoRow EXCEPT !.status = "active", !.time = time]
  <2>1. /\ new \in RowRecord /\ new.status = "active" /\ new.time = time /\ new.text = 0
        /\ ~Exists(i) /\ Change(i, new)
    <3>1. 0 \in 0..MaxChanges
      BY <1>0
    <3>2. NoRow \in RowRecord /\ NoRow.text = 0
      BY <3>1 DEF NoRow
    <3>3. ~Exists(i) /\ Change(i, new)
      BY <1>2 DEF Insert
    <3>4. new \in RowRecord /\ new.status = "active" /\ new.time = time /\ new.text = 0
      BY <3>2
    <3> QED
      BY <3>3, <3>4
  <2> HIDE DEF new, RowRecord
  <2> QED
    BY <2>1 DEF Rewrites
<1>3. ASSUME NEW i \in Ids, NEW status \in {"draft", "active", "deleted"}, SetStatus(i, status)
      PROVE  \E new \in RowRecord : Rewrites(i, new)
  <2> DEFINE new == [row[i] EXCEPT !.status = status]
  <2>1. row[i] \in RowRecord /\ (~row[i].protected => row[i].text = 0)
    BY <1>0 DEF TextsKnown
  <2>2. new \in RowRecord /\ new.status = status /\ new.time = row[i].time /\ new.text = row[i].text
        /\ new.protected = row[i].protected
    BY <2>1
  <2>3. Change(i, new)
    BY <1>3 DEF SetStatus
  <2> HIDE DEF new
  <2> QED
    BY <2>1, <2>2, <2>3 DEF Rewrites
<1>4. ASSUME NEW i \in Ids, NEW access \in {"owner", "authenticated", "public"}, SetAccess(i, access)
      PROVE  \E new \in RowRecord : Rewrites(i, new)
  <2> DEFINE new == [row[i] EXCEPT !.access = access]
  <2>1. row[i] \in RowRecord /\ (~row[i].protected => row[i].text = 0)
    BY <1>0 DEF TextsKnown
  <2>2. new \in RowRecord /\ new.status = row[i].status /\ new.time = row[i].time /\ new.text = row[i].text
        /\ new.protected = row[i].protected
    BY <2>1
  <2>3. Change(i, new)
    BY <1>4 DEF SetAccess
  <2> HIDE DEF new
  <2> QED
    BY <2>1, <2>2, <2>3 DEF Exists, Rewrites
<1>5. ASSUME NEW i \in Ids, SetResourcePassword(i)
      PROVE  \E new \in RowRecord : Rewrites(i, new)
  <2>1. row[i] \in RowRecord
    BY <1>0
  <2>2. CASE row[i].protected
    <3> DEFINE new == [row[i] EXCEPT !.protected = FALSE, !.text = 0, !.cover = "open"]
    <3>0. 0 \in 0..MaxChanges
      BY <1>0
    <3>1. new \in RowRecord /\ new.status = row[i].status /\ new.time = row[i].time /\ new.text = 0
      BY <2>1, <3>0
    <3>2. Change(i, new)
      BY <1>5, <2>2 DEF SetResourcePassword
    <3> HIDE DEF new
    <3> QED
      BY <3>1, <3>2 DEF Exists, Rewrites
  <2>3. CASE ~row[i].protected
    <3> DEFINE new == [row[i] EXCEPT !.protected = TRUE]
    <3>1. new \in RowRecord /\ new.status = row[i].status /\ new.time = row[i].time /\ new.text = row[i].text
          /\ new.protected = TRUE
      BY <2>1
    <3>2. Change(i, new)
      BY <1>5, <2>3 DEF SetResourcePassword
    <3> HIDE DEF new
    <3> QED
      BY <3>1, <3>2 DEF Exists, Rewrites
  <2> QED
    BY <2>2, <2>3
<1>6. ASSUME NEW i \in Ids, Write(i)
      PROVE  \E new \in RowRecord : Rewrites(i, new)
  <2>1. row[i] \in RowRecord /\ row[i].protected
    BY <1>0, <1>6 DEF Write
  <2>2. CASE Change(i, [row[i] EXCEPT !.text = changes'])
    <3> DEFINE new == [row[i] EXCEPT !.text = changes']
    <3>1. changes' \in 0..MaxChanges
      BY <1>0, <2>2 DEF Change, Changing
    <3>2. new \in RowRecord /\ new.status = row[i].status /\ new.time = row[i].time /\ new.text = changes'
          /\ new.protected = row[i].protected
      BY <2>1, <3>1
    <3>3. Change(i, new)
      BY <2>2
    <3> HIDE DEF new
    <3> QED
      BY <2>1, <3>2, <3>3 DEF Exists, Rewrites
  <2>3. CASE Change(i, [row[i] EXCEPT !.cover = "secret"])
    <3> DEFINE new == [row[i] EXCEPT !.cover = "secret"]
    <3>1. new \in RowRecord /\ new.status = row[i].status /\ new.time = row[i].time /\ new.text = row[i].text
          /\ new.protected = row[i].protected
      BY <2>1
    <3>2. Change(i, new)
      BY <2>3
    <3> HIDE DEF new
    <3> QED
      BY <2>1, <3>1, <3>2 DEF Exists, Rewrites
  <2> QED
    BY <1>6, <2>2, <2>3 DEF Write
<1>7. CASE SetOpen
  BY <1>0, <1>7 DEF SetOpen, Changing, Exists, TextsKnown
<1>8. CASE \E i \in Ids, new \in RowRecord : Rewrites(i, new)
  BY <1>1, <1>8
<1> HIDE DEF RowRecord
<1> QED
  BY <1>2, <1>3, <1>4, <1>5, <1>6, <1>7, <1>8 DEF Meanwhile

\* What the parts of the invariant say of the order of the list.
LEMMA OrderFacts ==
  ASSUME Times, NEW list, NEW i \in Ids, NEW j \in Ids, NEW cursor \in CursorKeys \cup {NoCursor}
  PROVE  /\ Beyond(list, Key(list, j), Key(list, i)) <=> Precedes(list, i, j)
         /\ Precedes(list, i, j) => ~Precedes(list, j, i) /\ i # j
         /\ Beyond(list, Key(list, i), cursor) /\ Precedes(list, i, j) => Beyond(list, Key(list, j), cursor)
<1>1. \A x \in {i, j} : /\ Key(list, x)[1] \in Nat /\ Key(list, x)[2] = x /\ x \in Nat
                        /\ Key(list, x) \in {0, 1} \X Ids
  BY KeyType
<1>2. Key(list, i) # NoCursor
  BY DEF Key, NoCursor
<1>3. cursor # NoCursor => cursor[1] \in Nat /\ cursor[2] \in Nat
  BY ListsAssumption DEF CursorKeys, Ids
<1>4. Beyond(list, Key(list, j), Key(list, i)) <=> Precedes(list, i, j)
  BY <1>1, <1>2 DEF Beyond, Precedes, Below
<1>5. Precedes(list, i, j) => ~Precedes(list, j, i) /\ i # j
  BY <1>1 DEF Precedes, Below
<1>6. Beyond(list, Key(list, i), cursor) /\ Precedes(list, i, j) => Beyond(list, Key(list, j), cursor)
  BY <1>1, <1>3 DEF Beyond, Precedes, Below
<1> QED
  BY <1>4, <1>5, <1>6

\* A row's change while a walk is open keeps the invariant.
LEMMA ListMeanwhile ==
  ASSUME ListInv, Meanwhile, StillSteady
  PROVE  ListInv'
<1> USE DEF ListInv, Walks, RowRecord
<1>1. /\ walk' = walk /\ open' \in BOOLEAN /\ changes' \in 0..MaxChanges /\ changes' = changes + 1
      /\ row' \in [Ids -> RowRecord]
      /\ \A i \in Ids : /\ Exists(i) => Exists(i)' /\ row'[i].time = row[i].time
                        /\ row'[i].text \in {row[i].text, 0, changes'}
                        /\ ~row'[i].protected => row'[i].text = 0
  BY MeanwhileEffect
<1>2. /\ steady' \subseteq steady /\ steady' \subseteq Ids
      /\ walk # NoWalk => \A i \in steady' : Listed(walk.list, walk.viewer, i)'
  BY DEF StillSteady, ListTypes
<1>3. ListTypes'
  BY <1>1, <1>2 DEF ListTypes
<1>4. WalkType' /\ SteadyListed' /\ ExactlyOnce'
  BY <1>1, <1>2 DEF WalkType, SteadyListed, ExactlyOnce
<1>5. \A i \in Ids : Exists(i) => Key(walk.list, i)' = Key(walk.list, i)
  BY <1>1 DEF Key
<1>6. \A i \in steady : walk # NoWalk => Exists(i) /\ i \in Ids
  BY DEF SteadyListed, Listed, ListTypes
<1>7. walk.pc \in {"next", "rows", "states", "done", "refused"} =>
        /\ walk # NoWalk /\ DOMAIN walk.page = 1..Len(walk.page)
        /\ \A n \in DOMAIN walk.page : walk.page[n].id \in Ids /\ walk.page[n].text \in Nat
  BY WalkFacts
<1>8. Position'
  <2> SUFFICES ASSUME Walking, NEW i \in Ids
               PROVE  /\ walk.listed[i] <= 1
                      /\ walk.listed[i] = 1 => Exists(i)' /\ ~Beyond(walk.list, Key(walk.list, i)', walk.cursor)
                      /\ (i \in steady' /\ ~Beyond(walk.list, Key(walk.list, i)', walk.cursor)) => walk.listed[i] = 1
    BY <1>1 DEF Position, Walking, Beyond
  <2> QED
    BY <1>1, <1>2, <1>5, <1>6, <1>7 DEF Position, Walking
<1>9. PageFollows'
  <2> SUFFICES ASSUME walk.pc \in {"rows", "states"} PROVE PageFollows'
    BY <1>1 DEF PageFollows
  <2>1. \A n \in DOMAIN walk.page : walk.page[n].id \in Ids
    BY <1>7
  <2>2. \A i, j \in Ids : Exists(i) /\ Exists(j) => (Precedes(walk.list, i, j)' <=> Precedes(walk.list, i, j))
    BY <1>1, <1>5 DEF Precedes, Upwards, Below
  <2>3. \A n \in DOMAIN walk.page :
         /\ Exists(walk.page[n].id)' /\ walk.page[n].key = Key(walk.list, walk.page[n].id)'
         /\ Beyond(walk.list, Key(walk.list, walk.page[n].id)', walk.cursor)
    <3> SUFFICES ASSUME NEW n \in DOMAIN walk.page
                 PROVE  /\ Exists(walk.page[n].id)'
                        /\ walk.page[n].key = Key(walk.list, walk.page[n].id)'
                        /\ Beyond(walk.list, Key(walk.list, walk.page[n].id)', walk.cursor)
      OBVIOUS
    <3>1. /\ Exists(walk.page[n].id) /\ walk.page[n].key = Key(walk.list, walk.page[n].id)
          /\ Beyond(walk.list, Key(walk.list, walk.page[n].id), walk.cursor)
      BY DEF PageFollows
    <3>2. walk.page[n].id \in Ids
      BY <2>1
    <3>3. Exists(walk.page[n].id)' /\ Key(walk.list, walk.page[n].id)' = Key(walk.list, walk.page[n].id)
      BY <1>1, <1>5, <3>1, <3>2
    <3> QED
      BY <3>1, <3>3
  <2>4. \A m, n \in DOMAIN walk.page : m < n => Precedes(walk.list, walk.page[m].id, walk.page[n].id)'
    <3>1. \A n \in DOMAIN walk.page : Exists(walk.page[n].id)
      BY DEF PageFollows
    <3> QED
      BY <1>1, <2>1, <2>2, <3>1 DEF PageFollows
  <2>5. \A i \in steady' : Beyond(walk.list, Key(walk.list, i)', walk.cursor) =>
         \/ \E n \in DOMAIN walk.page : walk.page[n].id = i
         \/ walk.more /\ Precedes(walk.list, walk.page[Len(walk.page)].id, i)'
    <3> SUFFICES ASSUME NEW i \in steady', Beyond(walk.list, Key(walk.list, i)', walk.cursor),
                        \A n \in DOMAIN walk.page : walk.page[n].id # i
                 PROVE  walk.more /\ Precedes(walk.list, walk.page[Len(walk.page)].id, i)'
      OBVIOUS
    <3>1. i \in steady /\ i \in Ids /\ Exists(i)
      BY <1>2, <1>6, <1>7
    <3>2. walk.more /\ Precedes(walk.list, walk.page[Len(walk.page)].id, i)
      BY <1>5, <3>1 DEF PageFollows
    <3>3. Len(walk.page) \in DOMAIN walk.page
      <4>1. Len(walk.page) = PageSize /\ PageSize \in Nat /\ PageSize > 0
        BY <3>2, ListsAssumption DEF PageFollows
      <4> QED
        BY <1>7, <4>1
    <3>4. Exists(walk.page[Len(walk.page)].id)
      BY <3>3 DEF PageFollows
    <3> QED
      BY <1>1, <2>1, <2>2, <3>1, <3>2, <3>3, <3>4
  <2>6. walk.more => Len(walk.page) = PageSize
    BY DEF PageFollows
  <2> QED
    BY <1>1, <2>3, <2>4, <2>5, <2>6 DEF PageFollows, Beyond, Precedes, Upwards
<1>10. TextsKnown'
  <2>0. changes \in Nat /\ \A i \in Ids : row[i].text \in Nat /\ row'[i].text \in Nat
    BY <1>1, ListsAssumption DEF ListTypes
  <2>1. \A i \in Ids : row'[i].text <= changes' /\ (~row'[i].protected => row'[i].text = 0)
    BY <1>1, <2>0 DEF TextsKnown
  <2>2. ASSUME walk.pc \in {"rows", "states"}, NEW n \in DOMAIN walk.page
        PROVE  /\ walk.page[n].text \in Nat /\ walk.page[n].id \in Ids
               /\ walk.page[n].text <= changes /\ walk.page[n].text <= changes'
    <3>1. walk.page[n].text \in Nat /\ walk.page[n].id \in Ids
      BY <1>7, <2>2
    <3>2. walk.page[n].text <= changes
      BY <2>2 DEF TextsKnown
    <3> QED
      BY <1>1, <2>0, <3>1, <3>2
  <2>3. ASSUME walk.pc = "states", NEW n \in DOMAIN walk.page, walk.page[n].id \notin walk.masked
        PROVE  row'[walk.page[n].id].text = 0 \/ row'[walk.page[n].id].text > walk.page[n].text
    <3>1. row[walk.page[n].id].text = 0 \/ row[walk.page[n].id].text > walk.page[n].text
      BY <2>3 DEF TextsKnown
    <3> QED
      BY <1>1, <2>0, <2>2, <2>3, <3>1
  <2> QED
    BY <1>1, <2>1, <2>2, <2>3 DEF TextsKnown
<1> QED
  BY <1>3, <1>4, <1>8, <1>9, <1>10

\* The rows have times that can be compared.
LEMMA RowTimes == ListTypes => Times
  BY DEF ListTypes, Times

\* A stutter keeps the invariant.
LEMMA WalkUnchanged ==
  ASSUME ListInv, UNCHANGED listVars
  PROVE  ListInv'
<1> USE DEF ListInv, listVars
<1>1. row' = row /\ open' = open /\ walk' = walk /\ changes' = changes /\ steady' = steady
  OBVIOUS
<1>2. ListTypes' /\ WalkType' /\ ExactlyOnce'
  BY <1>1 DEF ListTypes, WalkType, ExactlyOnce
<1>3. SteadyListed' /\ TextsKnown'
  BY <1>1 DEF SteadyListed, Listed, TextsKnown, Exists, visibleManual, ownManual, activeSession
<1>4. Position'
  BY <1>1 DEF Position, Walking, Exists, Beyond, Below, Key, Upwards
<1>5. PageFollows'
  <2>1. /\ \A i : Exists(i)' <=> Exists(i)
        /\ \A list, i : Key(list, i)' = Key(list, i)
        /\ \A list, k, cursor : Beyond(list, k, cursor)' <=> Beyond(list, k, cursor)
        /\ \A list, i, j : Precedes(list, i, j)' <=> Precedes(list, i, j)
    BY <1>1 DEF Exists, Beyond, Key, Precedes, Upwards, Below
  <2> QED
    BY <1>1, <2>1 DEF PageFollows
<1> QED
  BY <1>2, <1>3, <1>4, <1>5

\* The rows stay as they are while the walk moves.
LEMMA RowsKept ==
  ASSUME UNCHANGED <<row, open, changes>>
  PROVE  /\ \A i : Exists(i)' <=> Exists(i)
         /\ \A list, i : Key(list, i)' = Key(list, i)
         /\ \A list, i, j : Precedes(list, i, j)' <=> Precedes(list, i, j)
         /\ \A list, viewer, i : Listed(list, viewer, i)' <=> Listed(list, viewer, i)
<1>1. row' = row /\ open' = open
  OBVIOUS
<1> QED
  BY <1>1 DEF Exists, Key, Precedes, Upwards, Below, Listed, visibleManual, ownManual, activeSession

\* A first page keeps the invariant.
LEMMA ListStart ==
  ASSUME ListInv, NEW list \in Lists, NEW viewer \in Viewers, Start(list, viewer)
  PROVE  ListInv'
<1> USE DEF ListInv, Walks, RowRecord
<1>1. /\ walk' = [pc |-> "next", list |-> list, viewer |-> viewer, cursor |-> NoCursor,
                 listed |-> [i \in Ids |-> 0], page |-> <<>>, more |-> FALSE, masked |-> {}]
      /\ steady' = {i \in Ids : Listed(list, viewer, i)} /\ UNCHANGED <<row, open, changes>>
  BY DEF Start
<1>2. /\ walk'.pc = "next" /\ walk'.list = list /\ walk'.viewer = viewer /\ walk'.cursor = NoCursor
      /\ walk'.listed = [i \in Ids |-> 0] /\ walk'.page = <<>>
  BY <1>1
<1>3. ListTypes'
  BY <1>1, <1>2, ListsAssumption DEF ListTypes
<1>4. WalkType'
  BY <1>1 DEF WalkType
<1>5. SteadyListed'
  BY <1>1, <1>2, RowsKept DEF SteadyListed
<1>6. Position'
  BY <1>2 DEF Position, Beyond
<1>7. PageFollows' /\ ExactlyOnce'
  BY <1>2 DEF PageFollows, ExactlyOnce
<1>8. TextsKnown'
  BY <1>1, <1>2 DEF TextsKnown
<1> QED
  BY <1>3, <1>4, <1>5, <1>6, <1>7, <1>8

\* A following page keeps the invariant.
LEMMA ListReadPage ==
  ASSUME ListInv, ReadPage, UNCHANGED steady
  PROVE  ListInv'
<1> USE DEF ListInv, Walks, RowRecord
<1> DEFINE rows == Query(walk.list, walk.viewer, walk.cursor)
           page == Cut(rows)
           more == Len(rows) > PageSize
           item(n) == [id |-> page[n], key |-> Key(walk.list, page[n]),
                       text |-> row[page[n]].text, cover |-> "none"]
           items == [n \in DOMAIN page |-> item(n)]
<1>1. /\ walk' = [walk EXCEPT !.pc = "rows", !.more = more, !.page = items]
      /\ UNCHANGED <<row, open, changes>> /\ steady' = steady /\ walk.pc = "next"
  BY DEF ReadPage
<1>2. walk # NoWalk /\ walk \in Walks
  BY <1>1, WalkFacts
<1>3. Times
  BY RowTimes
<1> DEFINE F == Following(walk.list, walk.viewer, walk.cursor)
<1>4. /\ page \in Seq(Ids) /\ Len(page) <= PageSize
      /\ more => Len(page) = PageSize
      /\ \A n \in DOMAIN page : page[n] \in F
      /\ \A m, n \in DOMAIN page : m < n => Precedes(walk.list, page[m], page[n])
      /\ \A i \in F : \/ \E n \in DOMAIN page : page[n] = i
                      \/ more /\ Precedes(walk.list, page[Len(page)], i)
  <2>1. walk.list \in Lists /\ rows = Query(walk.list, walk.viewer, walk.cursor)
        /\ page = Cut(rows) /\ more \in BOOLEAN /\ (more <=> Len(rows) > PageSize)
    BY <1>2
  <2> HIDE DEF rows, page, more
  <2> QED
    BY <1>3, <2>1, PageOfQuery
<1> HIDE DEF rows, page, more
<1>5. DOMAIN page = 1..Len(page) /\ Len(page) \in Nat /\ more \in BOOLEAN
      /\ \A n \in DOMAIN page : page[n] \in Ids /\ page[n] \in F
  BY <1>4 DEF more
<1>6. \A n \in DOMAIN page : item(n) \in Item /\ row[page[n]].text \in 0..MaxChanges
                             /\ row[page[n]].text <= changes
  <2> SUFFICES ASSUME NEW n \in DOMAIN page
               PROVE  item(n) \in Item /\ row[page[n]].text \in 0..MaxChanges /\ row[page[n]].text <= changes
    OBVIOUS
  <2>1. page[n] \in Ids
    BY <1>5
  <2>2. row[page[n]].text \in 0..MaxChanges /\ row[page[n]].text <= changes
    BY <2>1 DEF ListTypes, TextsKnown
  <2>3. Key(walk.list, page[n]) \in CursorKeys
    BY <1>3, <2>1, KeyType DEF CursorKeys
  <2> QED
    BY <2>1, <2>2, <2>3 DEF Item
<1>7. items \in Seq(Item) /\ DOMAIN items = 1..Len(page) /\ Len(items) = Len(page)
      /\ \A n \in DOMAIN page : /\ items[n].id = page[n] /\ items[n].key = Key(walk.list, page[n])
                                 /\ items[n].text = row[page[n]].text
  <2>1. items \in [1..Len(page) -> Item]
    BY <1>5, <1>6
  <2>2. items \in Seq(Item) /\ DOMAIN items = 1..Len(page) /\ Len(items) = Len(page)
    BY <1>5, <2>1
  <2> QED
    BY <2>2
<1> HIDE DEF items
<1>8. /\ walk'.pc = "rows" /\ walk'.list = walk.list /\ walk'.viewer = walk.viewer
      /\ walk'.cursor = walk.cursor /\ walk'.listed = walk.listed /\ walk'.page = items
      /\ walk'.more = more
      /\ walk' \in Walks
  BY <1>1, <1>2, <1>5, <1>7
<1>9. \A i \in steady : Listed(walk.list, walk.viewer, i) /\ i \in Ids
  BY <1>2 DEF SteadyListed, ListTypes
<1>10. ListTypes'
  <2>1. Len(items) <= PageSize
    BY <1>4, <1>7
  <2> QED
    BY <1>1, <1>2, <1>8, <2>1 DEF ListTypes
<1>11. WalkType' /\ SteadyListed' /\ ExactlyOnce'
  BY <1>1, <1>8, <1>9, RowsKept DEF WalkType, SteadyListed, ExactlyOnce
<1>12. Position'
  <2>1. Walking
    BY <1>1 DEF Walking
  <2> SUFFICES ASSUME NEW i \in Ids
               PROVE  /\ walk.listed[i] <= 1
                      /\ walk.listed[i] = 1 => Exists(i)' /\ ~Beyond(walk.list, Key(walk.list, i)', walk.cursor)
                      /\ (i \in steady /\ ~Beyond(walk.list, Key(walk.list, i)', walk.cursor)) => walk.listed[i] = 1
    BY <1>1, <1>8 DEF Position, Beyond
  <2> QED
    BY <1>1, <2>1, RowsKept DEF Position
<1>13. \A n \in DOMAIN page : Exists(page[n]) /\ Beyond(walk.list, Key(walk.list, page[n]), walk.cursor)
  BY <1>5 DEF Following, Listed
<1>14. PageFollows'
  <2>1. \A n \in DOMAIN items :
         /\ Exists(items[n].id) /\ items[n].key = Key(walk.list, items[n].id)
         /\ Beyond(walk.list, Key(walk.list, items[n].id), walk.cursor)
    BY <1>5, <1>7, <1>13
  <2>2. \A m, n \in DOMAIN items : m < n => Precedes(walk.list, items[m].id, items[n].id)
    BY <1>4, <1>5, <1>7
  <2>3. \A i \in steady : Beyond(walk.list, Key(walk.list, i), walk.cursor) =>
         \/ \E n \in DOMAIN items : items[n].id = i
         \/ more /\ Precedes(walk.list, items[Len(items)].id, i)
    <3> SUFFICES ASSUME NEW i \in steady, Beyond(walk.list, Key(walk.list, i), walk.cursor),
                        \A n \in DOMAIN items : items[n].id # i
                 PROVE  more /\ Precedes(walk.list, items[Len(items)].id, i)
      OBVIOUS
    <3>1. i \in F
      BY <1>9 DEF Following
    <3>2. more /\ Precedes(walk.list, page[Len(page)], i)
      BY <1>4, <1>5, <1>7, <3>1
    <3>3. Len(page) \in DOMAIN page
      BY <1>4, <1>5, <3>2, ListsAssumption
    <3> QED
      BY <1>7, <3>2, <3>3
  <2>4. more => Len(items) = PageSize
    BY <1>4, <1>7
  <2> QED
    BY <1>1, <1>8, <2>1, <2>2, <2>3, <2>4, RowsKept
       DEF PageFollows, Beyond, Precedes, Upwards, Below, Key, Exists
<1>15. TextsKnown'
  <2>1. \A n \in DOMAIN items : items[n].text <= changes
    BY <1>5, <1>6, <1>7
  <2> QED
    BY <1>1, <1>8, <2>1 DEF TextsKnown
<1> QED
  BY <1>10, <1>11, <1>12, <1>14, <1>15

\* A refused token keeps the invariant.
LEMMA ListRefuse ==
  ASSUME ListInv, Refuse, UNCHANGED steady
  PROVE  ListInv'
<1> USE DEF ListInv, Walks, RowRecord
<1>1. /\ walk' = [walk EXCEPT !.pc = "refused"]
      /\ UNCHANGED <<row, open, changes>> /\ steady' = steady /\ walk.pc = "next"
  BY DEF Refuse
<1>2. walk # NoWalk /\ walk \in Walks
  BY <1>1, WalkFacts
<1>3. /\ walk'.pc = "refused" /\ walk'.list = walk.list /\ walk'.viewer = walk.viewer /\ walk'.page = walk.page
      /\ walk' \in Walks
  BY <1>1, <1>2
<1>4. ListTypes' /\ WalkType' /\ ExactlyOnce'
  BY <1>1, <1>2, <1>3 DEF ListTypes, WalkType, ExactlyOnce
<1>5. SteadyListed'
  BY <1>1, <1>2, <1>3, RowsKept DEF SteadyListed
<1>6. Position' /\ PageFollows' /\ TextsKnown'
  BY <1>1, <1>3 DEF Position, Walking, PageFollows, TextsKnown
<1> QED
  BY <1>4, <1>5, <1>6

\* What keeps the position: nothing of the walk changes but where it is in a page.
LEMMA PositionKept ==
  ASSUME Position, Walking, UNCHANGED <<row, open, changes>>, steady' = steady,
         walk'.list = walk.list, walk'.cursor = walk.cursor, walk'.listed = walk.listed
  PROVE  Position'
<1> SUFFICES ASSUME NEW i \in Ids
             PROVE  /\ walk.listed[i] <= 1
                    /\ walk.listed[i] = 1 => Exists(i)' /\ ~Beyond(walk.list, Key(walk.list, i)', walk.cursor)
                    /\ (i \in steady /\ ~Beyond(walk.list, Key(walk.list, i)', walk.cursor)) => walk.listed[i] = 1
  BY DEF Position, Beyond
<1> QED
  BY RowsKept DEF Position

\* A failed query keeps the invariant.
LEMMA ListFail ==
  ASSUME ListInv, Fail, UNCHANGED steady
  PROVE  ListInv'
<1> USE DEF ListInv, Walks, RowRecord
<1>1. /\ walk' = [walk EXCEPT !.pc = "next", !.page = <<>>, !.masked = {}]
      /\ row' = row /\ open' = open /\ steady' = steady /\ walk.pc \in {"rows", "states"}
      /\ changes' = changes + 1 /\ changes < MaxChanges /\ changes \in Nat
  BY ListsAssumption DEF Fail, Changing, ListTypes
<1>2. walk # NoWalk /\ walk \in Walks
  BY <1>1, WalkFacts
<1>3. /\ walk'.pc = "next" /\ walk'.list = walk.list /\ walk'.viewer = walk.viewer
      /\ walk'.cursor = walk.cursor /\ walk'.listed = walk.listed /\ walk'.page = <<>>
      /\ walk' \in Walks
  <2>1. <<>> \in Seq(Item) /\ {} \in SUBSET Ids
    OBVIOUS
  <2>2. walk'.page = <<>> /\ walk'.listed = walk.listed /\ walk'.cursor = walk.cursor
    BY <1>1, <1>2
  <2> QED
    BY <1>1, <1>2, <2>1, <2>2
<1>4. ListTypes' /\ WalkType' /\ ExactlyOnce'
  <2>1. changes' \in 0..MaxChanges
    BY <1>1, ListsAssumption
  <2> QED
    BY <1>1, <1>2, <1>3, <2>1, ListsAssumption DEF ListTypes, WalkType, ExactlyOnce
<1>5. SteadyListed'
  BY <1>1, <1>2, <1>3 DEF SteadyListed, Listed, Exists, visibleManual, ownManual, activeSession
<1>6. Position'
  <2>1. \A i \in Ids : (Exists(i)' <=> Exists(i)) /\ Key(walk.list, i)' = Key(walk.list, i)
    BY <1>1, <1>3 DEF Exists, Key
  <2>2. Walking
    BY <1>1 DEF Walking
  <2> SUFFICES ASSUME NEW i \in Ids
               PROVE  /\ walk.listed[i] <= 1
                      /\ walk.listed[i] = 1 => Exists(i)' /\ ~Beyond(walk.list, Key(walk.list, i)', walk.cursor)
                      /\ (i \in steady /\ ~Beyond(walk.list, Key(walk.list, i)', walk.cursor)) => walk.listed[i] = 1
    BY <1>1, <1>3 DEF Position, Beyond
  <2> QED
    BY <1>3, <2>1, <2>2 DEF Position
<1>7. PageFollows' /\ TextsKnown'
  <2>1. \A i \in Ids : row[i].text \in Nat /\ row[i].text <= changes
    BY ListsAssumption DEF ListTypes, TextsKnown
  <2>2. \A i \in Ids : row'[i].text <= changes' /\ (~row'[i].protected => row'[i].text = 0)
    BY <1>1, <2>1 DEF TextsKnown
  <2> QED
    BY <1>3, <2>2 DEF PageFollows, TextsKnown
<1> QED
  BY <1>4, <1>5, <1>6, <1>7

\* A lookup of states keeps the invariant.
LEMMA ListReadStates ==
  ASSUME ListInv, ReadStates, UNCHANGED steady
  PROVE  ListInv'
<1> USE DEF ListInv, Walks, RowRecord
<1> DEFINE masked == {i \in {walk.page[n].id : n \in DOMAIN walk.page} : row[i].protected}
<1>1. /\ walk' = [walk EXCEPT !.pc = "states", !.masked = masked]
      /\ UNCHANGED <<row, open, changes>> /\ steady' = steady /\ walk.pc = "rows"
  BY DEF ReadStates
<1>2. /\ walk # NoWalk
      /\ walk \in Walks
      /\ \A n \in DOMAIN walk.page : walk.page[n].id \in Ids
  BY <1>1, WalkFacts
<1>3. masked \in SUBSET Ids
  BY <1>2
<1>4. \A n \in DOMAIN walk.page : walk.page[n].id \notin masked => row[walk.page[n].id].text = 0
  BY <1>2 DEF TextsKnown
<1> HIDE DEF masked
<1>5. /\ walk'.pc = "states" /\ walk'.list = walk.list /\ walk'.viewer = walk.viewer
      /\ walk'.cursor = walk.cursor /\ walk'.listed = walk.listed /\ walk'.page = walk.page
      /\ walk'.more = walk.more /\ walk'.masked = masked
      /\ walk' \in Walks
  BY <1>1, <1>2, <1>3
<1>6. ListTypes' /\ WalkType' /\ ExactlyOnce'
  BY <1>1, <1>2, <1>5 DEF ListTypes, WalkType, ExactlyOnce
<1>7. SteadyListed'
  BY <1>1, <1>2, <1>5, RowsKept DEF SteadyListed
<1>8. Position'
  BY <1>1, <1>5, PositionKept DEF Walking
<1>9. PageFollows'
  <2>1. /\ \A i : Exists(i)' <=> Exists(i)
        /\ \A list, i : Key(list, i)' = Key(list, i)
        /\ \A list, k, cursor : Beyond(list, k, cursor)' <=> Beyond(list, k, cursor)
        /\ \A list, i, j : Precedes(list, i, j)' <=> Precedes(list, i, j)
    BY <1>1 DEF Exists, Beyond, Key, Precedes, Upwards, Below
  <2> QED
    BY <1>1, <1>5, <2>1 DEF PageFollows
<1>10. TextsKnown'
  BY <1>1, <1>4, <1>5 DEF TextsKnown
<1> QED
  BY <1>6, <1>7, <1>8, <1>9, <1>10

\* The page is answered.
LEMMA ListDecorate ==
  ASSUME ListInv, Decorate, UNCHANGED steady
  PROVE  ListInv'
<1> USE DEF ListInv, Walks, RowRecord
<1> DEFINE P == walk.page
           L == walk.list
           items == [n \in DOMAIN P |-> Shown(P[n])]
           next == IF walk.more THEN "next" ELSE "done"
           cursor == NextCursor(P)
           listed == CountedRows(walk.listed)
           On(i) == \E n \in DOMAIN P : P[n].id = i
<1>1. /\ walk' = [walk EXCEPT !.pc = next, !.page = items, !.cursor = cursor, !.listed = listed]
      /\ UNCHANGED <<row, open, changes>> /\ steady' = steady /\ walk.pc = "states"
  BY DEF Decorate
<1>2. /\ walk # NoWalk
      /\ walk \in Walks
      /\ P \in Seq(Item) /\ DOMAIN P = 1..Len(P) /\ Len(P) \in Nat
      /\ \A n \in DOMAIN P : P[n] \in Item /\ P[n].id \in Ids /\ P[n].key \in CursorKeys
  BY <1>1, WalkFacts
<1>3. Times
  BY RowTimes
<1>4. walk.more => Len(P) = PageSize /\ Len(P) \in DOMAIN P
  <2>1. walk.more => Len(P) = PageSize
    BY <1>1 DEF PageFollows
  <2> QED
    BY <1>2, <2>1, ListsAssumption
<1>5. \A item \in Item : item.id \in Ids => Shown(item) \in Item
  <2> SUFFICES ASSUME NEW item \in Item PROVE Shown(item) \in Item
    OBVIOUS
  <2>1. item.id \in Ids /\ 0 \in 0..MaxChanges
    BY ListsAssumption DEF Item
  <2>2. row[item.id].cover \in {"none", "hidden", "open", "secret"}
    BY <2>1 DEF ListTypes
  <2> QED
    BY <2>1, <2>2 DEF Shown, Item
<1>6. items \in Seq(Item) /\ Len(items) = Len(P)
  <2>1. items \in [1..Len(P) -> Item]
    BY <1>2, <1>5
  <2> QED
    BY <1>2, <2>1
<1>7. cursor \in CursorKeys \cup {NoCursor} /\ (walk.more => cursor = Key(L, P[Len(P)].id)) /\ (~walk.more => cursor = walk.cursor)
  <2>1. CASE walk.more
    <3>1. cursor = P[Len(P)].key /\ P[Len(P)].key \in CursorKeys
      BY <1>2, <1>4, <2>1 DEF NextCursor
    <3>2. P[Len(P)].key = Key(L, P[Len(P)].id)
      BY <1>1, <1>4, <2>1 DEF PageFollows
    <3> QED
      BY <2>1, <3>1, <3>2
  <2>2. CASE ~walk.more
    BY <1>2, <2>2 DEF NextCursor
  <2> QED
    BY <2>1, <2>2
<1>8. listed \in [Ids -> 0..2] /\ \A i \in Ids : listed[i] = IF On(i) THEN IF walk.listed[i] = 0 THEN 1 ELSE 2
                                                                  ELSE walk.listed[i]
  BY <1>2 DEF CountedRows
<1> HIDE DEF items, cursor, listed
<1>9. /\ walk'.pc = next /\ walk'.list = L /\ walk'.viewer = walk.viewer
      /\ walk'.cursor = cursor /\ walk'.listed = listed /\ walk'.page = items
      /\ walk' \in Walks
  <2>1. next \in {"next", "rows", "states", "done", "refused"}
    OBVIOUS
  <2> HIDE DEF next
  <2> QED
    BY <1>1, <1>2, <1>6, <1>7, <1>8, <2>1
<1>10. ASSUME NEW i \in Ids
       PROVE  /\ walk.listed[i] \in {0, 1}
              /\ walk.listed[i] = 1 => Exists(i) /\ ~Beyond(L, Key(L, i), walk.cursor)
              /\ (i \in steady /\ ~Beyond(L, Key(L, i), walk.cursor)) => walk.listed[i] = 1
              /\ On(i) => Exists(i) /\ Beyond(L, Key(L, i), walk.cursor) /\ walk.listed[i] = 0
  <2>1. walk.listed[i] \in 0..2
    BY <1>2
  <2>2. /\ walk.listed[i] <= 1
        /\ walk.listed[i] = 1 => Exists(i) /\ ~Beyond(L, Key(L, i), walk.cursor)
        /\ (i \in steady /\ ~Beyond(L, Key(L, i), walk.cursor)) => walk.listed[i] = 1
    BY <1>1 DEF Position, Walking
  <2>3. On(i) => Exists(i) /\ Beyond(L, Key(L, i), walk.cursor)
    BY <1>1 DEF PageFollows
  <2> QED
    BY <2>1, <2>2, <2>3
<1>11. ASSUME NEW i \in steady, Beyond(L, Key(L, i), walk.cursor), ~On(i)
       PROVE  walk.more /\ Precedes(L, P[Len(P)].id, i)
  BY <1>1, <1>11 DEF PageFollows
<1>12. ASSUME walk.more, NEW i \in Ids
       PROVE  /\ listed[i] <= 1
              /\ listed[i] = 1 => Exists(i) /\ ~Beyond(L, Key(L, i), cursor)
              /\ (i \in steady /\ ~Beyond(L, Key(L, i), cursor)) => listed[i] = 1
  <2> DEFINE last == P[Len(P)].id
  <2>1. last \in Ids /\ On(last) /\ cursor = Key(L, last) /\ walk.cursor \in CursorKeys \cup {NoCursor}
    BY <1>2, <1>4, <1>7, <1>12
  <2>2. \A m, n \in DOMAIN P : m < n => Precedes(L, P[m].id, P[n].id)
    BY <1>1 DEF PageFollows
  <2>3. Beyond(L, Key(L, last), walk.cursor)
    BY <1>10, <2>1
  <2> HIDE DEF last
  <2>4. /\ Beyond(L, Key(L, i), cursor) <=> Precedes(L, last, i)
        /\ Precedes(L, i, last) => ~Precedes(L, last, i)
        /\ Precedes(L, last, i) => Beyond(L, Key(L, i), walk.cursor)
        /\ ~Precedes(L, last, last)
    BY <1>3, <2>1, <2>3, OrderFacts
  <2>5. On(i) => ~Precedes(L, last, i)
    <3> SUFFICES ASSUME NEW n \in DOMAIN P, P[n].id = i PROVE ~Precedes(L, last, i)
      OBVIOUS
    <3>1. CASE n = Len(P)
      BY <2>4, <3>1 DEF last
    <3>2. CASE n # Len(P)
      <4>1. n < Len(P) /\ Len(P) \in DOMAIN P
        BY <1>2, <1>4, <1>12, <3>2
      <4>2. Precedes(L, i, last)
        BY <2>2, <4>1 DEF last
      <4> QED
        BY <2>4, <4>2
    <3> QED
      BY <3>1, <3>2
  <2>6. listed[i] = IF On(i) THEN IF walk.listed[i] = 0 THEN 1 ELSE 2 ELSE walk.listed[i]
    BY <1>8
  <2>7. i \in steady /\ ~On(i) /\ Beyond(L, Key(L, i), walk.cursor) => Precedes(L, last, i)
    BY <1>11 DEF last
  <2> HIDE DEF On
  <2> QED
    BY <1>10, <2>4, <2>5, <2>6, <2>7
<1>13. ASSUME ~walk.more, NEW i \in Ids
       PROVE  listed[i] <= 1 /\ (i \in steady => listed[i] = 1)
  <2>1. listed[i] = IF On(i) THEN IF walk.listed[i] = 0 THEN 1 ELSE 2 ELSE walk.listed[i]
    BY <1>8
  <2>2. i \in steady /\ ~On(i) => ~Beyond(L, Key(L, i), walk.cursor)
    BY <1>11, <1>13
  <2> HIDE DEF On
  <2> QED
    BY <1>10, <2>1, <2>2
<1>14. ListTypes'
  <2>1. Len(items) <= PageSize
    BY <1>2, <1>6 DEF ListTypes
  <2> QED
    BY <1>1, <1>2, <1>9, <2>1 DEF ListTypes
<1>15. WalkType' /\ SteadyListed'
  BY <1>1, <1>2, <1>9, RowsKept DEF WalkType, SteadyListed
<1>16. ExactlyOnce'
  <2> SUFFICES ASSUME next = "done"
               PROVE  (\A i \in steady : listed[i] = 1) /\ (\A i \in Ids : listed[i] <= 1)
    BY <1>1, <1>9 DEF ExactlyOnce
  <2>1. ~walk.more /\ steady \subseteq Ids
    BY DEF ListTypes
  <2> QED
    BY <1>13, <2>1
<1>17. Position'
  <2> SUFFICES ASSUME walk.more, NEW i \in Ids
               PROVE  /\ listed[i] <= 1
                      /\ listed[i] = 1 => Exists(i)' /\ ~Beyond(L, Key(L, i)', cursor)
                      /\ (i \in steady /\ ~Beyond(L, Key(L, i)', cursor)) => listed[i] = 1
    BY <1>1, <1>9 DEF Position, Walking, Beyond
  <2>1. (Exists(i)' <=> Exists(i)) /\ Key(L, i)' = Key(L, i)
    BY <1>1, <1>9 DEF Exists, Key
  <2> QED
    BY <1>12, <2>1
<1>18. PageFollows' /\ TextsKnown'
  BY <1>1, <1>9 DEF PageFollows, TextsKnown
<1> QED
  BY <1>14, <1>15, <1>16, <1>17, <1>18

\* Every step keeps the invariant.
LEMMA ListStep == ListInv /\ [ListNext]_listVars => ListInv'
<1> SUFFICES ASSUME ListInv, [ListNext]_listVars PROVE ListInv'
  OBVIOUS
<1> QED
  BY ListStart, ListReadPage, ListRefuse, ListReadStates, ListDecorate, ListFail, ListMeanwhile, WalkUnchanged
     DEF ListNext, Serve

\* The invariant holds of the lists.
LEMMA ListInvariant == ListSpec => []ListInv
  BY ListInit_Inv, ListStep, PTL DEF ListSpec

\* A walk shows what its reader may see, all of it, and once: the walk invariant for any number
\* of rows, any page size and any number of changes, and the two statements of who may read a
\* manual agree.
THEOREM WalksCompleteTheorem == ListSpec => []WalksComplete
<1>1. ListTypes => ListsWhatOpens
  BY DEF ListTypes, ListsWhatOpens, visibleManual, ReadableManual, CanReadManual, Exists
<1>2. ListInv => WalksComplete
  BY <1>1 DEF ListInv, WalksComplete
<1> QED
  BY <1>2, ListInvariant, PTL

\* No description behind a password is listed to others, in any order of the owner's changes and
\* the three reads of a page.
THEOREM DescriptionsHiddenTheorem == ListSpec => DescriptionsHidden
<1> DEFINE Hidden == walk.pc = "states" /\ Answered' =>
             \A n \in DOMAIN walk'.page : walk'.page[n].text # 0 =>
               row[walk'.page[n].id].text # walk'.page[n].text
<1>1. ListInv /\ ListInv' /\ [ListNext]_listVars => [Hidden]_listVars
  <2> SUFFICES ASSUME ListInv, ListNext, walk.pc = "states", Answered', NEW n \in DOMAIN walk'.page,
                      walk'.page[n].text # 0
               PROVE  row[walk'.page[n].id].text # walk'.page[n].text
    OBVIOUS
  <2>1. /\ walk # NoWalk
        /\ \A m \in DOMAIN walk.page : walk.page[m] \in Item /\ walk.page[m].id \in Ids /\ walk.page[m].text \in Nat
        /\ walk \in Walks
    BY WalkFacts DEF ListInv
  <2> USE DEF Walks
  <2>2. CASE Decorate
    <3>1. /\ walk'.viewer = walk.viewer /\ walk.viewer # "owner"
          /\ walk'.page = [m \in DOMAIN walk.page |-> Shown(walk.page[m])]
      BY <2>1, <2>2 DEF Decorate, Answered
    <3>2. n \in DOMAIN walk.page /\ walk'.page[n] = Shown(walk.page[n])
      BY <3>1
    <3>3. walk.page[n].id \notin walk.masked
      BY <2>1, <3>1, <3>2 DEF Shown, Item
    <3>4. walk'.page[n].text = walk.page[n].text /\ walk'.page[n].id = walk.page[n].id
      BY <2>1, <3>2, <3>3 DEF Shown, Item
    <3>5. row[walk.page[n].id].text = 0 \/ row[walk.page[n].id].text > walk.page[n].text
      BY <3>2, <3>3 DEF ListInv, TextsKnown
    <3>6. row[walk.page[n].id].text \in Nat /\ walk.page[n].text \in Nat
      BY <2>1, <3>2, ListsAssumption DEF ListInv, ListTypes
    <3> QED
      BY <3>4, <3>5, <3>6
  <2>3. CASE Fail
    BY <2>1, <2>3 DEF Fail
  <2>4. CASE Meanwhile
    BY <2>4, MeanwhileEffect DEF ListInv, Answered
  <2> QED
    BY <2>1, <2>2, <2>3, <2>4 DEF ListNext, Serve, Start, ReadPage, Refuse, ReadStates
<1> QED
  BY <1>1, ListInvariant, PTL DEF ListSpec, DescriptionsHidden

-----------------------------------------------------------------------------
(* THE STATISTICS *)

\* Functions from some of D to R.
Partly(D, R) == UNION {[E -> R] : E \in SUBSET D}

Qualities == {"ok", "degraded"}
RowField == [pv : Nat, uv : SUBSET Visitors, seq : Nat, quality : Qualities]

Hlls == Partly(Days \cup {All}, SUBSET Visitors)

RedisStates ==
  [kind : {"none", "part", "whole"}, pv : Nat, seq : Nat, ack : Nat, quality : Qualities,
   started : 0..MaxDay, days : Partly(Days, Field), hll : Hlls,
   dirty : BOOLEAN, listed : BOOLEAN]

RowStates ==
  [pv : Nat, uv : SUBSET Visitors, seq : Nat, quality : Qualities, started : 0..MaxDay,
   persisted : 0..MaxDay, days : Partly(Days, RowField)]

Visits == [day : Days, who : SUBSET Visitors]

Jobs ==
  [pc : {"idle", "drain", "visit", "failed", "reserve", "write", "marks", "markseq", "mark",
         "persist", "read", "commit", "ack", "cleanup"},
   flush : BOOLEAN, left : Nat, visit : [day : 0..MaxDay, who : SUBSET Visitors],
   fresh : BOOLEAN, seq : Nat, held : SUBSET Days, late : BOOLEAN, now : 0..MaxDay,
   snap : RedisStates, seen : [Days -> Nat]]

\* What readRedis asks of a state.
Sound(r) == r.kind = "whole" => r.ack <= r.seq

\* The types of the state.
Shape ==
  /\ today \in Days /\ closed \in BOOLEAN /\ overflow \in BOOLEAN
  /\ ready \in BOOLEAN /\ known \in BOOLEAN
  /\ queue \in Seq(Visits) /\ Len(queue) <= QueueSize
  /\ gaps \in SUBSET Days /\ Cardinality(gaps) <= QueueSize
  /\ pending \in SUBSET Days /\ Cardinality(pending) <= QueueSize
  /\ job \in Jobs /\ redis \in RedisStates /\ image \in RedisStates /\ sql \in RowStates
  /\ Sound(redis) /\ Sound(image)
  /\ faults \in Nat /\ offered \in Nat /\ seen \in [Days -> Nat] /\ covered \in [Days -> Nat]
  /\ anew \in SUBSET Days

\* What the rows must be for a restore.
Restorable == sql.seq > 0 => sql.persisted \in Days

\* What the place of the worker says of what it has in hand.
InPlace ==
  /\ job.pc \in {"visit", "failed", "reserve", "write", "markseq", "mark"} => job.visit.day \in Days
  /\ job.held # {} => job.pc \in {"marks", "markseq", "mark"}
  /\ job.late => job.pc \in {"markseq", "mark", "read", "commit", "ack"} /\ job.held = {}
  /\ job.pc \in {"markseq", "mark"} /\ ~job.late => job.visit.day \in job.held
  /\ job.pc = "idle" => ~job.flush
  /\ job.now <= today
  /\ job.pc \in {"commit", "ack"} =>
       /\ job.now \in Days /\ job.snap.ack <= job.snap.seq
       /\ {All} \cup DOMAIN job.snap.days \subseteq DOMAIN job.snap.hll
  /\ sql.seq = 0 => sql.pv = 0 /\ DOMAIN sql.days = {}
  /\ Restorable

InHand == IF job.pc \in {"visit", "failed", "reserve", "write"} THEN 1 ELSE 0

\* Visits that are through: neither queued nor in hand.
Through == offered - Len(queue) - InHand

\* A count without a visit that is through would be made up, wherever a snapshot is kept.
Counts ==
  "retry" \notin mishaps =>
    redis.pv <= Through /\ image.pv <= Through /\ job.snap.pv <= Through /\ sql.pv <= Through

\* The larger of what a state of Redis and the rows count for a day.
PvOf(days, d) == IF d \in DOMAIN days THEN days[d].pv ELSE 0
Larger(a, b) == IF a >= b THEN a ELSE b
Top(days, rows) == [d \in Days |-> Larger(PvOf(days, d), PvOf(rows, d))]
Alone(rows) == [d \in Days |-> PvOf(rows, d)]

\* Between reading a snapshot and its acknowledgment the worker writes nothing to Redis.
SnapIsRedis ==
  ("rewind" \notin mishaps /\ job.pc \in {"commit", "ack"} /\ redis.kind = "whole") =>
    /\ redis.seq = job.snap.seq /\ redis.pv = job.snap.pv /\ redis.quality = job.snap.quality
    /\ redis.days = job.snap.days

\* Within the total, even if each day is taken from Redis or from its row, whichever counts more.
Within ==
  "rewind" \notin mishaps =>
    /\ redis.kind = "whole" => SumOf(Top(redis.days, sql.days), Days) <= redis.pv
    /\ job.pc = "commit" => SumOf(Top(job.snap.days, sql.days), Days) <= job.snap.pv
    /\ SumOf(Alone(sql.days), Days) <= sql.pv

\* Without these three no count is lost unmarked.
Fine == mishaps \cap {"crash", "retry", "rewind", "forgotten"} = {}

\* Redis is ahead of the rows, and well ahead once a sequence number is reserved.
Ahead ==
  Fine /\ redis.kind = "whole" =>
    /\ redis.seq >= sql.seq
    /\ job.pc \in {"write", "mark"} => redis.seq > sql.seq

\* A loss that only Redis knows has a sequence number that is still to be committed.
Degrading ==
  Fine /\ sql.seq > 0 /\ sql.quality = "ok" =>
    /\ redis.kind = "whole" /\ redis.quality = "degraded" => redis.seq > sql.seq
    /\ job.pc = "commit" /\ job.snap.quality = "degraded" => job.snap.seq > sql.seq

Unsettled == gaps \cup job.held

\* A gap of the project may be behind the overflow that the next Flush has to move.
Spilled == overflow /\ "spill" \in mishaps

Settled == Unsettled = {} /\ ~Spilled

\* A total that is not degraded counts every settled visit, in Redis, in a snapshot on its way and
\* in the row; a row that does not has a mark on its way, and its gap is pending.
Exact ==
  Fine =>
    /\ (redis.kind = "whole" /\ redis.quality = "ok" /\ Settled) => redis.pv = SumOf(seen, Days)
    /\ (job.pc = "commit" /\ job.snap.quality = "ok" /\ Settled) => job.snap.pv = SumOf(job.seen, Days)
    /\ (sql.seq > 0 /\ sql.quality = "ok" /\ sql.pv # SumOf(covered, Days) /\ Settled) =>
         /\ pending # {}
         /\ redis.kind = "whole" => redis.quality = "degraded"
         /\ job.pc = "commit" => job.snap.quality = "degraded"

\* While Redis keeps its keys, the tables their entries, and no cold day begins anew.
Calm == mishaps = {} /\ anew = {}

\* What Redis keeps counts as much as the rows, and has every day that is not cold.
Keyed ==
  /\ redis.kind \in {"none", "whole"}
  /\ redis.kind = "none" => redis = NoRedis /\ sql.seq = 0
  /\ redis.kind = "whole" => Readable
  /\ redis.ack <= sql.seq /\ redis.pv >= sql.pv
  /\ \A d \in DOMAIN sql.days : IF d \in DOMAIN redis.days THEN redis.days[d].pv >= sql.days[d].pv
                                ELSE d < hotFrom
  /\ redis.seq = sql.seq => \A d \in DOMAIN redis.days : d >= lower =>
       /\ d \in DOMAIN sql.days /\ sql.days[d].pv = redis.days[d].pv
       /\ sql.days[d].quality = redis.days[d].quality

\* The places of the worker after ensure.
Ensuring == {"reserve", "write", "markseq", "mark", "read", "commit", "ack"}

\* While nothing is lost, ensure leaves Redis whole and an acknowledged snapshot is committed.
KeepsKeys ==
  Calm => /\ Keyed
          /\ ready \/ job.pc \in Ensuring => redis.kind = "whole"
          /\ job.pc = "ack" => sql.seq >= job.snap.seq

\* A day that is told as "ok" shows count visits.
Tells(told, count) == told.quality = "ok" => told.pv = count

\* What a day of Redis, or its row when it left Redis, tells of the visits counted.
DayTells(days, rows, count, d) ==
  IF d \in DOMAIN days THEN Tells(days[d], count[d])
  ELSE IF d \in DOMAIN rows THEN Tells(rows[d], count[d])
  ELSE count[d] = 0

DaysTell(days, count) ==
  \A d \in Days : d >= lower /\ d \notin Unsettled => DayTells(days, sql.days, count, d)

\* The same of the row, but for the days whose mark is still to be committed.
RowTells(d) ==
  \/ IF d \in DOMAIN sql.days THEN Tells(sql.days[d], covered[d]) ELSE covered[d] = 0
  \/ d \in pending /\ d \in DOMAIN redis.days /\ redis.days[d].quality = "degraded"

\* The same of every day of the window that has no gap.
ExactDays ==
  Calm =>
    /\ DaysTell(redis.days, seen)
    /\ job.pc = "commit" => DaysTell(job.snap.days, job.seen)
    /\ sql.seq > 0 => \A d \in Days : d >= lower /\ d \notin Unsettled => RowTells(d)

\* The types of the state, and where the worker holds what.
Typed == Shape /\ InPlace

-----------------------------------------------------------------------------
(* Functions and sets *)

\* What a partial function is.
LEMMA PartlyFacts ==
  ASSUME NEW D, NEW R, NEW f \in Partly(D, R)
  PROVE  /\ DOMAIN f \subseteq D /\ \A x \in DOMAIN f : f[x] \in R
         /\ f = [x \in DOMAIN f |-> f[x]]
<1>1. PICK E \in SUBSET D : f \in [E -> R]
  BY DEF Partly
<1> QED
  BY <1>1

\* What makes a partial function.
LEMMA PartlyMade ==
  ASSUME NEW D, NEW R, NEW f, f = [x \in DOMAIN f |-> f[x]],
         DOMAIN f \subseteq D, \A x \in DOMAIN f : f[x] \in R
  PROVE  f \in Partly(D, R)
<1>1. f \in [DOMAIN f -> R]
  OBVIOUS
<1>2. DOMAIN f \in SUBSET D
  OBVIOUS
<1> QED
  BY <1>1, <1>2 DEF Partly

\* The domain of an override.
LEMMA OverDomain ==
  ASSUME NEW f, NEW g
  PROVE  DOMAIN Over(f, g) = DOMAIN f \cup DOMAIN g
  BY DEF Over

\* An override of partial functions is one.
LEMMA OverPartly ==
  ASSUME NEW D, NEW R, NEW f \in Partly(D, R), NEW g \in Partly(D, R)
  PROVE  Over(f, g) \in Partly(D, R)
<1> DEFINE h == Over(f, g)
<1>1. h = [x \in DOMAIN f \cup DOMAIN g |-> IF x \in DOMAIN f THEN f[x] ELSE g[x]]
  BY DEF Over
<1>2. /\ DOMAIN f \subseteq D /\ \A x \in DOMAIN f : f[x] \in R
      /\ DOMAIN g \subseteq D /\ \A x \in DOMAIN g : g[x] \in R
  BY PartlyFacts
<1> HIDE DEF h
<1>3. h = [x \in DOMAIN h |-> h[x]] /\ DOMAIN h \subseteq D /\ \A x \in DOMAIN h : h[x] \in R
  BY <1>1, <1>2
<1>4. h \in Partly(D, R)
  BY <1>3, PartlyMade
<1> QED
  BY <1>4 DEF h

\* A function of one argument.
LEMMA OnlyFacts ==
  ASSUME NEW d, NEW e
  PROVE  DOMAIN Only(d, e) = {d} /\ Only(d, e)[d] = e
  BY DEF Only

\* Setting one argument changes that one.
LEMMA PutFacts ==
  ASSUME NEW d, NEW e, NEW g
  PROVE  /\ DOMAIN Over(Only(d, e), g) = DOMAIN g \cup {d}
         /\ Over(Only(d, e), g)[d] = e
         /\ \A x \in DOMAIN g : x # d => Over(Only(d, e), g)[x] = g[x]
  BY DEF Over, Only

\* Setting one argument keeps the type.
LEMMA PutOnTop ==
  ASSUME NEW D, NEW R, NEW d \in D, NEW e \in R, NEW g \in Partly(D, R)
  PROVE  Over(Only(d, e), g) \in Partly(D, R)
<1> DEFINE o == Only(d, e)
<1>0. o = [x \in DOMAIN o |-> o[x]]
  BY DEF Only
<1>1. DOMAIN o = {d} /\ o[d] = e
  BY OnlyFacts
<1> HIDE DEF o
<1>2. o \in Partly(D, R)
  BY <1>0, <1>1, PartlyMade
<1>3. Over(o, g) \in Partly(D, R)
  BY <1>2, OverPartly
<1> QED
  BY <1>3 DEF o

\* Taking some arguments away keeps the type and the other values.
LEMMA Restricted ==
  ASSUME NEW D, NEW R, NEW f \in Partly(D, R), NEW S
  PROVE  LET g == Restrict(f, DOMAIN f \ S)
         IN  /\ g \in Partly(D, R) /\ DOMAIN g = DOMAIN f \ S
             /\ \A x \in DOMAIN f \ S : g[x] = f[x]
<1> DEFINE g == Restrict(f, DOMAIN f \ S)
<1>1. g = [x \in DOMAIN f \ S |-> f[x]]
  BY DEF Restrict
<1>0. DOMAIN f \subseteq D /\ \A x \in DOMAIN f : f[x] \in R
  BY PartlyFacts
<1>2. g = [x \in DOMAIN g |-> g[x]] /\ DOMAIN g \subseteq D /\ \A x \in DOMAIN g : g[x] \in R
  BY <1>0, <1>1
<1>3. g \in Partly(D, R)
  BY <1>2, PartlyMade
<1> QED
  BY <1>1, <1>3

\* The fields of a day in Redis.
LEMMA DayFields ==
  ASSUME NEW f, f \in Partly(Days, Field)
  PROVE  DOMAIN f \subseteq Days /\ \A d \in DOMAIN f : f[d].pv \in Nat /\ f[d].seq \in Nat /\ f[d].quality \in Qualities
<1>1. DOMAIN f \subseteq Days /\ \A d \in DOMAIN f : f[d] \in Field
  BY PartlyFacts
<1> QED
  BY <1>1 DEF Field, Qualities

\* The fields of a daily row.
LEMMA RowFields ==
  ASSUME NEW f, f \in Partly(Days, RowField)
  PROVE  DOMAIN f \subseteq Days /\ \A d \in DOMAIN f : /\ f[d] \in RowField /\ f[d].pv \in Nat /\ f[d].uv \subseteq Visitors
                                                       /\ f[d].seq \in Nat /\ f[d].quality \in Qualities
<1>1. DOMAIN f \subseteq Days /\ \A d \in DOMAIN f : f[d] \in RowField
  BY PartlyFacts
<1> QED
  BY <1>1 DEF RowField

\* The visitors a key counts.
LEMMA HllFields ==
  ASSUME NEW f, f \in Hlls
  PROVE  DOMAIN f \subseteq Days \cup {All} /\ \A k \in DOMAIN f : f[k] \subseteq Visitors
<1> DEFINE D == Days \cup {All}
           R == SUBSET Visitors
<1>0. f \in Partly(D, R)
  BY DEF Hlls
<1> HIDE DEF D, R
<1>1. DOMAIN f \subseteq D /\ \A d \in DOMAIN f : f[d] \in R
  BY <1>0, PartlyFacts
<1> QED
  BY <1>1 DEF D, R

\* What makes a table of HyperLogLogs.
LEMMA HllMade ==
  ASSUME NEW f, f = [k \in DOMAIN f |-> f[k]], DOMAIN f \subseteq Days \cup {All},
         \A k \in DOMAIN f : f[k] \subseteq Visitors
  PROVE  f \in Hlls
<1> DEFINE D == Days \cup {All}
           R == SUBSET Visitors
<1>0. DOMAIN f \subseteq D /\ \A d \in DOMAIN f : f[d] \in R
  OBVIOUS
<1> HIDE DEF D, R
<1>1. f \in Partly(D, R)
  BY <1>0, PartlyMade
<1> QED
  BY <1>1 DEF D, R, Hlls

\* An override of such tables is one.
LEMMA HllOver ==
  ASSUME NEW f, NEW g, f \in Hlls, g \in Hlls
  PROVE  Over(f, g) \in Hlls
  BY OverPartly DEF Hlls

\* Max of two numbers.
LEMMA LargerOfTwo ==
  ASSUME NEW a \in Int, NEW b \in Int
  PROVE  Max({a, b}) = Larger(a, b) /\ Larger(a, b) \in {a, b} /\ Larger(a, b) >= a /\ Larger(a, b) >= b
<1>1. Larger(a, b) \in {a, b} /\ Larger(a, b) >= a /\ Larger(a, b) >= b
  BY DEF Larger
<1> DEFINE top == Max({a, b})
<1>2. \E x \in {a, b} : \A y \in {a, b} : x >= y
  BY <1>1
<1>3. top \in {a, b} /\ \A y \in {a, b} : top >= y
  BY <1>2 DEF Max
<1> HIDE DEF top
<1>4. top = Larger(a, b)
  BY <1>1, <1>3
<1> QED
  BY <1>1, <1>4 DEF top

-----------------------------------------------------------------------------
(* What the commands make of Redis *)

\* Days are finitely many positive numbers.
LEMMA DayNumbers == Days \subseteq 1..MaxDay /\ MaxDay \in Nat /\ 1 \in Days /\ IsFiniteSet(Days)
<1>1. IsFiniteSet(Days)
  BY Budgets, FS_Interval DEF Days
<1> QED
  BY <1>1, Budgets DEF Days

\* The types of what Redis holds of a project.
LEMMA RedisParts ==
  ASSUME NEW r \in RedisStates
  PROVE  /\ r.kind \in {"none", "part", "whole"} /\ r.pv \in Nat /\ r.seq \in Nat /\ r.ack \in Nat
         /\ r.quality \in Qualities /\ r.started \in 0..MaxDay
         /\ r.days \in Partly(Days, Field) /\ r.hll \in Hlls
         /\ r.dirty \in BOOLEAN /\ r.listed \in BOOLEAN
         /\ DOMAIN r.days \subseteq Days
         /\ \A d \in DOMAIN r.days : r.days[d].pv \in Nat /\ r.days[d].seq \in Nat /\ r.days[d].quality \in Qualities
         /\ DOMAIN r.hll \subseteq Days \cup {All}
         /\ \A k \in DOMAIN r.hll : r.hll[k] \subseteq Visitors
<1>1. /\ r.kind \in {"none", "part", "whole"} /\ r.pv \in Nat /\ r.seq \in Nat /\ r.ack \in Nat
      /\ r.quality \in Qualities /\ r.started \in 0..MaxDay
      /\ r.days \in Partly(Days, Field) /\ r.hll \in Hlls
      /\ r.dirty \in BOOLEAN /\ r.listed \in BOOLEAN
  BY DEF RedisStates
<1> QED
  BY <1>1, DayFields, HllFields

\* The types of a project's rows.
LEMMA RowParts ==
  ASSUME NEW s \in RowStates
  PROVE  /\ s.pv \in Nat /\ s.uv \subseteq Visitors /\ s.seq \in Nat /\ s.quality \in Qualities
         /\ s.started \in 0..MaxDay /\ s.persisted \in 0..MaxDay /\ s.days \in Partly(Days, RowField)
         /\ DOMAIN s.days \subseteq Days
         /\ \A d \in DOMAIN s.days : /\ s.days[d] \in RowField
                                     /\ s.days[d].pv \in Nat /\ s.days[d].uv \subseteq Visitors
                                     /\ s.days[d].seq \in Nat /\ s.days[d].quality \in Qualities
<1>1. /\ s.pv \in Nat /\ s.uv \subseteq Visitors /\ s.seq \in Nat /\ s.quality \in Qualities
      /\ s.started \in 0..MaxDay /\ s.persisted \in 0..MaxDay /\ s.days \in Partly(Days, RowField)
  BY DEF RowStates
<1> QED
  BY <1>1, RowFields

\* A reservation raises the sequence number and nothing else.
LEMMA ReservedFacts ==
  ASSUME redis \in RedisStates
  PROVE  /\ Reserved \in RedisStates
         /\ (Reserved.kind = "whole") <=> (redis.kind = "whole")
         /\ Reserved.kind # "none"
         /\ Reserved.pv = redis.pv /\ Reserved.seq = redis.seq + 1 /\ Reserved.ack = redis.ack
         /\ Reserved.quality = redis.quality /\ Reserved.days = redis.days /\ Reserved.hll = redis.hll
<1>0. (IF redis.kind = "none" THEN "part" ELSE redis.kind) \in {"none", "part", "whole"} /\ redis.seq + 1 \in Nat
  BY RedisParts
<1>1. Reserved \in RedisStates
  BY <1>0 DEF Reserved, RedisStates
<1>2. /\ Reserved.kind = (IF redis.kind = "none" THEN "part" ELSE redis.kind)
      /\ Reserved.pv = redis.pv /\ Reserved.seq = redis.seq + 1 /\ Reserved.ack = redis.ack
      /\ Reserved.quality = redis.quality /\ Reserved.days = redis.days /\ Reserved.hll = redis.hll
  BY DEF Reserved, RedisStates
<1> QED
  BY <1>1, <1>2 DEF RedisStates

\* A counted visit raises the total and its day.
LEMMA CountedFacts ==
  ASSUME redis \in RedisStates, NEW v, v.day \in Days, v.who \subseteq Visitors, NEW n \in Nat, NEW fresh \in BOOLEAN
  PROVE  LET c == Counted(v, n, fresh)
         IN  /\ c \in RedisStates
             /\ (c.kind = "whole") <=> (redis.kind = "whole")
             /\ c.kind # "none"
             /\ c.pv = redis.pv + 1 /\ c.seq = redis.seq /\ c.ack = redis.ack /\ c.quality = redis.quality
             /\ DOMAIN c.days = DOMAIN redis.days \cup {v.day}
             /\ c.days[v.day].pv = PvOf(redis.days, v.day) + 1
             /\ v.day \in DOMAIN redis.days => c.days[v.day].quality = redis.days[v.day].quality
             /\ v.day \notin DOMAIN redis.days => c.days[v.day].quality = "ok"
             /\ \A d \in DOMAIN redis.days : d # v.day => c.days[d] = redis.days[d]
             /\ DOMAIN c.hll = DOMAIN redis.hll \cup {All, v.day}
<1> DEFINE d == v.day
           old == IF d \in DOMAIN redis.days THEN redis.days[d] ELSE [pv |-> 0, seq |-> 0, quality |-> "ok"]
           e == [pv |-> old.pv + 1, seq |-> n, quality |-> old.quality]
           Add(k) == v.who \cup IF k \in DOMAIN redis.hll /\ ~(k = d /\ fresh) THEN redis.hll[k] ELSE {}
           h == [k \in {All, d} |-> Add(k)]
           days == Over(Only(d, e), redis.days)
           hll == Over(h, redis.hll)
           c == Counted(v, n, fresh)
<1>0. c = [redis EXCEPT !.kind = IF @ = "none" THEN "part" ELSE @, !.pv = @ + 1, !.days = days, !.hll = hll,
                        !.dirty = TRUE, !.listed = TRUE]
  BY DEF Counted
<1>1. /\ redis.pv \in Nat
      /\ redis.days \in Partly(Days, Field) /\ redis.hll \in Hlls
      /\ \A x \in DOMAIN redis.days : redis.days[x].pv \in Nat /\ redis.days[x].quality \in Qualities
      /\ \A k \in DOMAIN redis.hll : redis.hll[k] \subseteq Visitors
  BY RedisParts
<1>2. old.pv = PvOf(redis.days, d) /\ old.pv \in Nat /\ old.quality \in Qualities
  BY <1>1 DEF PvOf, Qualities
<1>3. d \in DOMAIN redis.days => old.quality = redis.days[d].quality
  OBVIOUS
<1>4. d \notin DOMAIN redis.days => old.quality = "ok"
  OBVIOUS
<1>5. e \in Field /\ e.pv = old.pv + 1 /\ e.quality = old.quality
  <2> HIDE DEF old
  <2> QED
    BY <1>2 DEF Field, Qualities
<1> HIDE DEF old, e
<1>6. /\ days \in Partly(Days, Field) /\ DOMAIN days = DOMAIN redis.days \cup {d} /\ days[d] = e
      /\ \A x \in DOMAIN redis.days : x # d => days[x] = redis.days[x]
  <2>1. redis.days \in Partly(Days, Field) /\ e \in Field /\ d \in Days
    BY <1>1, <1>5
  <2>2. days \in Partly(Days, Field)
    BY <2>1, PutOnTop
  <2>3. DOMAIN days = DOMAIN redis.days \cup {d} /\ days[d] = e
    BY DEF Over, Only
  <2>4. \A x \in DOMAIN redis.days : x # d => days[x] = redis.days[x]
    BY DEF Over, Only
  <2> QED
    BY <2>2, <2>3, <2>4
<1>7. /\ DOMAIN h = {All, d} /\ h = [x \in DOMAIN h |-> h[x]] /\ DOMAIN h \subseteq Days \cup {All}
      /\ \A x \in DOMAIN h : h[x] \subseteq Visitors
  BY <1>1
<1> HIDE DEF h
<1>8. h \in Hlls
  BY <1>7, HllMade
<1>9. hll \in Hlls /\ DOMAIN hll = DOMAIN h \cup DOMAIN redis.hll
  BY <1>1, <1>8, HllOver, OverDomain
<1> HIDE DEF days, hll, c
<1>13. (IF redis.kind = "none" THEN "part" ELSE redis.kind) \in {"none", "part", "whole"} /\ redis.pv + 1 \in Nat
  BY RedisParts
<1>10. c \in RedisStates
  BY <1>0, <1>6, <1>9, <1>13 DEF RedisStates
<1>11. /\ c.kind = (IF redis.kind = "none" THEN "part" ELSE redis.kind)
       /\ c.pv = redis.pv + 1 /\ c.seq = redis.seq /\ c.ack = redis.ack /\ c.quality = redis.quality
       /\ c.days = days /\ c.hll = hll
  BY <1>0 DEF RedisStates
<1>12. DOMAIN c.hll = DOMAIN redis.hll \cup {All, d}
  BY <1>7, <1>9, <1>11
<1> QED
  BY <1>2, <1>3, <1>4, <1>5, <1>6, <1>10, <1>11, <1>12 DEF c, RedisStates

\* A transaction the client sent twice counts twice.
CountedTwice(v, n, fresh) ==
  LET once == Counted(v, n, fresh) IN [once EXCEPT !.pv = @ + 1, !.days[v.day].pv = @ + 1]

\* A transaction the client sent twice raises both once more.
LEMMA CountedTwiceFacts ==
  ASSUME redis \in RedisStates, NEW v, v.day \in Days, v.who \subseteq Visitors, NEW n \in Nat, NEW fresh \in BOOLEAN
  PROVE  LET c == CountedTwice(v, n, fresh)
             once == Counted(v, n, fresh)
         IN  /\ c \in RedisStates
             /\ c.kind = once.kind /\ c.pv = once.pv + 1 /\ c.seq = once.seq /\ c.ack = once.ack
             /\ c.quality = once.quality /\ DOMAIN c.days = DOMAIN once.days /\ c.hll = once.hll
             /\ c.days[v.day].pv = once.days[v.day].pv + 1
             /\ \A d \in DOMAIN once.days : d # v.day => c.days[d] = once.days[d]
<1> DEFINE once == Counted(v, n, fresh)
           c == CountedTwice(v, n, fresh)
<1>0. once \in RedisStates /\ DOMAIN once.days = DOMAIN redis.days \cup {v.day}
  BY CountedFacts, ZenonT(20)
<1>1. once \in RedisStates /\ v.day \in DOMAIN once.days
  BY <1>0
<1>2. c = [once EXCEPT !.pv = @ + 1, !.days[v.day].pv = @ + 1]
  BY DEF CountedTwice
<1> HIDE DEF once, c
<1>3. /\ once.days \in Partly(Days, Field) /\ once.pv \in Nat
  BY <1>1, RedisParts
<1> DEFINE days == [once.days EXCEPT ![v.day].pv = @ + 1]
<1>4. /\ DOMAIN once.days \subseteq Days /\ \A x \in DOMAIN once.days : once.days[x] \in Field
      /\ once.days = [x \in DOMAIN once.days |-> once.days[x]]
  BY <1>3, PartlyFacts
<1>5. /\ DOMAIN days = DOMAIN once.days /\ days = [x \in DOMAIN days |-> days[x]]
      /\ days[v.day].pv = once.days[v.day].pv + 1
      /\ \A x \in DOMAIN once.days : x # v.day => days[x] = once.days[x]
  BY <1>1, <1>4 DEF Field
<1>6. \A x \in DOMAIN days : days[x] \in Field
  BY <1>1, <1>4 DEF Field
<1> HIDE DEF days
<1>7. days \in Partly(Days, Field)
  BY <1>4, <1>5, <1>6, PartlyMade
<1>8. c = [once EXCEPT !.pv = @ + 1, !.days = days]
  BY <1>2 DEF days
<1>9. once.pv + 1 \in Nat
  BY <1>3
<1>10. c \in RedisStates
  BY <1>1, <1>7, <1>8, <1>9 DEF RedisStates
<1>11. /\ c.kind = once.kind /\ c.pv = once.pv + 1 /\ c.seq = once.seq /\ c.ack = once.ack
       /\ c.quality = once.quality /\ c.days = days /\ c.hll = once.hll
  BY <1>1, <1>8 DEF RedisStates
<1> QED
  BY <1>5, <1>10, <1>11 DEF c, once

\* A mark degrades the total and its day, and counts nothing.
LEMMA MarkedFacts ==
  ASSUME redis \in RedisStates, NEW d \in Days, NEW n \in Nat
  PROVE  LET c == Marked(d, n)
         IN  /\ c \in RedisStates
             /\ (c.kind = "whole") <=> (redis.kind = "whole")
             /\ c.kind # "none"
             /\ c.pv = redis.pv /\ c.seq = redis.seq /\ c.ack = redis.ack /\ c.quality = "degraded"
             /\ DOMAIN c.days = DOMAIN redis.days \cup {d}
             /\ c.days[d].pv = PvOf(redis.days, d) /\ c.days[d].quality = "degraded"
             /\ \A x \in DOMAIN redis.days : x # d => c.days[x] = redis.days[x]
             /\ DOMAIN c.hll = DOMAIN redis.hll \cup {d}
<1> DEFINE e == [pv |-> PvOf(redis.days, d), seq |-> n, quality |-> "degraded"]
           days == Over(Only(d, e), redis.days)
           hll == Over(redis.hll, Only(d, {}))
           c == Marked(d, n)
<1>0. c = [redis EXCEPT !.kind = IF @ = "none" THEN "part" ELSE @, !.quality = "degraded",
                        !.days = days, !.hll = hll, !.dirty = TRUE, !.listed = TRUE]
  BY DEF Marked, PvOf
<1>1. /\ redis.days \in Partly(Days, Field) /\ redis.hll \in Hlls
      /\ (IF redis.kind = "none" THEN "part" ELSE redis.kind) \in {"none", "part", "whole"}
      /\ \A x \in DOMAIN redis.days : redis.days[x].pv \in Nat
  BY RedisParts
<1>2. e \in Field /\ e.pv = PvOf(redis.days, d) /\ e.quality = "degraded"
  BY <1>1 DEF Field, PvOf
<1> HIDE DEF e
<1>3. DOMAIN days = DOMAIN redis.days \cup {d} /\ days[d] = e
  BY DEF Over, Only
<1>4. \A x \in DOMAIN redis.days : x # d => days[x] = redis.days[x]
  BY DEF Over, Only
<1>5. days \in Partly(Days, Field)
  BY <1>1, <1>2, PutOnTop
<1> DEFINE o == Only(d, {})
<1>6. o = [k \in DOMAIN o |-> o[k]] /\ DOMAIN o = {d} /\ o[d] = {}
  BY DEF Only
<1>7. hll = Over(redis.hll, o)
  OBVIOUS
<1> HIDE DEF o, days, hll, c
<1>8. o \in Hlls
  BY <1>6, HllMade
<1>9. hll \in Hlls
  BY <1>1, <1>7, <1>8, HllOver
<1>10. DOMAIN hll = DOMAIN redis.hll \cup {d}
  <2>1. DOMAIN Over(redis.hll, o) = DOMAIN redis.hll \cup DOMAIN o
    BY OverDomain
  <2> QED
    BY <1>6, <1>7, <2>1
<1>11. c \in RedisStates
  BY <1>0, <1>1, <1>5, <1>9 DEF RedisStates, Qualities
<1>12. /\ c.kind = (IF redis.kind = "none" THEN "part" ELSE redis.kind)
       /\ c.pv = redis.pv /\ c.seq = redis.seq /\ c.ack = redis.ack /\ c.quality = "degraded"
       /\ c.days = days /\ c.hll = hll
  BY <1>0 DEF RedisStates
<1> QED
  BY <1>2, <1>3, <1>4, <1>10, <1>11, <1>12 DEF c, RedisStates

\* Merging the baseline changes HyperLogLogs only.
LEMMA MergedFacts ==
  ASSUME redis \in RedisStates, sql \in RowStates
  PROVE  /\ Merged \in RedisStates
         /\ Merged.kind = redis.kind /\ Merged.pv = redis.pv /\ Merged.seq = redis.seq /\ Merged.ack = redis.ack
         /\ Merged.quality = redis.quality /\ Merged.started = redis.started /\ Merged.days = redis.days
         /\ DOMAIN Merged.hll = DOMAIN redis.hll
<1> DEFINE Base(k) == IF k = All THEN sql.uv
                      ELSE IF k \in Window /\ k \in DOMAIN redis.days THEN sql.days[k].uv ELSE {}
           hll == [k \in DOMAIN redis.hll |-> redis.hll[k] \cup Base(k)]
           dirt == redis.dirty \/ redis.seq > redis.ack
<1>0. Merged = [redis EXCEPT !.hll = hll, !.dirty = dirt]
  BY DEF Merged
<1>1. /\ redis.hll \in Hlls /\ DOMAIN redis.hll \subseteq Days \cup {All}
      /\ \A k \in DOMAIN redis.hll : redis.hll[k] \subseteq Visitors
  BY RedisParts
<1>2. \A k \in DOMAIN redis.hll : Base(k) \subseteq Visitors
  BY RowParts DEF Window
<1>3. DOMAIN hll = DOMAIN redis.hll /\ hll = [k \in DOMAIN hll |-> hll[k]]
      /\ \A k \in DOMAIN hll : hll[k] \subseteq Visitors
  <2> HIDE DEF Base
  <2> QED
    BY <1>1, <1>2
<1> HIDE DEF hll
<1>4. hll \in Hlls
  BY <1>1, <1>3, HllMade
<1>5. dirt \in BOOLEAN
  OBVIOUS
<1> HIDE DEF dirt
<1>6. Merged \in RedisStates
  BY <1>0, <1>4, <1>5 DEF RedisStates
<1>7. /\ Merged.kind = redis.kind /\ Merged.pv = redis.pv /\ Merged.seq = redis.seq /\ Merged.ack = redis.ack
      /\ Merged.quality = redis.quality /\ Merged.started = redis.started /\ Merged.days = redis.days
      /\ Merged.hll = hll
  BY <1>0 DEF RedisStates
<1> QED
  BY <1>3, <1>6, <1>7

\* The restored days count what their rows count.
LEMMA RestoredDaysFacts ==
  ASSUME sql \in RowStates, today \in Days, Restorable, NEW at \in Days
  PROVE  LET R == RestoredDays(at)
         IN  /\ DOMAIN R \subseteq Days
             /\ \A d \in DOMAIN R : /\ R[d].pv = PvOf(sql.days, d) /\ R[d].pv \in Nat /\ R[d].uv \subseteq Visitors
                                    /\ R[d].seq \in Nat /\ R[d].quality \in Qualities
             /\ ~Recovered /\ DOMAIN sql.days = {} => DOMAIN R = {}
<1> DEFINE since == IF sql.seq > 0 THEN sql.persisted ELSE at
           from == Max({lower, since})
           lost == IF Recovered THEN from..today ELSE {}
           Old(d) == IF d \in Window THEN sql.days[d] ELSE [pv |-> 0, uv |-> {}, seq |-> 0, quality |-> "ok"]
           Day(d) == IF d \in lost THEN [Old(d) EXCEPT !.seq = sql.seq + 1, !.quality = "degraded"]
                     ELSE Old(d)
           S == {x \in Window \cup lost : x >= hotFrom \/ Day(x).seq > sql.seq}
           R == RestoredDays(at)
<1>0. R = [d \in S |-> Day(d)]
  BY DEF RestoredDays
<1>1. /\ sql.seq \in Nat /\ DOMAIN sql.days \subseteq Days /\ Days \subseteq Int
      /\ \A d \in DOMAIN sql.days : sql.days[d] \in RowField
  BY RowParts, DayNumbers
<1>2. since \in Days /\ lower \in Int
  BY <1>1, Budgets DEF Restorable, lower, Days
<1>3. from \in Int /\ from >= since /\ from >= lower
  <2> HIDE DEF since
  <2>1. since \in Int
    BY <1>1, <1>2
  <2>2. from = Larger(lower, since)
    BY <1>2, <2>1, LargerOfTwo
  <2> HIDE DEF from
  <2> QED
    BY <1>2, <2>1, <2>2 DEF Larger
<1> HIDE DEF from, since
<1>4. lost \subseteq Days /\ \A d \in lost : d >= lower /\ d <= today
  BY <1>1, <1>2, <1>3, Budgets DEF Days
<1>5. Window \subseteq Days
  BY <1>1 DEF Window
<1>6. \A d \in Window \cup lost : Old(d) \in RowField /\ Old(d).pv = PvOf(sql.days, d)
  BY <1>1, <1>4 DEF Window, PvOf, RowField, Qualities
<1>7. ~Recovered /\ DOMAIN sql.days = {} => Window \cup lost = {}
  BY DEF Window
<1> HIDE DEF lost, Old
<1>8. ASSUME NEW d \in Window \cup lost PROVE Day(d) \in RowField /\ Day(d).pv = PvOf(sql.days, d)
  <2> DEFINE o == Old(d)
  <2> HIDE DEF o
  <2>1. o \in RowField /\ o.pv = PvOf(sql.days, d) /\ sql.seq + 1 \in Nat
    BY <1>1, <1>6 DEF o
  <2>2. Day(d) \in {o, [o EXCEPT !.seq = sql.seq + 1, !.quality = "degraded"]}
    BY DEF o
  <2> HIDE DEF Day
  <2> QED
    BY <2>1, <2>2 DEF RowField, Qualities
<1>9. S \subseteq Window \cup lost
  OBVIOUS
<1> HIDE DEF Day, S
<1>10. DOMAIN R = S /\ \A d \in S : R[d] \in RowField /\ R[d].pv = PvOf(sql.days, d)
  BY <1>0, <1>8, <1>9
<1> QED
  BY <1>4, <1>5, <1>7, <1>9, <1>10 DEF RowField

\* A restore replaces every key by what the rows say.
LEMMA RestoredFacts ==
  ASSUME sql \in RowStates, today \in Days, Restorable, NEW at \in Days
  PROVE  LET r == Restored(at)
         IN  /\ r \in RedisStates
             /\ r.kind = "whole" /\ r.pv = sql.pv /\ r.ack = sql.seq
             /\ r.seq = IF Recovered THEN sql.seq + 1 ELSE sql.seq
             /\ Recovered => r.quality = "degraded"
             /\ \A d \in DOMAIN r.days : r.days[d].pv = PvOf(sql.days, d)
             /\ {All} \cup DOMAIN r.days \subseteq DOMAIN r.hll
             /\ ~Recovered /\ DOMAIN sql.days = {} => DOMAIN r.days = {}
<1> DEFINE R == RestoredDays(at)
           days == [d \in DOMAIN R |-> [pv |-> R[d].pv, seq |-> R[d].seq, quality |-> R[d].quality]]
           h == [d \in DOMAIN R |-> R[d].uv]
           o == Only(All, sql.uv)
           hll == Over(o, h)
           n == IF Recovered THEN sql.seq + 1 ELSE sql.seq
           q == IF Recovered THEN "degraded" ELSE sql.quality
           st == IF sql.seq > 0 THEN sql.started ELSE at
           r == Restored(at)
<1>0. r = [kind |-> "whole", pv |-> sql.pv, ack |-> sql.seq, seq |-> n, quality |-> q, started |-> st,
           days |-> days, hll |-> hll, dirty |-> TRUE, listed |-> TRUE]
  BY DEF Restored
<1>1. /\ DOMAIN R \subseteq Days
      /\ \A d \in DOMAIN R : /\ R[d].pv = PvOf(sql.days, d) /\ R[d].pv \in Nat /\ R[d].uv \subseteq Visitors
                             /\ R[d].seq \in Nat /\ R[d].quality \in Qualities
      /\ ~Recovered /\ DOMAIN sql.days = {} => DOMAIN R = {}
  BY RestoredDaysFacts
<1> HIDE DEF R
<1>2. /\ sql.pv \in Nat /\ sql.seq \in Nat /\ sql.quality \in Qualities /\ sql.started \in 0..MaxDay
      /\ sql.uv \subseteq Visitors
  BY RowParts
<1>3. n \in Nat /\ q \in Qualities /\ st \in 0..MaxDay
  BY <1>2, DayNumbers DEF Qualities
<1>4. /\ DOMAIN days = DOMAIN R /\ days = [d \in DOMAIN days |-> days[d]]
      /\ \A d \in DOMAIN R : days[d] \in Field /\ days[d].pv = R[d].pv
  BY <1>1 DEF Field, Qualities
<1> HIDE DEF days
<1>5. days \in Partly(Days, Field)
  BY <1>1, <1>4, PartlyMade
<1>6. DOMAIN h = DOMAIN R /\ h = [k \in DOMAIN h |-> h[k]] /\ \A k \in DOMAIN h : h[k] \subseteq Visitors
  BY <1>1
<1>7. o = [k \in DOMAIN o |-> o[k]] /\ DOMAIN o = {All} /\ o[All] \subseteq Visitors
  BY <1>2 DEF Only
<1> HIDE DEF h, o
<1>8. h \in Hlls
  BY <1>1, <1>6, HllMade
<1>9. o \in Hlls
  BY <1>7, HllMade
<1>10. hll \in Hlls
  BY <1>8, <1>9, HllOver
<1>11. DOMAIN hll = {All} \cup DOMAIN R
  BY <1>6, <1>7 DEF Over
<1> HIDE DEF hll, n, q, st, r
<1>12. r \in RedisStates
  BY <1>0, <1>2, <1>3, <1>5, <1>10 DEF RedisStates
<1>13. /\ r.kind = "whole" /\ r.pv = sql.pv /\ r.ack = sql.seq /\ r.seq = n /\ r.quality = q
       /\ r.days = days /\ r.hll = hll
  BY <1>0
<1> QED
  BY <1>1, <1>4, <1>11, <1>12, <1>13 DEF r, n, q

\* An acknowledgment takes cold days away and changes no other.
LEMMA AcknowledgedFacts ==
  ASSUME redis \in RedisStates, NEW n \in Nat, NEW before \in Int
  PROVE  LET c == Acknowledged(n, before)
             cold == {d \in DOMAIN redis.days : d < before /\ redis.days[d].seq <= Larger(n, redis.ack)}
         IN  /\ c \in RedisStates
             /\ c.kind = redis.kind /\ c.pv = redis.pv /\ c.seq = redis.seq /\ c.quality = redis.quality
             /\ c.ack = Larger(n, redis.ack)
             /\ DOMAIN c.days = DOMAIN redis.days \ cold
             /\ \A d \in DOMAIN redis.days \ cold : c.days[d] = redis.days[d]
             /\ DOMAIN c.hll = DOMAIN redis.hll \ cold
<1> DEFINE ack == Larger(n, redis.ack)
           cold == {d \in DOMAIN redis.days : d < before /\ redis.days[d].seq <= ack}
           days == Restrict(redis.days, DOMAIN redis.days \ cold)
           hll == Restrict(redis.hll, DOMAIN redis.hll \ cold)
           dirt == redis.dirty /\ redis.seq # n
           c == Acknowledged(n, before)
<1>1. /\ redis.days \in Partly(Days, Field) /\ redis.hll \in Hlls /\ redis.ack \in Nat
      /\ DOMAIN redis.hll \subseteq Days \cup {All} /\ \A k \in DOMAIN redis.hll : redis.hll[k] \subseteq Visitors
  BY RedisParts
<1>2. Max({n, redis.ack}) = ack /\ ack \in Nat
  <2>1. n \in Int /\ redis.ack \in Int /\ n \in Nat /\ redis.ack \in Nat
    BY <1>1
  <2>2. Max({n, redis.ack}) = Larger(n, redis.ack) /\ Larger(n, redis.ack) \in {n, redis.ack}
    BY <2>1, LargerOfTwo
  <2> QED
    BY <2>1, <2>2
<1>3. c = [redis EXCEPT !.ack = ack, !.days = days, !.hll = hll, !.dirty = dirt]
  BY <1>2 DEF Acknowledged
<1> HIDE DEF cold
<1>4. days \in Partly(Days, Field)
  BY <1>1, Restricted
<1>5. DOMAIN days = DOMAIN redis.days \ cold /\ \A d \in DOMAIN redis.days \ cold : days[d] = redis.days[d]
  BY DEF Restrict
<1>6. DOMAIN hll = DOMAIN redis.hll \ cold /\ hll = [k \in DOMAIN hll |-> hll[k]]
      /\ \A k \in DOMAIN hll : hll[k] \subseteq Visitors
  BY <1>1 DEF Restrict
<1> HIDE DEF hll, days
<1>7. hll \in Hlls
  BY <1>1, <1>6, HllMade
<1>8. dirt \in BOOLEAN
  OBVIOUS
<1> HIDE DEF dirt, ack, c
<1>9. c \in RedisStates
  BY <1>2, <1>3, <1>4, <1>7, <1>8 DEF RedisStates
<1>10. /\ c.kind = redis.kind /\ c.pv = redis.pv /\ c.seq = redis.seq /\ c.quality = redis.quality
       /\ c.ack = ack /\ c.days = days /\ c.hll = hll
  BY <1>3 DEF RedisStates
<1> QED
  BY <1>5, <1>6, <1>9, <1>10 DEF c, cold, ack

\* The rows of a snapshot: its days in the window over the older rows.
LEMMA RowsFacts ==
  ASSUME sql \in RowStates, NEW snap \in RedisStates, NEW at \in Days,
         {All} \cup DOMAIN snap.days \subseteq DOMAIN snap.hll
  PROVE  LET new == Rows(snap, at)
         IN  /\ new \in RowStates
             /\ new.pv = snap.pv /\ new.seq = snap.seq /\ new.quality = snap.quality /\ new.persisted = at
             /\ DOMAIN new.days = DOMAIN sql.days \cup Kept(snap, at)
             /\ Kept(snap, at) = {d \in DOMAIN snap.days : d >= at + 1 - RetentionDays}
             /\ \A d \in Kept(snap, at) : /\ new.days[d].pv = snap.days[d].pv
                                          /\ new.days[d].quality = snap.days[d].quality
             /\ \A d \in DOMAIN sql.days \ Kept(snap, at) : new.days[d] = sql.days[d]
<1> DEFINE K == Kept(snap, at)
           Row(d) == [pv |-> snap.days[d].pv, uv |-> snap.hll[d], seq |-> snap.days[d].seq,
                      quality |-> snap.days[d].quality]
           k == [d \in K |-> Row(d)]
           days == Over(k, sql.days)
           new == Rows(snap, at)
<1>0. new = [pv |-> snap.pv, uv |-> snap.hll[All], seq |-> snap.seq, quality |-> snap.quality,
             started |-> snap.started, persisted |-> at, days |-> days]
  BY DEF Rows
<1>1. /\ snap.pv \in Nat /\ snap.seq \in Nat /\ snap.quality \in Qualities /\ snap.started \in 0..MaxDay
      /\ DOMAIN snap.days \subseteq Days
      /\ \A d \in DOMAIN snap.days : snap.days[d].pv \in Nat /\ snap.days[d].seq \in Nat /\ snap.days[d].quality \in Qualities
      /\ \A x \in DOMAIN snap.hll : snap.hll[x] \subseteq Visitors
  BY RedisParts
<1>2. K \subseteq DOMAIN snap.days /\ K = {d \in DOMAIN snap.days : d >= at + 1 - RetentionDays}
  BY DEF Kept
<1> HIDE DEF K
<1>3. \A d \in K : Row(d) \in RowField /\ Row(d).pv = snap.days[d].pv /\ Row(d).quality = snap.days[d].quality
  BY <1>1, <1>2 DEF RowField
<1> HIDE DEF Row
<1>4. DOMAIN k = K /\ k = [d \in DOMAIN k |-> k[d]] /\ DOMAIN k \subseteq Days
      /\ \A d \in DOMAIN k : k[d] \in RowField
  BY <1>1, <1>2, <1>3
<1>5. \A d \in K : k[d].pv = snap.days[d].pv /\ k[d].quality = snap.days[d].quality
  BY <1>3
<1> HIDE DEF k
<1>6. k \in Partly(Days, RowField)
  BY <1>4, PartlyMade
<1>7. sql.days \in Partly(Days, RowField)
  BY RowParts
<1>8. days \in Partly(Days, RowField)
  BY <1>6, <1>7, OverPartly
<1>9. DOMAIN days = DOMAIN sql.days \cup K
  BY <1>4 DEF Over
<1>10. (\A d \in K : days[d] = k[d]) /\ \A d \in DOMAIN sql.days \ K : days[d] = sql.days[d]
  BY <1>4 DEF Over
<1> HIDE DEF days, new
<1>11. snap.hll[All] \in SUBSET Visitors /\ at \in 0..MaxDay
  BY <1>1, DayNumbers
<1>12. new \in RowStates
  BY <1>0, <1>1, <1>8, <1>11 DEF RowStates
<1>13. /\ new.pv = snap.pv /\ new.seq = snap.seq /\ new.quality = snap.quality /\ new.persisted = at
       /\ new.days = days
  BY <1>0
<1> QED
  BY <1>2, <1>5, <1>9, <1>10, <1>12, <1>13 DEF new, K

\* The empty states have their types.
LEMMA NothingTypes == NoRedis \in RedisStates /\ NoRows \in RowStates /\ Sound(NoRedis) /\ NoRedis.kind = "none"
<1> DEFINE f == NoEntries
<1>1. f = [x \in DOMAIN f |-> f[x]] /\ DOMAIN f = {}
  BY DEF NoEntries
<1> HIDE DEF f
<1>2. f \in Partly(Days, Field)
  BY <1>1, PartlyMade
<1>3. f \in Partly(Days, RowField)
  BY <1>1, PartlyMade
<1>4. f \in Hlls
  BY <1>1, HllMade
<1>5. NoRedis = [kind |-> "none", pv |-> 0, seq |-> 0, ack |-> 0, quality |-> "ok", started |-> 0,
                 days |-> f, hll |-> f, dirty |-> FALSE, listed |-> FALSE]
  BY DEF f, NoRedis
<1>6. NoRows = [pv |-> 0, uv |-> {}, seq |-> 0, quality |-> "ok", started |-> 0, persisted |-> 0, days |-> f]
  BY DEF f, NoRows
<1>7. 0 \in 0..MaxDay
  BY DayNumbers
<1>8. NoRedis \in RedisStates
  BY <1>2, <1>4, <1>5, <1>7 DEF RedisStates, Qualities
<1>9. NoRows \in RowStates
  BY <1>3, <1>6, <1>7 DEF RowStates, Qualities
<1> QED
  BY <1>5, <1>8, <1>9 DEF Sound

\* Lost keys take all of the project's hash or nothing of it.
LEMMA LostFacts ==
  ASSUME redis \in RedisStates, LoseKeys
  PROVE  /\ redis' \in RedisStates /\ redis'.pv \in {0, redis.pv}
         /\ redis'.kind = "none" \/ /\ redis'.kind = redis.kind /\ redis'.pv = redis.pv /\ redis'.seq = redis.seq
                                    /\ redis'.ack = redis.ack /\ redis'.quality = redis.quality
                                    /\ redis'.days = redis.days
<1>1. NoRedis \in RedisStates /\ NoRedis.kind = "none" /\ NoRedis.pv = 0
  BY NothingTypes DEF NoRedis
<1>2. CASE redis' = NoRedis
  BY <1>1, <1>2
<1>3. CASE redis' = [NoRedis EXCEPT !.hll = redis.hll, !.dirty = redis.dirty, !.listed = redis.listed]
  <2>1. redis.hll \in Hlls /\ redis.dirty \in BOOLEAN /\ redis.listed \in BOOLEAN
    BY RedisParts
  <2> QED
    BY <1>1, <1>3, <2>1 DEF RedisStates
<1>4. CASE redis' = [redis EXCEPT !.dirty = FALSE, !.listed = FALSE]
  BY <1>4 DEF RedisStates
<1>5. CASE \E k \in DOMAIN redis.hll : redis' = [redis EXCEPT !.hll = Restrict(@, DOMAIN @ \ {k})]
  <2>1. PICK k \in DOMAIN redis.hll : redis' = [redis EXCEPT !.hll = Restrict(@, DOMAIN @ \ {k})]
    BY <1>5
  <2> DEFINE h == Restrict(redis.hll, DOMAIN redis.hll \ {k})
  <2>2. DOMAIN redis.hll \subseteq Days \cup {All} /\ \A x \in DOMAIN redis.hll : redis.hll[x] \subseteq Visitors
    BY RedisParts
  <2>3. h = [x \in DOMAIN h |-> h[x]] /\ DOMAIN h \subseteq Days \cup {All} /\ \A x \in DOMAIN h : h[x] \subseteq Visitors
    BY <2>2 DEF Restrict
  <2> HIDE DEF h
  <2>4. h \in Hlls
    BY <2>3, HllMade
  <2>5. redis' = [redis EXCEPT !.hll = h]
    BY <2>1 DEF h
  <2> QED
    BY <2>4, <2>5 DEF RedisStates
<1> QED
  BY <1>2, <1>3, <1>4, <1>5 DEF LoseKeys

-----------------------------------------------------------------------------
(* The types, and what the worker has in hand *)

\* A noted gap keeps the bound of the table; what does not fit is remembered.
LEMMA NoteGapFacts ==
  ASSUME gaps \in SUBSET Days, Cardinality(gaps) <= QueueSize, overflow \in BOOLEAN,
         NEW d \in Days, noteGap(d)
  PROVE  /\ gaps' \in SUBSET Days /\ Cardinality(gaps') <= QueueSize /\ overflow' \in BOOLEAN
         /\ gaps \subseteq gaps' /\ gaps' \subseteq gaps \cup {d}
         /\ mishaps \subseteq mishaps' /\ mishaps' \subseteq mishaps \cup {"spill"}
         /\ "spill" \notin mishaps' => d \in gaps'
<1>1. IsFiniteSet(gaps) /\ Cardinality(gaps) \in Nat /\ QueueSize \in Nat
  BY DayNumbers, FS_Subset, FS_CardinalityType, Budgets
<1> DEFINE full == "gaps" \in crowd \/ Cardinality(gaps) >= QueueSize
<1>2. CASE d \in gaps \/ full
  <2>1. gaps' = gaps
    BY <1>2 DEF noteGap
  <2> QED
    BY <1>2, <2>1 DEF noteGap
<1>3. CASE d \notin gaps /\ ~full
  <2>1. gaps' = gaps \cup {d} /\ overflow' = overflow
    BY <1>3 DEF noteGap
  <2>2. Cardinality(gaps') = Cardinality(gaps) + 1
    BY <1>1, <1>3, <2>1, FS_AddElement
  <2>3. Cardinality(gaps') <= QueueSize
    BY <1>1, <1>3, <2>2
  <2> QED
    BY <2>1, <2>3 DEF noteGap
<1> QED
  BY <1>2, <1>3

\* The types of what the worker has in hand.
LEMMA JobParts ==
  ASSUME NEW j \in Jobs
  PROVE  /\ j.pc \in {"idle", "drain", "visit", "failed", "reserve", "write", "marks", "markseq", "mark",
                      "persist", "read", "commit", "ack", "cleanup"}
         /\ j.flush \in BOOLEAN /\ j.left \in Nat /\ j.fresh \in BOOLEAN /\ j.seq \in Nat
         /\ j.held \subseteq Days /\ j.late \in BOOLEAN /\ j.now \in 0..MaxDay /\ j.snap \in RedisStates
         /\ j.seen \in [Days -> Nat] /\ j.visit.day \in 0..MaxDay /\ j.visit.who \subseteq Visitors
         /\ j.visit \in [day : 0..MaxDay, who : SUBSET Visitors]
  BY DEF Jobs

\* An idle worker has nothing in hand.
LEMMA IdleFacts ==
  /\ Idle \in Jobs /\ Idle.pc = "idle" /\ Idle.flush = FALSE /\ Idle.held = {} /\ Idle.late = FALSE
  /\ Idle.now = 0 /\ Idle.visit = NoVisit /\ Idle.snap = NoRedis
  /\ EndFlush \in Jobs /\ EndFlush.pc = "cleanup" /\ EndFlush.held = {} /\ EndFlush.late = FALSE
  /\ EndFlush.now = 0 /\ EndFlush.visit = NoVisit /\ EndFlush.snap = NoRedis
  /\ NoVisit.day = 0 /\ 0 \notin Days
<1>1. NoRedis \in RedisStates /\ Unseen \in [Days -> Nat] /\ 0 \in 0..MaxDay
  BY NothingTypes, DayNumbers DEF Unseen
<1>2. NoVisit \in [day : 0..MaxDay, who : SUBSET Visitors] /\ NoVisit.day = 0 /\ 0 \notin Days
  BY <1>1 DEF NoVisit, Days
<1>3. /\ Idle \in Jobs /\ Idle.pc = "idle" /\ Idle.flush = FALSE /\ Idle.held = {} /\ Idle.late = FALSE
      /\ Idle.now = 0 /\ Idle.visit = NoVisit /\ Idle.snap = NoRedis
  BY <1>1, <1>2 DEF Jobs, Idle
<1> QED
  BY <1>1, <1>2, <1>3 DEF Jobs, EndFlush

\* Where the worker goes after a visit.
LEMMA ResumeFacts ==
  ASSUME job \in Jobs
  PROVE  /\ Resume \in Jobs /\ Resume.held \in {job.held, {}} /\ Resume.late \in {job.late, FALSE}
         /\ Resume.now \in {job.now, 0} /\ Resume.snap \in {job.snap, NoRedis}
         /\ (Resume.pc = "idle" /\ Resume.flush = FALSE) \/ Resume.pc = "drain"
<1>1. CASE job.flush
  <2>1. Resume = [job EXCEPT !.pc = "drain", !.visit = NoVisit, !.fresh = FALSE, !.seq = 0]
    BY <1>1 DEF Resume
  <2>2. NoVisit \in [day : 0..MaxDay, who : SUBSET Visitors]
    BY IdleFacts, DayNumbers DEF NoVisit
  <2> QED
    BY <2>1, <2>2 DEF Jobs
<1>2. CASE ~job.flush
  <2>1. Resume = Idle
    BY <1>2 DEF Resume
  <2> QED
    BY <2>1, IdleFacts
<1> QED
  BY <1>1, <1>2

\* The worker is done with a visit.
LEMMA ResumePlace ==
  ASSUME Typed, job' = Resume, job.pc \in {"visit", "failed", "reserve", "write"}
  PROVE  /\ job' \in Jobs /\ job'.pc \in {"idle", "drain"} /\ job'.held = {} /\ job'.late = FALSE
         /\ job'.now <= today /\ (job'.pc = "idle" => ~job'.flush)
<1>0. job \in Jobs /\ today \in Nat /\ job.now <= today
  BY DayNumbers DEF Typed, Shape, InPlace, Days
<1>4. job.held = {} /\ ~job.late
  BY DEF Typed, InPlace
<1>1. job \in Jobs /\ job.held = {} /\ ~job.late /\ job.now <= today /\ today \in Nat
  BY <1>0, <1>4
<1>2. job.late = FALSE
  BY <1>1, JobParts
<1>3. 0 <= today
  BY <1>1
<1> QED
  BY <1>1, <1>2, <1>3, ResumeFacts

\* Counting one visit keeps the type.
LEMMA SeenOneMore ==
  ASSUME NEW f \in [Days -> Nat], NEW d \in Days
  PROVE  [f EXCEPT ![d] = @ + 1] \in [Days -> Nat]
  OBVIOUS

\* The initial state has its types.
LEMMA InitTyped == StatsInit => Typed
<1> SUFFICES ASSUME StatsInit PROVE Typed
  OBVIOUS
<1>1. /\ Idle \in Jobs /\ NoRedis \in RedisStates /\ NoRows \in RowStates /\ Sound(NoRedis)
      /\ Unseen \in [Days -> Nat] /\ 1 \in Days /\ <<>> \in Seq(Visits) /\ Len(<<>>) = 0
      /\ IsFiniteSet({}) /\ Cardinality({}) = 0 /\ QueueSize \in Nat
  BY IdleFacts, NothingTypes, DayNumbers, FS_EmptySet, Budgets DEF Unseen
<1>5. /\ today = 1 /\ closed = FALSE /\ queue = <<>> /\ gaps = {} /\ pending = {} /\ overflow = FALSE
      /\ ready = FALSE /\ known = FALSE /\ job = Idle /\ redis = NoRedis /\ image = NoRedis /\ sql = NoRows
      /\ faults = 0 /\ offered = 0 /\ seen = Unseen /\ covered = Unseen /\ anew = {}
  BY DEF StatsInit
<1>2. Shape
  <2>1. /\ today \in Days /\ closed \in BOOLEAN /\ overflow \in BOOLEAN /\ ready \in BOOLEAN /\ known \in BOOLEAN
        /\ gaps \in SUBSET Days /\ pending \in SUBSET Days /\ anew \in SUBSET Days
    BY <1>1, <1>5
  <2>2. /\ queue \in Seq(Visits) /\ Len(queue) <= QueueSize
        /\ Cardinality(gaps) <= QueueSize /\ Cardinality(pending) <= QueueSize
    BY <1>1, <1>5
  <2>3. /\ job \in Jobs /\ redis \in RedisStates /\ image \in RedisStates /\ sql \in RowStates
        /\ Sound(redis) /\ Sound(image) /\ faults \in Nat /\ offered \in Nat
        /\ seen \in [Days -> Nat] /\ covered \in [Days -> Nat]
    BY <1>1, <1>5
  <2> QED
    BY <2>1, <2>2, <2>3 DEF Shape
<1>3. sql.seq = 0 /\ sql.pv = 0 /\ DOMAIN sql.days = {}
  BY DEF StatsInit, NoRows, NoEntries
<1>4. InPlace
  BY <1>3, IdleFacts DEF StatsInit, InPlace, Restorable
<1> QED
  BY <1>2, <1>4 DEF Typed

\* A stutter keeps them.
LEMMA StutterTyped == ASSUME Typed, UNCHANGED statsVars PROVE Typed'
  BY DEF Typed, Shape, InPlace, Restorable, statsVars, memory, Sound

\* The rows and what the worker has in hand stay as they are.
LEMMA KeepPlace ==
  ASSUME InPlace, UNCHANGED <<job, sql>>, today' = today
  PROVE  InPlace'
  BY DEF InPlace, Restorable

\* A step of Record keeps the types.
LEMMA RecordTyped ==
  ASSUME Typed, NEW v \in Visitors, Record(v)
  PROVE  Typed'
<1>1. /\ today' = today /\ closed' = closed /\ offered' = offered + 1
      /\ UNCHANGED <<pending, ready, known, job, redis, image, sql, faults, covered, anew>>
  BY DEF Record
<1>2. CASE /\ Len(queue) < QueueSize /\ queue' = Append(queue, [day |-> today, who |-> {v}])
           /\ UNCHANGED seen /\ NoGap
  <2>1. queue' = Append(queue, [day |-> today, who |-> {v}]) /\ UNCHANGED <<seen, gaps, overflow, mishaps>>
    BY <1>2 DEF NoGap
  <2>2. [day |-> today, who |-> {v}] \in Visits /\ queue \in Seq(Visits)
    BY DEF Typed, Shape, Visits
  <2>3. queue' \in Seq(Visits) /\ Len(queue') = Len(queue) + 1 /\ Len(queue) \in Nat
    BY <2>1, <2>2
  <2>4. queue' \in Seq(Visits) /\ Len(queue') <= QueueSize
    BY <1>2, <2>3, Budgets
  <2>5. Shape'
    BY <1>1, <2>1, <2>4 DEF Typed, Shape, Sound
  <2>6. InPlace'
    BY <1>1, <2>1, KeepPlace DEF Typed, InPlace
  <2> QED
    BY <2>5, <2>6 DEF Typed
<1>3. CASE noteGap(today) /\ seen' = [seen EXCEPT ![today] = @ + 1] /\ queue' = queue
  <2>1. noteGap(today) /\ seen' = [seen EXCEPT ![today] = @ + 1] /\ queue' = queue
    BY <1>3
  <2>2. /\ gaps' \in SUBSET Days /\ Cardinality(gaps') <= QueueSize /\ overflow' \in BOOLEAN
    BY <2>1, NoteGapFacts DEF Typed, Shape, InPlace
  <2>3. seen' \in [Days -> Nat]
    BY <2>1, SeenOneMore DEF Typed, Shape
  <2>5. Shape'
    BY <1>1, <2>1, <2>2, <2>3 DEF Typed, Shape, Sound
  <2>6. InPlace'
    BY <1>1, <2>2, KeepPlace DEF Typed
  <2> QED
    BY <2>5, <2>6 DEF Typed
<1> QED
  BY <1>2, <1>3 DEF Record

\* A step of Close keeps the types.
LEMMA CloseTyped == ASSUME Typed, Close PROVE Typed'
<1>1. closed' = TRUE /\ UNCHANGED <<today, memory, redis, image, sql, faults, offered, seen, covered, mishaps, anew>>
  BY DEF Close
<1>2. Shape'
  BY <1>1 DEF Typed, Shape, Sound, memory
<1>3. InPlace'
  BY <1>1, KeepPlace DEF Typed, InPlace, memory
<1> QED
  BY <1>2, <1>3 DEF Typed

\* A step of TakeEvent keeps the types.
LEMMA TakeEventTyped ==
  ASSUME Typed, TakeEvent, anew' \in SUBSET Days
  PROVE  Typed'
<1>1. /\ queue # <<>>
      /\ job.pc = "idle" \/ (job.pc = "drain" /\ job.left > 0)
      /\ job' = [job EXCEPT !.pc = "visit", !.visit = Head(queue), !.left = IF job.flush THEN @ - 1 ELSE 0]
      /\ queue' = Tail(queue) /\ known' = TRUE
      /\ UNCHANGED <<today, closed, gaps, pending, overflow, ready, redis, image, sql, faults, offered,
                     seen, covered, mishaps>>
  BY DEF TakeEvent
<1>2. job \in Jobs /\ queue \in Seq(Visits) /\ Len(queue) <= QueueSize
  BY DEF Typed, Shape
<1>3. /\ queue' \in Seq(Visits) /\ Len(queue') = Len(queue) - 1 /\ Len(queue) \in Nat /\ Len(queue') \in Nat
      /\ Head(queue) \in Visits
  BY <1>1, <1>2, HeadTailProperties, LenProperties
<1> DEFINE v == Head(queue)
<1>4. v.day \in Days /\ v \in [day : 0..MaxDay, who : SUBSET Visitors]
  <2> HIDE DEF v
  <2>1. v \in Visits
    BY <1>3 DEF v
  <2>2. Days \subseteq 0..MaxDay
    BY DayNumbers
  <2> QED
    BY <2>1, <2>2 DEF Visits
<1>5. (IF job.flush THEN job.left - 1 ELSE 0) \in Nat
  BY <1>1, <1>2, JobParts DEF Typed, InPlace
<1>6. /\ job' \in Jobs /\ job'.pc = "visit" /\ job'.visit = Head(queue) /\ job'.held = job.held
      /\ job'.late = job.late /\ job'.now = job.now /\ job'.snap = job.snap
  BY <1>1, <1>2, <1>4, <1>5 DEF Jobs
<1>7. Len(queue') <= QueueSize
  BY <1>2, <1>3, Budgets
<1>8. Shape'
  BY <1>1, <1>3, <1>6, <1>7 DEF Typed, Shape, Sound
<1>9. InPlace'
  BY <1>1, <1>4, <1>6 DEF Typed, InPlace, Restorable
<1> QED
  BY <1>8, <1>9 DEF Typed

\* A visit is settled as a gap.
LEMMA SettledTyped ==
  ASSUME Typed, job.pc \in {"visit", "failed", "reserve", "write"},
         job' = Resume, seen' = Settle, noteGap(job.visit.day)
  PROVE  /\ gaps' \in SUBSET Days /\ Cardinality(gaps') <= QueueSize /\ overflow' \in BOOLEAN
         /\ job' \in Jobs /\ seen' \in [Days -> Nat]
<1>1. job.visit.day \in Days
  BY DEF Typed, InPlace
<1> QED
  BY <1>1, NoteGapFacts, ResumePlace, SeenOneMore DEF Typed, Shape, InPlace, Settle

\* The worker is done with a visit: what it has in hand then.
LEMMA DoneWithVisit ==
  ASSUME Typed, job' = Resume, job.pc \in {"visit", "failed", "reserve", "write"}, UNCHANGED <<today, sql>>
  PROVE  InPlace'
<1>1. /\ job' \in Jobs /\ job'.pc \in {"idle", "drain"} /\ job'.held = {} /\ job'.late = FALSE
      /\ job'.now <= today /\ (job'.pc = "idle" => ~job'.flush)
  BY ResumePlace
<1> QED
  BY <1>1 DEF Typed, InPlace, Restorable

\* A step of ExpireVisit keeps the types.
LEMMA ExpireTyped ==
  ASSUME Typed, ExpireVisit \/ ProcessFails, anew' \in SUBSET Days
  PROVE  Typed'
<1>1. /\ job.pc \in {"visit", "failed"} /\ job' = Resume /\ seen' = Settle /\ noteGap(job.visit.day)
      /\ UNCHANGED <<today, closed, queue, pending, ready, known, redis, image, sql, faults, offered, covered>>
  BY DEF ExpireVisit, ProcessFails
<1>2. /\ gaps' \in SUBSET Days /\ Cardinality(gaps') <= QueueSize /\ overflow' \in BOOLEAN
      /\ job' \in Jobs /\ seen' \in [Days -> Nat]
  BY <1>1, SettledTyped
<1>3. Shape'
  BY <1>1, <1>2 DEF Typed, Shape, Sound
<1>4. InPlace'
  BY <1>1, <1>2, DoneWithVisit
<1> QED
  BY <1>3, <1>4 DEF Typed

\* ready is a truth value.
LEMMA ReadyType ==
  ASSUME Shape, ready' = ready \/ ready' = TRUE \/ ready' = FALSE
  PROVE  ready' \in BOOLEAN
  BY Zenon DEF Shape

\* Faults are counted.
LEMMA FaultsType ==
  ASSUME Shape, faults' = faults \/ faults' = faults + 1
  PROVE  faults' \in Nat
  BY DEF Shape

\* What is restored is whole and sound.
LEMMA RestoredSound ==
  ASSUME Typed, NEW at \in Days
  PROVE  Restored(at) \in RedisStates /\ Sound(Restored(at))
<1>1. /\ redis \in RedisStates /\ sql \in RowStates /\ today \in Days /\ Restorable
  BY DEF Typed, Shape, InPlace
<1>2. /\ Restored(at) \in RedisStates /\ Restored(at).ack = sql.seq
      /\ Restored(at).seq = IF Recovered THEN sql.seq + 1 ELSE sql.seq
  BY <1>1, RestoredFacts
<1>3. sql.seq \in Nat
  BY <1>1, RowParts
<1> QED
  BY <1>2, <1>3 DEF Sound

\* What ensure leaves in Redis is whole and sound.
LEMMA EnsuredFacts ==
  ASSUME Typed, NEW at \in Days
  PROVE  Ensured(at) \in RedisStates /\ Sound(Ensured(at))
<1>1. /\ redis \in RedisStates /\ sql \in RowStates /\ today \in Days /\ Restorable /\ Sound(redis)
  BY DEF Typed, Shape, InPlace
<1>2. CASE Keeps
  <2>1. Merged \in RedisStates /\ Merged.kind = redis.kind /\ Merged.seq = redis.seq /\ Merged.ack = redis.ack
    BY <1>1, MergedFacts
  <2> QED
    BY <1>1, <1>2, <2>1 DEF Ensured, Sound
<1>3. CASE ~Keeps
  BY <1>3, RestoredSound DEF Ensured
<1> QED
  BY <1>2, <1>3

\* ensure keeps the types of Redis and of the visits counted.
LEMMA EnsureFacts ==
  ASSUME Typed, NEW at \in Days, ensure(at) \/ Misread(at) \/ UNCHANGED <<redis, seen>>
  PROVE  redis' \in RedisStates /\ Sound(redis') /\ seen' \in [Days -> Nat]
<1>1. redis \in RedisStates /\ Sound(redis) /\ seen \in [Days -> Nat] /\ Unseen \in [Days -> Nat]
  BY DEF Typed, Shape, Unseen
<1>2. CASE ensure(at)
  <2>1. redis' = Ensured(at) /\ seen' \in {seen, Unseen}
    BY <1>2 DEF ensure
  <2> QED
    BY <1>1, <2>1, EnsuredFacts
<1>3. CASE UNCHANGED <<redis, seen>>
  BY <1>1, <1>3
<1>4. CASE Misread(at)
  <2>1. redis' = Restored(at) /\ seen' = seen
    BY <1>4 DEF Misread
  <2> QED
    BY <1>1, <2>1, RestoredSound
<1> QED
  BY <1>2, <1>3, <1>4

\* A step of ProcessEnsure keeps the types.
LEMMA ProcessEnsureTyped ==
  ASSUME Typed, ProcessEnsure, anew' \in SUBSET Days
  PROVE  Typed'
<1>1. /\ job.pc = "visit" /\ UNCHANGED <<gaps, overflow>>
      /\ UNCHANGED <<today, closed, queue, pending, known, image, sql, offered, covered>>
      /\ (ready' = ready \/ ready' = TRUE) /\ (faults' = faults \/ faults' = faults + 1)
      /\ ensure(job.visit.day) \/ Misread(job.visit.day) \/ UNCHANGED <<redis, seen>>
      /\ job' = [job EXCEPT !.pc = "reserve"] \/ job' = [job EXCEPT !.pc = "failed"]
  BY DEF ProcessEnsure, EnsureFails, Misread, Fault
<1>2. job.visit.day \in Days /\ job \in Jobs
  BY <1>1 DEF Typed, Shape, InPlace
<1>3. redis' \in RedisStates /\ Sound(redis') /\ seen' \in [Days -> Nat]
  BY <1>1, <1>2, EnsureFacts
<1>4. /\ job' \in Jobs /\ job'.pc \in {"reserve", "failed"} /\ job'.visit = job.visit /\ job'.held = job.held
      /\ job'.late = job.late /\ job'.now = job.now
  BY <1>1, <1>2 DEF Jobs
<1>5. ready' \in BOOLEAN /\ faults' \in Nat
  BY <1>1, ReadyType, FaultsType DEF Typed
<1>6. Shape'
  BY <1>1, <1>3, <1>4, <1>5 DEF Typed, Shape
<1>7. InPlace'
  BY <1>1, <1>4 DEF Typed, InPlace, Restorable
<1> QED
  BY <1>6, <1>7 DEF Typed

\* A step of VisitReserve keeps the types.
LEMMA VisitReserveTyped ==
  ASSUME Typed, VisitReserve, anew' \in SUBSET Days
  PROVE  Typed'
<1>1. /\ job.pc = "reserve" /\ redis' \in {redis, Reserved}
      /\ UNCHANGED <<today, closed, queue, pending, known, image, sql, offered, covered>>
      /\ (faults' = faults \/ faults' = faults + 1)
  BY DEF VisitReserve, Fault
<1>2. job \in Jobs /\ redis \in RedisStates /\ Sound(redis) /\ job.visit.day \in Days
  BY <1>1 DEF Typed, Shape, InPlace
<1>3. redis' \in RedisStates /\ Sound(redis')
  <2>1. redis.ack \in Nat /\ redis.seq \in Nat
    BY <1>2, RedisParts
  <2> QED
    BY <1>1, <1>2, <2>1, ReservedFacts DEF Sound
<1>4. CASE WriteUnknown
  <2>1. ready' = FALSE /\ job' = Resume /\ seen' = Settle /\ noteGap(job.visit.day)
    BY <1>4 DEF WriteUnknown
  <2>2. /\ gaps' \in SUBSET Days /\ Cardinality(gaps') <= QueueSize /\ overflow' \in BOOLEAN
    BY <1>1, <2>1, SettledTyped
  <2>3. job' \in Jobs /\ seen' \in [Days -> Nat]
    BY <1>1, <2>1, SettledTyped
  <2>4. ready' \in BOOLEAN /\ faults' \in Nat
    BY <1>1, <2>1, ReadyType, FaultsType DEF Typed
  <2>5. Shape'
    BY <1>1, <1>3, <2>2, <2>3, <2>4 DEF Typed, Shape
  <2>6. InPlace'
    BY <1>1, <2>1, <2>2, DoneWithVisit
  <2> QED
    BY <2>5, <2>6 DEF Typed
<1>5. CASE ~WriteUnknown
  <2> DEFINE f == job.visit.day \notin DOMAIN redis.days /\ job.visit.day \in DOMAIN redis.hll
  <2>1. /\ job' = [job EXCEPT !.pc = "write", !.seq = redis.seq + 1, !.fresh = f]
        /\ UNCHANGED <<ready, seen, gaps, overflow, mishaps>>
    BY <1>5 DEF VisitReserve, NoGap
  <2>2. f \in BOOLEAN /\ redis.seq + 1 \in Nat
    BY <1>2, RedisParts
  <2> HIDE DEF f
  <2>3. /\ job' \in Jobs /\ job'.pc = "write" /\ job'.visit = job.visit /\ job'.held = job.held
        /\ job'.late = job.late /\ job'.now = job.now
    BY <1>2, <2>1, <2>2 DEF Jobs
  <2>4. faults' \in Nat
    BY <1>1, FaultsType DEF Typed
  <2>5. Shape'
    BY <1>1, <1>3, <2>1, <2>3, <2>4 DEF Typed, Shape
  <2>6. InPlace'
    BY <1>1, <2>1, <2>3 DEF Typed, InPlace, Restorable
  <2> QED
    BY <2>5, <2>6 DEF Typed
<1> QED
  BY <1>4, <1>5

\* What the transaction of a visit may leave in Redis.
LEMMA WrittenFacts ==
  ASSUME Typed, job.pc = "write",
         redis' \in {redis, Counted(job.visit, job.seq, job.fresh), CountedTwice(job.visit, job.seq, job.fresh)}
  PROVE  /\ redis' \in RedisStates /\ Sound(redis')
         /\ redis'.kind = "whole" <=> redis.kind = "whole"
<1>1. /\ redis \in RedisStates /\ Sound(redis) /\ job.visit.day \in Days /\ job.visit.who \subseteq Visitors
      /\ job.seq \in Nat /\ job.fresh \in BOOLEAN
  BY JobParts DEF Typed, Shape, InPlace
<1> DEFINE once == Counted(job.visit, job.seq, job.fresh)
           twice == CountedTwice(job.visit, job.seq, job.fresh)
<1>2. /\ once \in RedisStates /\ ((once.kind = "whole") <=> (redis.kind = "whole"))
      /\ once.seq = redis.seq /\ once.ack = redis.ack
  BY <1>1, CountedFacts
<1>3. twice \in RedisStates /\ twice.kind = once.kind /\ twice.seq = once.seq /\ twice.ack = once.ack
  BY <1>1, CountedTwiceFacts
<1> HIDE DEF once, twice
<1>4. redis' \in {redis, once, twice}
  BY DEF once, twice
<1> QED
  BY <1>1, <1>2, <1>3, <1>4 DEF Sound

\* A step of VisitWrite keeps the types.
LEMMA VisitWriteTyped ==
  ASSUME Typed, VisitWrite, anew' \in SUBSET Days
  PROVE  Typed'
<1>1. /\ job.pc = "write" /\ job' = Resume /\ seen' = Settle
      /\ UNCHANGED <<today, closed, queue, pending, known, image, sql, offered, covered>>
      /\ (faults' = faults \/ faults' = faults + 1) /\ (ready' = ready \/ ready' = FALSE)
      /\ redis' \in {redis, Counted(job.visit, job.seq, job.fresh), CountedTwice(job.visit, job.seq, job.fresh)}
      /\ \/ noteGap(job.visit.day)
         \/ gaps' = gaps /\ overflow' = overflow /\ mishaps \subseteq mishaps'
  BY DEF VisitWrite, WriteUnknown, Fault, NoGap, CountedTwice
<1>2. redis' \in RedisStates /\ Sound(redis')
  BY <1>1, WrittenFacts
<1>3. job.visit.day \in Days
  BY <1>1 DEF Typed, InPlace
<1>4. /\ gaps' \in SUBSET Days /\ Cardinality(gaps') <= QueueSize /\ overflow' \in BOOLEAN
  <2>1. CASE noteGap(job.visit.day)
    BY <1>3, <2>1, NoteGapFacts DEF Typed, Shape, InPlace
  <2>2. CASE gaps' = gaps /\ overflow' = overflow /\ mishaps \subseteq mishaps'
    BY <2>2 DEF Typed, Shape, InPlace
  <2> QED
    BY <1>1, <2>1, <2>2
<1>5. job' \in Jobs /\ seen' \in [Days -> Nat]
  BY <1>1, <1>3, ResumePlace, SeenOneMore DEF Typed, Shape, Settle
<1>8. ready' \in BOOLEAN /\ faults' \in Nat
  BY <1>1, ReadyType, FaultsType DEF Typed
<1>6. Shape'
  BY <1>1, <1>2, <1>4, <1>5, <1>8 DEF Typed, Shape
<1>7. InPlace'
  BY <1>1, <1>4, DoneWithVisit
<1> QED
  BY <1>6, <1>7 DEF Typed

\* A step of BeginFlush keeps the types.
LEMMA BeginFlushTyped == ASSUME Typed, BeginFlush PROVE Typed'
<1>1. /\ job.pc = "idle" /\ job' = [Idle EXCEPT !.pc = "drain", !.flush = TRUE, !.left = Len(queue)]
      /\ UNCHANGED <<today, closed, queue, gaps, pending, overflow, ready, known, redis, image, sql,
                     faults, offered, seen, covered, mishaps, anew>>
  BY DEF BeginFlush
<1>2. Len(queue) \in Nat /\ Idle \in Jobs /\ Idle.held = {} /\ Idle.late = FALSE /\ Idle.now = 0
  BY IdleFacts, LenProperties DEF Typed, Shape
<1>3. job' \in Jobs /\ job'.pc = "drain" /\ job'.held = {} /\ job'.late = FALSE /\ job'.now = 0
  BY <1>1, <1>2 DEF Jobs
<1>4. Shape'
  BY <1>1, <1>3 DEF Typed, Shape, Sound
<1>5. 0 <= today
  BY DayNumbers DEF Typed, Shape, Days
<1>6. InPlace'
  BY <1>1, <1>3, <1>5 DEF Typed, InPlace, Restorable
<1> QED
  BY <1>4, <1>6 DEF Typed

\* A step of SwapGaps keeps the types.
LEMMA SwapGapsTyped ==
  ASSUME Typed, SwapGaps, anew' \in SUBSET Days
  PROVE  Typed'
<1> DEFINE h == gaps \cup IF overflow /\ known THEN {today} ELSE {}
<1>1. /\ job.pc = "drain" /\ job' = [job EXCEPT !.pc = "marks", !.held = h]
      /\ gaps' = {} /\ overflow' = FALSE
      /\ UNCHANGED <<today, closed, queue, pending, ready, known, redis, image, sql, faults, offered,
                     seen, covered>>
  BY DEF SwapGaps
<1>2. h \in SUBSET Days /\ job \in Jobs /\ ~job.late
  BY <1>1 DEF Typed, Shape, InPlace
<1> HIDE DEF h
<1>3. job' \in Jobs /\ job'.pc = "marks" /\ job'.late = job.late /\ job'.now = job.now
  BY <1>1, <1>2 DEF Jobs
<1>4. {} \in SUBSET Days /\ Cardinality({}) = 0 /\ 0 <= QueueSize
  BY FS_EmptySet, Budgets
<1>5. Shape'
  BY <1>1, <1>3, <1>4 DEF Typed, Shape, Sound
<1>6. InPlace'
  BY <1>1, <1>2, <1>3 DEF Typed, InPlace, Restorable
<1> QED
  BY <1>5, <1>6 DEF Typed

\* A gap that could not be marked, back in the table.
LEMMA UnmarkedTyped ==
  ASSUME Typed, NEW d \in Days, Unmarked(d), ~job.late, UNCHANGED <<today, sql>>
  PROVE  /\ job' \in Jobs /\ ready' \in BOOLEAN
         /\ gaps' \in SUBSET Days /\ Cardinality(gaps') <= QueueSize /\ overflow' \in BOOLEAN
         /\ UNCHANGED <<pending, known>>
         /\ InPlace'
<1>1. /\ ready' = FALSE /\ noteGap(d) /\ UNCHANGED <<pending, known>>
      /\ job' = [job EXCEPT !.pc = "marks", !.held = @ \ {d}, !.visit = NoVisit, !.seq = 0]
  BY DEF Unmarked
<1>2. /\ gaps' \in SUBSET Days /\ Cardinality(gaps') <= QueueSize /\ overflow' \in BOOLEAN
  BY <1>1, NoteGapFacts DEF Typed, Shape, InPlace
<1>3. NoVisit \in [day : 0..MaxDay, who : SUBSET Visitors] /\ job \in Jobs
  BY DayNumbers DEF NoVisit, Typed, Shape
<1>4. job' \in Jobs /\ job'.pc = "marks" /\ job'.late = job.late /\ job'.now = job.now
  BY <1>1, <1>3 DEF Jobs
<1>5. InPlace'
  BY <1>2, <1>4 DEF Typed, InPlace, Restorable
<1> QED
  BY <1>1, <1>2, <1>4, <1>5

\* Flush is at its end.
LEMMA EndPlace ==
  ASSUME Typed, job' = EndFlush, UNCHANGED <<today, sql>>
  PROVE  job' \in Jobs /\ InPlace'
<1>1. 0 <= today
  BY DayNumbers DEF Typed, Shape, Days
<1>2. /\ EndFlush \in Jobs /\ EndFlush.pc = "cleanup" /\ EndFlush.held = {} /\ EndFlush.late = FALSE
      /\ EndFlush.now = 0
  BY IdleFacts
<1> QED
  BY <1>1, <1>2 DEF Typed, InPlace, Restorable

\* A step of MarkEnsure keeps the types.
LEMMA MarkEnsureTyped ==
  ASSUME Typed, NEW d \in Days, MarkEnsure(d), anew' \in SUBSET Days
  PROVE  Typed'
<1>1. /\ job.pc = "marks" /\ d \in job.held /\ (faults' = faults \/ faults' = faults + 1)
      /\ UNCHANGED <<today, closed, queue, image, sql, offered, covered>>
      /\ ensure(d) \/ Misread(d) \/ UNCHANGED <<redis, seen>>
      /\ \/ /\ ready' = TRUE /\ job' = [job EXCEPT !.pc = "markseq", !.visit.day = d]
            /\ UNCHANGED <<pending, known, gaps, overflow>>
         \/ Unmarked(d)
  BY DEF MarkEnsure, EnsureFails, Misread, Fault, NoGap
<1>2. job \in Jobs /\ ~job.late /\ d \in 0..MaxDay
  BY <1>1, DayNumbers DEF Typed, Shape, InPlace
<1>3. redis' \in RedisStates /\ Sound(redis') /\ seen' \in [Days -> Nat]
  BY <1>1, EnsureFacts
<1>4. faults' \in Nat
  BY <1>1, FaultsType DEF Typed
<1>5. CASE /\ ready' = TRUE /\ job' = [job EXCEPT !.pc = "markseq", !.visit.day = d]
           /\ UNCHANGED <<pending, known, gaps, overflow>>
  <2>1. /\ job' \in Jobs /\ job'.pc = "markseq" /\ job'.visit.day = d /\ job'.held = job.held
        /\ job'.late = job.late /\ job'.now = job.now
    BY <1>2, <1>5 DEF Jobs
  <2>2. Shape'
    BY <1>1, <1>3, <1>4, <1>5, <2>1 DEF Typed, Shape
  <2>3. InPlace'
    BY <1>1, <1>2, <1>5, <2>1 DEF Typed, InPlace, Restorable
  <2> QED
    BY <2>2, <2>3 DEF Typed
<1>6. CASE Unmarked(d)
  <2>1. /\ job' \in Jobs /\ ready' \in BOOLEAN
        /\ gaps' \in SUBSET Days /\ Cardinality(gaps') <= QueueSize /\ overflow' \in BOOLEAN
        /\ UNCHANGED <<pending, known>>
        /\ InPlace'
    BY <1>1, <1>2, <1>6, UnmarkedTyped
  <2>2. Shape'
    BY <1>1, <1>3, <1>4, <2>1 DEF Typed, Shape
  <2> QED
    BY <2>1, <2>2 DEF Typed
<1> QED
  BY <1>1, <1>5, <1>6

\* markQuality failed.
LEMMA MarkFailsTyped ==
  ASSUME Typed, MarkFails, job.pc \in {"markseq", "mark"}, UNCHANGED <<today, sql>>
  PROVE  /\ job' \in Jobs /\ ready' \in BOOLEAN
         /\ gaps' \in SUBSET Days /\ Cardinality(gaps') <= QueueSize /\ overflow' \in BOOLEAN
         /\ UNCHANGED <<pending, known>>
         /\ InPlace'
<1>1. CASE job.late
  <2>1. job' = EndFlush /\ UNCHANGED <<ready, pending, known, gaps, overflow, mishaps>>
    BY <1>1 DEF MarkFails, NoGap
  <2>3. job' \in Jobs /\ InPlace'
    BY <2>1, EndPlace
  <2> QED
    BY <2>1, <2>3 DEF Typed, Shape
<1>2. CASE ~job.late
  <2>1. Unmarked(job.visit.day) /\ job.visit.day \in Days
    BY <1>2 DEF MarkFails, Typed, InPlace
  <2> QED
    BY <1>2, <2>1, UnmarkedTyped
<1> QED
  BY <1>1, <1>2

\* A step of MarkReserve keeps the types.
LEMMA MarkReserveTyped ==
  ASSUME Typed, MarkReserve, anew' \in SUBSET Days
  PROVE  Typed'
<1>1. /\ job.pc = "markseq" /\ redis' \in {redis, Reserved} /\ (faults' = faults \/ faults' = faults + 1)
      /\ UNCHANGED <<today, closed, queue, image, sql, offered, seen, covered>>
      /\ \/ /\ job' = [job EXCEPT !.pc = "mark", !.seq = redis.seq + 1]
            /\ UNCHANGED <<ready, pending, known, gaps, overflow, mishaps>>
         \/ MarkFails
  BY DEF MarkReserve, Fault, NoGap
<1>2. job \in Jobs /\ redis \in RedisStates /\ Sound(redis)
  BY DEF Typed, Shape
<1>3. redis.ack \in Nat /\ redis.seq \in Nat /\ redis.seq + 1 \in Nat
  BY <1>2, RedisParts
<1>4. redis' \in RedisStates /\ Sound(redis')
  BY <1>1, <1>2, <1>3, ReservedFacts DEF Sound
<1>5. faults' \in Nat
  BY <1>1, FaultsType DEF Typed
<1>6. CASE /\ job' = [job EXCEPT !.pc = "mark", !.seq = redis.seq + 1]
           /\ UNCHANGED <<ready, pending, known, gaps, overflow, mishaps>>
  <2>1. /\ job' \in Jobs /\ job'.pc = "mark" /\ job'.visit = job.visit /\ job'.held = job.held
        /\ job'.late = job.late /\ job'.now = job.now
    BY <1>2, <1>3, <1>6 DEF Jobs
  <2>2. Shape'
    BY <1>1, <1>4, <1>5, <1>6, <2>1 DEF Typed, Shape
  <2>3. InPlace'
    BY <1>1, <1>6, <2>1 DEF Typed, InPlace, Restorable
  <2> QED
    BY <2>2, <2>3 DEF Typed
<1>7. CASE MarkFails
  <2>1. /\ job' \in Jobs /\ ready' \in BOOLEAN
        /\ gaps' \in SUBSET Days /\ Cardinality(gaps') <= QueueSize /\ overflow' \in BOOLEAN
        /\ UNCHANGED <<pending, known>>
        /\ InPlace'
    BY <1>1, <1>7, MarkFailsTyped
  <2>2. Shape'
    BY <1>1, <1>4, <1>5, <2>1 DEF Typed, Shape
  <2> QED
    BY <2>1, <2>2 DEF Typed
<1> QED
  BY <1>1, <1>6, <1>7

\* A mark that was made: what MarkWrite does to the memory.
LEMMA MarkedMemory ==
  ASSUME Typed, job.pc = "mark", job.visit.day \in Days, ~job.late,
         NEW full \in BOOLEAN, Cardinality(pending) >= QueueSize => full,
         pending' = IF full THEN pending ELSE pending \cup {job.visit.day},
         overflow' = (overflow \/ full),
         mishaps' = mishaps \cup IF job.visit.day \in pending' THEN {} ELSE {"spill"}
  PROVE  /\ pending' \in SUBSET Days /\ Cardinality(pending') <= QueueSize /\ overflow' \in BOOLEAN
         /\ "spill" \notin mishaps' => job.visit.day \in pending'
         /\ pending \subseteq pending'
<1>1. /\ IsFiniteSet(pending) /\ Cardinality(pending) \in Nat /\ QueueSize \in Nat
      /\ pending \in SUBSET Days /\ Cardinality(pending) <= QueueSize
  BY DayNumbers, FS_Subset, FS_CardinalityType, Budgets DEF Typed, Shape
<1>2. CASE ~full
  <2>1. pending' = pending \cup {job.visit.day} /\ Cardinality(pending) < QueueSize
    BY <1>1, <1>2
  <2>0. IsFiniteSet(pending') /\ Cardinality(pending') <= Cardinality(pending) + 1
    BY <1>1, <2>1, OneMore
  <2>2. Cardinality(pending') <= Cardinality(pending) + 1 /\ Cardinality(pending') \in Nat
    BY <2>0, FS_CardinalityType
  <2>3. Cardinality(pending') <= QueueSize
    BY <1>1, <2>1, <2>2
  <2> QED
    BY <1>1, <1>2, <2>1, <2>3 DEF Typed, Shape
<1>3. CASE full
  <2>1. pending' = pending /\ overflow' = TRUE
    BY <1>1, <1>3
  <2> QED
    BY <1>1, <2>1
<1> QED
  BY <1>2, <1>3

\* A step of MarkWrite keeps the types.
LEMMA MarkWriteTyped ==
  ASSUME Typed, MarkWrite, anew' \in SUBSET Days
  PROVE  Typed'
<1> DEFINE c == Marked(job.visit.day, job.seq)
           full == "pending" \in crowd \/ Cardinality(pending) >= QueueSize
<1>1. /\ job.pc = "mark" /\ redis' \in {redis, c} /\ (faults' = faults \/ faults' = faults + 1)
      /\ UNCHANGED <<today, closed, queue, image, sql, offered, seen, covered>>
  BY DEF MarkWrite, Fault
<1>2. job \in Jobs /\ redis \in RedisStates /\ Sound(redis) /\ job.visit.day \in Days /\ job.seq \in Nat
  BY <1>1, JobParts DEF Typed, Shape, InPlace
<1>3. redis' \in RedisStates /\ Sound(redis')
  <2>1. c \in RedisStates /\ (c.kind = "whole" <=> redis.kind = "whole") /\ c.seq = redis.seq /\ c.ack = redis.ack
    BY <1>2, MarkedFacts
  <2> HIDE DEF c
  <2> QED
    BY <1>1, <1>2, <2>1 DEF Sound
<1>4. faults' \in Nat
  BY <1>1, FaultsType DEF Typed
<1>5. CASE MarkFails
  <2>1. /\ job' \in Jobs /\ ready' \in BOOLEAN
        /\ gaps' \in SUBSET Days /\ Cardinality(gaps') <= QueueSize /\ overflow' \in BOOLEAN
        /\ UNCHANGED <<pending, known>>
        /\ InPlace'
    BY <1>1, <1>5, MarkFailsTyped
  <2>2. Shape'
    BY <1>1, <1>3, <1>4, <2>1 DEF Typed, Shape
  <2> QED
    BY <2>1, <2>2 DEF Typed
<1>6. CASE ~MarkFails
  <2>1. /\ ready' = ready /\ gaps' = gaps
        /\ job' = [job EXCEPT !.pc = IF job.late THEN "read" ELSE "marks", !.held = @ \ {job.visit.day},
                              !.visit = NoVisit, !.seq = 0]
        /\ IF job.late THEN UNCHANGED <<pending, known, overflow, mishaps>>
           ELSE /\ known' = TRUE
                /\ pending' = IF full THEN pending ELSE pending \cup {job.visit.day}
                /\ overflow' = (overflow \/ full)
                /\ mishaps' = mishaps \cup IF job.visit.day \in pending' THEN {} ELSE {"spill"}
    BY <1>6 DEF MarkWrite
  <2>2. NoVisit \in [day : 0..MaxDay, who : SUBSET Visitors]
    BY DayNumbers DEF NoVisit
  <2>3. /\ job' \in Jobs /\ job'.pc = (IF job.late THEN "read" ELSE "marks")
        /\ job'.late = job.late /\ job'.now = job.now /\ job'.held = job.held \ {job.visit.day}
    BY <1>2, <2>1, <2>2 DEF Jobs
  <2>4. /\ known' \in BOOLEAN /\ overflow' \in BOOLEAN
        /\ pending' \in SUBSET Days /\ Cardinality(pending') <= QueueSize
    <3>1. CASE job.late
      BY <2>1, <3>1 DEF Typed, Shape, InPlace
    <3>2. CASE ~job.late
      BY <1>1, <1>2, <2>1, <3>2, MarkedMemory
    <3> QED
      BY <3>1, <3>2
  <2>5. Shape'
    BY <1>1, <1>3, <1>4, <2>1, <2>3, <2>4 DEF Typed, Shape
  <2>6. InPlace'
    BY <1>1, <2>1, <2>3, <2>4 DEF Typed, InPlace, Restorable
  <2> QED
    BY <2>5, <2>6 DEF Typed
<1> QED
  BY <1>5, <1>6

\* A step of Scan keeps the types.
LEMMA ScanTyped ==
  ASSUME Typed, Scan, anew' \in SUBSET Days
  PROVE  Typed'
<1>1. /\ job.pc = "marks" /\ job.held = {}
      /\ job' = [job EXCEPT !.pc = "persist"] \/ job' = EndFlush \/ job' = Idle
      /\ (faults' = faults \/ faults' = faults + 1)
      /\ UNCHANGED <<today, closed, queue, gaps, pending, overflow, ready, known, redis, image, sql,
                     offered, seen, covered, mishaps>>
  BY DEF Scan, Fault
<1>2. faults' \in Nat
  BY <1>1, FaultsType DEF Typed
<1>3. 0 <= today /\ job \in Jobs
  BY DayNumbers DEF Typed, Shape, Days
<1>4. job' \in Jobs /\ InPlace'
  <2>1. CASE job' = [job EXCEPT !.pc = "persist"]
    <3>1. job' \in Jobs /\ job'.pc = "persist" /\ job'.held = job.held /\ job'.late = job.late /\ job'.now = job.now
      BY <1>3, <2>1 DEF Jobs
    <3> QED
      BY <1>1, <3>1 DEF Typed, InPlace, Restorable
  <2>2. CASE job' = EndFlush
    BY <1>1, <2>2, EndPlace DEF Typed, InPlace
  <2>3. CASE job' = Idle
    BY <1>1, <1>3, <2>3, IdleFacts DEF Typed, InPlace, Restorable
  <2> QED
    BY <1>1, <2>1, <2>2, <2>3
<1>5. Shape'
  BY <1>1, <1>2, <1>4 DEF Typed, Shape, Sound
<1> QED
  BY <1>4, <1>5 DEF Typed

\* A step of PersistEnsure keeps the types.
LEMMA PersistEnsureTyped ==
  ASSUME Typed, PersistEnsure, anew' \in SUBSET Days
  PROVE  Typed'
<1>1. /\ job.pc = "persist" /\ (ensure(today) \/ Misread(today) \/ UNCHANGED <<redis, seen>>)
      /\ ready' = ready \/ ready' = TRUE \/ ready' = FALSE
      /\ job' = [job EXCEPT !.pc = "read"] \/ job' = EndFlush
      /\ (faults' = faults \/ faults' = faults + 1)
      /\ UNCHANGED <<today, closed, queue, gaps, pending, overflow, known, image, sql, offered, covered>>
  BY Zenon DEF PersistEnsure, EnsureFails, Misread, Fault
<1>2. faults' \in Nat
  BY <1>1, FaultsType DEF Typed
<1>6. ready' \in BOOLEAN
  BY <1>1, ReadyType DEF Typed
<1>3. job \in Jobs /\ today \in Days
  BY DEF Typed, Shape
<1>7. redis' \in RedisStates /\ Sound(redis') /\ seen' \in [Days -> Nat]
  BY <1>1, <1>3, EnsureFacts
<1>4. job' \in Jobs /\ InPlace'
  <2>1. CASE job' = [job EXCEPT !.pc = "read"]
    <3>1. job' \in Jobs /\ job'.pc = "read" /\ job'.held = job.held /\ job'.late = job.late /\ job'.now = job.now
      BY <1>3, <2>1 DEF Jobs
    <3> QED
      BY <1>1, <3>1 DEF Typed, InPlace, Restorable
  <2>2. CASE job' = EndFlush
    BY <1>1, <2>2, EndPlace DEF Typed, InPlace
  <2> QED
    BY <1>1, <2>1, <2>2
<1>5. Shape'
  BY <1>1, <1>2, <1>4, <1>6, <1>7 DEF Typed, Shape
<1> QED
  BY <1>4, <1>5 DEF Typed

\* A step of ReadSnapshot keeps the types.
LEMMA ReadSnapshotTyped ==
  ASSUME Typed, ReadSnapshot, anew' \in SUBSET Days
  PROVE  Typed'
<1>1. /\ job.pc = "read" /\ (faults' = faults \/ faults' = faults + 1)
      /\ UNCHANGED <<today, closed, queue, pending, known, redis, image, sql, offered, seen, covered>>
  BY DEF ReadSnapshot, Fault
<1>2. faults' \in Nat
  BY <1>1, FaultsType DEF Typed
<1>3. /\ job \in Jobs /\ today \in Days /\ today \in 0..MaxDay /\ redis \in RedisStates /\ seen \in [Days -> Nat]
      /\ job.held = {} /\ today <= today /\ (job.late => job.pc = "read")
  BY <1>1, DayNumbers DEF Typed, Shape, InPlace, Days
<1>4. CASE /\ Readable /\ UNCHANGED <<ready, gaps, overflow, mishaps>> /\ ~job.late
           /\ job' = [job EXCEPT !.pc = "markseq", !.late = TRUE, !.visit.day = today]
  <2>1. /\ job' \in Jobs /\ job'.pc = "markseq" /\ job'.late = TRUE /\ job'.visit.day = today
        /\ job'.held = job.held /\ job'.now = job.now
    BY <1>3, <1>4 DEF Jobs
  <2>2. Shape'
    BY <1>1, <1>2, <1>4, <2>1 DEF Typed, Shape, Sound
  <2>3. InPlace'
    BY <1>1, <1>3, <1>4, <2>1 DEF Typed, InPlace, Restorable
  <2> QED
    BY <2>2, <2>3 DEF Typed
<1>5. CASE /\ Readable /\ UNCHANGED <<ready, gaps, overflow, mishaps>>
           /\ job' = [job EXCEPT !.pc = IF redis.seq > redis.ack THEN "commit" ELSE "ack",
                                 !.snap = redis, !.now = today, !.seen = seen]
  <2>1. /\ job' \in Jobs /\ job'.pc \in {"commit", "ack"} /\ job'.late = job.late
        /\ job'.held = job.held /\ job'.now = today /\ job'.snap = redis
    BY <1>3, <1>5 DEF Jobs
  <2>2. Shape'
    BY <1>1, <1>2, <1>5, <2>1 DEF Typed, Shape, Sound
  <2>3. redis.ack <= redis.seq /\ {All} \cup DOMAIN redis.days \subseteq DOMAIN redis.hll
    BY <1>5 DEF Readable
  <2>4. InPlace'
    BY <1>1, <1>3, <1>5, <2>1, <2>3 DEF Typed, InPlace, Restorable
  <2> QED
    BY <2>2, <2>4 DEF Typed
<1>6. CASE /\ job' = EndFlush
           /\ IF job.late THEN UNCHANGED ready /\ NoGap ELSE ready' = FALSE /\ noteGap(today)
  <2>1. ready' \in BOOLEAN
    BY <1>6, ReadyType DEF Typed
  <2>2. /\ gaps' \in SUBSET Days /\ Cardinality(gaps') <= QueueSize /\ overflow' \in BOOLEAN
    <3>1. CASE job.late
      BY <1>6, <3>1 DEF NoGap, Typed, Shape, InPlace
    <3>2. CASE ~job.late
      BY <1>3, <1>6, <3>2, NoteGapFacts DEF Typed, Shape, InPlace
    <3> QED
      BY <3>1, <3>2
  <2>3. job' \in Jobs /\ InPlace'
    BY <1>1, <1>6, <2>2, EndPlace
  <2>4. Shape'
    BY <1>1, <1>2, <2>1, <2>2, <2>3 DEF Typed, Shape, Sound
  <2> QED
    BY <2>3, <2>4 DEF Typed
<1> QED
  BY <1>4, <1>5, <1>6 DEF ReadSnapshot, NoGap

\* What Commit does to the rows.
LEMMA CommitRows ==
  ASSUME Typed, Commit
  PROVE  /\ job.pc = "commit" /\ (faults' = faults \/ faults' = faults + 1)
         /\ UNCHANGED <<today, closed, queue, gaps, overflow, ready, known, redis, image, offered, seen, mishaps>>
         /\ \/ /\ job' = [job EXCEPT !.pc = "ack"] /\ pending' = {}
               /\ sql.seq >= job.snap.seq => UNCHANGED <<sql, covered>>
            \/ job' = EndFlush /\ UNCHANGED pending
         /\ \/ UNCHANGED <<sql, covered>>
            \/ /\ sql' = Rows(job.snap, job.now) /\ covered' = job.seen /\ sql.seq < job.snap.seq
               /\ ~StatsRegress(Rows(job.snap, job.now))
         /\ job' = [job EXCEPT !.pc = "ack"] => sql.seq >= job.snap.seq \/ sql' = Rows(job.snap, job.now)
<1> DEFINE new == Rows(job.snap, job.now)
<1>1. job.pc = "commit" /\ (faults' = faults \/ faults' = faults + 1)
  BY DEF Commit, Fault
<1>2. UNCHANGED <<today, closed, queue, gaps, overflow, ready, known, redis, image, offered, seen, mishaps>>
  BY DEF Commit
<1>3. new.seq = job.snap.seq
  BY DEF Rows
<1>4. job.snap.seq \in Nat /\ sql.seq \in Nat
  BY JobParts, RedisParts, RowParts DEF Typed, Shape
<1> HIDE DEF new
<1>5. PersistWebProjectStats(new) => \/ UNCHANGED <<sql, covered>> /\ sql.seq >= job.snap.seq
                                     \/ sql' = new /\ covered' = job.seen /\ sql.seq < job.snap.seq
  BY <1>3, <1>4 DEF PersistWebProjectStats
<1>6. PersistWebProjectStats(new) => (sql.seq >= job.snap.seq => UNCHANGED <<sql, covered>>)
  BY <1>3 DEF PersistWebProjectStats
<1>7. \/ /\ PersistWebProjectStats(new) /\ ~(sql.seq < job.snap.seq /\ StatsRegress(new))
         /\ job' = [job EXCEPT !.pc = "ack"] /\ pending' = {}
      \/ /\ job' = EndFlush /\ UNCHANGED pending
         /\ \/ UNCHANGED <<sql, covered>>
            \/ PersistWebProjectStats(new) /\ ~(sql.seq < job.snap.seq /\ StatsRegress(new))
  BY <1>3 DEF Commit, new
<1>8. \/ /\ job' = [job EXCEPT !.pc = "ack"] /\ pending' = {}
         /\ sql.seq >= job.snap.seq => UNCHANGED <<sql, covered>>
      \/ job' = EndFlush /\ UNCHANGED pending
  BY <1>6, <1>7
<1>9. \/ UNCHANGED <<sql, covered>>
      \/ /\ sql' = new /\ covered' = job.seen /\ sql.seq < job.snap.seq
         /\ ~StatsRegress(new)
  BY <1>5, <1>7
<1>10. job' = [job EXCEPT !.pc = "ack"] => sql.seq >= job.snap.seq \/ sql' = new
  <2>1. job' = [job EXCEPT !.pc = "ack"] => job'.pc = "ack"
    BY JobParts DEF Typed, Shape, Jobs
  <2>2. EndFlush.pc = "cleanup"
    BY IdleFacts
  <2> QED
    BY <1>5, <1>7, <2>1, <2>2
<1> QED
  BY <1>1, <1>2, <1>8, <1>9, <1>10 DEF new

\* A step of Commit keeps the types.
LEMMA CommitTyped ==
  ASSUME Typed, Commit, anew' \in SUBSET Days
  PROVE  Typed'
<1>1. /\ job.pc = "commit" /\ (faults' = faults \/ faults' = faults + 1)
      /\ UNCHANGED <<today, closed, queue, gaps, overflow, ready, known, redis, image, offered, seen, mishaps>>
      /\ \/ job' = [job EXCEPT !.pc = "ack"] /\ pending' = {}
         \/ job' = EndFlush /\ UNCHANGED pending
      /\ \/ UNCHANGED <<sql, covered>>
         \/ sql' = Rows(job.snap, job.now) /\ covered' = job.seen /\ sql.seq < job.snap.seq
  BY CommitRows
<1>2. faults' \in Nat
  BY <1>1, FaultsType DEF Typed
<1>3. /\ job \in Jobs /\ today \in Days /\ sql \in RowStates /\ job.held = {} /\ job.now \in Days
      /\ job.snap \in RedisStates /\ {All} \cup DOMAIN job.snap.days \subseteq DOMAIN job.snap.hll
      /\ job.seen \in [Days -> Nat] /\ job.snap.seq \in Nat /\ sql.seq \in Nat
  BY <1>1, JobParts, RedisParts, RowParts DEF Typed, Shape, InPlace
<1>4. /\ sql' \in RowStates /\ covered' \in [Days -> Nat] /\ Restorable'
      /\ sql'.seq = 0 => sql'.pv = 0 /\ DOMAIN sql'.days = {}
  <2>1. CASE UNCHANGED <<sql, covered>>
    BY <2>1 DEF Typed, Shape, InPlace, Restorable
  <2>2. CASE sql' = Rows(job.snap, job.now) /\ covered' = job.seen /\ sql.seq < job.snap.seq
    <3>1. sql' \in RowStates /\ sql'.seq = job.snap.seq /\ sql'.persisted = job.now
      BY <1>3, <2>2, RowsFacts
    <3>2. sql'.seq > 0
      BY <1>3, <2>2, <3>1
    <3> QED
      BY <1>3, <2>2, <3>1, <3>2 DEF Restorable
  <2> QED
    BY <1>1, <2>1, <2>2
<1>5. pending' \in SUBSET Days /\ Cardinality(pending') <= QueueSize
  <2>1. Cardinality({}) = 0 /\ 0 <= QueueSize
    BY FS_EmptySet, Budgets
  <2>2. CASE pending' = {}
    BY <2>1, <2>2
  <2>3. CASE UNCHANGED pending
    BY <2>3 DEF Typed, Shape
  <2> QED
    BY <1>1, <2>2, <2>3
<1>6. CASE job' = [job EXCEPT !.pc = "ack"]
  <2>1. /\ job' \in Jobs /\ job'.pc = "ack" /\ job'.late = job.late /\ job'.held = job.held
        /\ job'.now = job.now /\ job'.snap = job.snap
    BY <1>3, <1>6 DEF Jobs
  <2>2. Shape'
    BY <1>1, <1>2, <1>4, <1>5, <2>1 DEF Typed, Shape, Sound
  <2>3. InPlace'
    BY <1>1, <1>4, <2>1 DEF Typed, InPlace
  <2> QED
    BY <2>2, <2>3 DEF Typed
<1>7. CASE job' = EndFlush
  <2>1. /\ job' \in Jobs /\ job'.pc = "cleanup" /\ job'.late = FALSE /\ job'.held = {} /\ job'.now = 0
    BY <1>7, IdleFacts
  <2>2. Shape'
    BY <1>1, <1>2, <1>4, <1>5, <2>1 DEF Typed, Shape, Sound
  <2>3. 0 <= today
    BY <1>3, DayNumbers DEF Days
  <2>4. InPlace'
    BY <1>1, <1>4, <2>1, <2>3 DEF Typed, InPlace
  <2> QED
    BY <2>2, <2>4 DEF Typed
<1> QED
  BY <1>1, <1>6, <1>7

\* A step of Acknowledge keeps the types.
LEMMA AcknowledgeTyped ==
  ASSUME Typed, Acknowledge, anew' \in SUBSET Days
  PROVE  Typed'
<1> DEFINE c == Acknowledged(job.snap.seq, job.now + 1 - HotDays)
<1>1. /\ job.pc = "ack" /\ job' = EndFlush /\ (faults' = faults \/ faults' = faults + 1)
      /\ redis' = redis \/ (redis' = c /\ redis.kind = "whole" /\ redis.seq >= job.snap.seq)
      /\ UNCHANGED <<today, closed, queue, gaps, pending, overflow, ready, known, image, sql,
                     offered, seen, covered, mishaps>>
  BY DEF Acknowledge, Fault
<1>2. faults' \in Nat
  BY <1>1, FaultsType DEF Typed
<1>3. /\ redis \in RedisStates /\ Sound(redis) /\ job.snap.seq \in Nat /\ job.now + 1 - HotDays \in Int
      /\ redis.ack \in Nat /\ redis.seq \in Nat
  BY JobParts, RedisParts, Budgets DEF Typed, Shape
<1>4. redis' \in RedisStates /\ Sound(redis')
  <2>1. c \in RedisStates /\ c.kind = redis.kind /\ c.seq = redis.seq /\ c.ack = Larger(job.snap.seq, redis.ack)
    BY <1>3, AcknowledgedFacts
  <2> HIDE DEF c
  <2> QED
    BY <1>1, <1>3, <2>1 DEF Sound, Larger
<1>6. job' \in Jobs /\ InPlace'
  BY <1>1, EndPlace
<1>7. Shape'
  BY <1>1, <1>2, <1>4, <1>6 DEF Typed, Shape
<1> QED
  BY <1>6, <1>7 DEF Typed

\* What Cleanup leaves of the rows.
LEMMA CleanupRows ==
  ASSUME Typed, Cleanup
  PROVE  /\ sql' \in RowStates /\ sql'.pv = sql.pv /\ sql'.uv = sql.uv /\ sql'.seq = sql.seq
         /\ sql'.quality = sql.quality /\ sql'.persisted = sql.persisted /\ sql'.started = sql.started
         /\ DOMAIN sql'.days \subseteq DOMAIN sql.days
         /\ \A d \in DOMAIN sql.days : d >= lower => d \in DOMAIN sql'.days
         /\ \A d \in DOMAIN sql'.days : sql'.days[d] = sql.days[d]
<1>0. sql \in RowStates /\ DOMAIN sql.days \subseteq Days /\ \A d \in DOMAIN sql.days : sql.days[d] \in RowField
  BY RowParts DEF Typed, Shape
<1>1. CASE sql' = sql
  BY <1>0, <1>1
<1>2. CASE sql' = [sql EXCEPT !.days = Restrict(@, {d \in DOMAIN @ : d >= lower})]
  <2> DEFINE S == {d \in DOMAIN sql.days : d >= lower}
             days == Restrict(sql.days, S)
  <2>1. DOMAIN days = S /\ days = [d \in DOMAIN days |-> days[d]] /\ (\A d \in S : days[d] = sql.days[d])
        /\ S \subseteq DOMAIN sql.days
    BY DEF Restrict
  <2>2. sql' = [sql EXCEPT !.days = days] /\ \A d \in DOMAIN sql.days : d >= lower => d \in S
    BY <1>2
  <2> HIDE DEF S, days
  <2>3. DOMAIN days \subseteq Days /\ \A d \in DOMAIN days : days[d] \in RowField
    BY <1>0, <2>1
  <2>4. days \in Partly(Days, RowField)
    BY <2>1, <2>3, PartlyMade
  <2>5. /\ sql' \in RowStates /\ sql'.pv = sql.pv /\ sql'.uv = sql.uv /\ sql'.seq = sql.seq
        /\ sql'.quality = sql.quality /\ sql'.persisted = sql.persisted /\ sql'.started = sql.started
        /\ sql'.days = days
    BY <1>0, <2>2, <2>4 DEF RowStates
  <2> QED
    BY <2>1, <2>2, <2>5
<1> QED
  BY <1>1, <1>2 DEF Cleanup

\* A step of Cleanup keeps the types.
LEMMA CleanupTyped ==
  ASSUME Typed, Cleanup, anew' \in SUBSET Days
  PROVE  Typed'
<1>1. /\ job.pc = "cleanup" /\ job' = Idle /\ (faults' = faults \/ faults' = faults + 1)
      /\ UNCHANGED <<today, closed, queue, gaps, pending, overflow, ready, known, redis, image,
                     offered, seen, covered, mishaps>>
  BY DEF Cleanup, Fault
<1>2. faults' \in Nat
  BY <1>1, FaultsType DEF Typed
<1>3. /\ sql' \in RowStates /\ sql'.pv = sql.pv /\ sql'.seq = sql.seq /\ sql'.persisted = sql.persisted
      /\ DOMAIN sql'.days \subseteq DOMAIN sql.days
  BY CleanupRows
<1>4. 0 <= today
  BY DayNumbers DEF Typed, Shape, Days
<1>5. Shape'
  BY <1>1, <1>2, <1>3, IdleFacts DEF Typed, Shape, Sound
<1>6. Restorable' /\ (sql'.seq = 0 => sql'.pv = 0 /\ DOMAIN sql'.days = {})
  BY <1>3 DEF Typed, InPlace, Restorable
<1>7. InPlace'
  BY <1>1, <1>4, <1>6, IdleFacts DEF Typed, InPlace
<1> QED
  BY <1>5, <1>7 DEF Typed

\* A step of Midnight keeps the types.
LEMMA MidnightTyped == ASSUME Typed, Midnight PROVE Typed'
<1>1. /\ today < MaxDay /\ today' = today + 1
      /\ UNCHANGED <<closed, memory, redis, image, sql, faults, offered, seen, covered, mishaps, anew>>
  BY DEF Midnight
<1>2. today' \in Days /\ today <= today' /\ today \in Int /\ today' \in Int
  BY <1>1, DayNumbers DEF Typed, Shape, Days
<1>3. Shape'
  BY <1>1, <1>2 DEF Typed, Shape, Sound, memory
<1>4. job.now \in Int
  BY JobParts, DayNumbers DEF Typed, Shape
<1>5. InPlace'
  BY <1>1, <1>2, <1>4 DEF Typed, InPlace, Restorable, memory
<1> QED
  BY <1>3, <1>5 DEF Typed

\* A step of LoseKeys keeps the types.
LEMMA LoseKeysTyped == ASSUME Typed, LoseKeys PROVE Typed'
<1>1. /\ mishaps' = mishaps \cup {"loss"} /\ (faults' = faults \/ faults' = faults + 1)
      /\ UNCHANGED <<today, closed, memory, image, sql, offered, seen, covered, anew>>
  BY DEF LoseKeys, Fault
<1>2. redis' \in RedisStates /\ Sound(redis')
  BY LostFacts DEF Typed, Shape, Sound
<1>3. faults' \in Nat
  BY <1>1, FaultsType DEF Typed
<1>4. Shape'
  BY <1>1, <1>2, <1>3 DEF Typed, Shape, memory
<1>5. InPlace'
  BY <1>1 DEF Typed, InPlace, Restorable, memory
<1> QED
  BY <1>4, <1>5 DEF Typed

\* A step of SaveImage or Rewind keeps the types.
LEMMA ImageTyped == ASSUME Typed, SaveImage \/ Rewind PROVE Typed'
<1>1. /\ (faults' = faults \/ faults' = faults + 1) /\ mishaps \subseteq mishaps'
      /\ redis' \in {redis, image} /\ image' \in {redis, image}
      /\ UNCHANGED <<today, closed, memory, sql, offered, seen, covered, anew>>
  BY DEF SaveImage, Rewind, Fault
<1>2. redis' \in RedisStates /\ Sound(redis') /\ image' \in RedisStates /\ Sound(image')
  BY <1>1 DEF Typed, Shape, Sound
<1>3. faults' \in Nat
  BY <1>1, FaultsType DEF Typed
<1>4. Shape'
  BY <1>1, <1>2, <1>3 DEF Typed, Shape, memory
<1>5. InPlace'
  BY <1>1 DEF Typed, InPlace, Restorable, memory
<1> QED
  BY <1>4, <1>5 DEF Typed

\* A step of Crowd keeps the types.
LEMMA CrowdTyped == ASSUME Typed, Crowd PROVE Typed'
<1>1. /\ faults' = faults + 1 /\ overflow' \in {overflow, overflow \/ crowd' \cap {"gaps", "pending"} # {}}
      /\ UNCHANGED <<today, closed, queue, gaps, pending, ready, known, job, redis, image, sql, offered,
                     seen, covered, mishaps, anew>>
  BY DEF Crowd, Fault
<1>2. overflow' \in BOOLEAN
  BY <1>1 DEF Typed, Shape
<1>3. Shape'
  BY <1>1, <1>2, FaultsType DEF Typed, Shape, Sound
<1>4. InPlace'
  BY <1>1, KeepPlace DEF Typed
<1> QED
  BY <1>3, <1>4 DEF Typed

\* A step of Crash keeps the types.
LEMMA CrashTyped == ASSUME Typed, Crash PROVE Typed'
<1>1. /\ (faults' = faults \/ faults' = faults + 1)
      /\ queue' = <<>> /\ gaps' = {} /\ pending' = {} /\ overflow' = FALSE
      /\ ready' = FALSE /\ known' = FALSE /\ job' = Idle /\ closed' = FALSE
      /\ UNCHANGED <<today, redis, image, sql, offered, seen, covered, anew>>
  BY DEF Crash, Fault
<1>2. faults' \in Nat
  BY <1>1, FaultsType DEF Typed
<1>3. /\ queue' \in Seq(Visits) /\ Len(queue') = 0 /\ {} \in SUBSET Days /\ Cardinality({}) = 0 /\ 0 <= QueueSize
  BY <1>1, FS_EmptySet, Budgets
<1>4. job' \in Jobs
  BY <1>1, IdleFacts
<1>5. ready' \in BOOLEAN /\ known' \in BOOLEAN /\ closed' \in BOOLEAN /\ overflow' \in BOOLEAN
  BY <1>1
<1>6. Shape'
  BY <1>1, <1>2, <1>3, <1>4, <1>5 DEF Typed, Shape, Sound
<1>7. 0 <= today
  BY DayNumbers DEF Typed, Shape, Days
<1>8. InPlace'
  BY <1>1, <1>7, IdleFacts DEF Typed, InPlace, Restorable
<1> QED
  BY <1>6, <1>8 DEF Typed

\* What the worker may do, one action at a time.
LEMMA StepTyped == ASSUME Typed, [StatsNext]_statsVars PROVE Typed'
<1>1. CASE Work
  <2>1. anew' \in SUBSET Days
    <3>1. DOMAIN sql.days \subseteq Days /\ anew \in SUBSET Days
      BY RowParts DEF Typed, Shape
    <3> QED
      BY <1>1, <3>1 DEF Work, BeginsAnew
  <2> QED
    BY <1>1, <2>1, TakeEventTyped, ExpireTyped, ProcessEnsureTyped, VisitReserveTyped, VisitWriteTyped,
       SwapGapsTyped, MarkEnsureTyped, MarkReserveTyped, MarkWriteTyped, ScanTyped, PersistEnsureTyped,
       ReadSnapshotTyped, CommitTyped, AcknowledgeTyped, CleanupTyped DEF Work
<1>2. CASE \E v \in Visitors : Record(v)
  BY <1>2, RecordTyped
<1>3. CASE Close \/ BeginFlush \/ Midnight \/ Crowd \/ LoseKeys \/ SaveImage \/ Rewind \/ Crash
  BY <1>3, CloseTyped, BeginFlushTyped, MidnightTyped, CrowdTyped, LoseKeysTyped, ImageTyped, CrashTyped
<1>4. CASE UNCHANGED statsVars
  BY <1>4, StutterTyped
<1> QED
  BY <1>1, <1>2, <1>3, <1>4 DEF StatsNext

\* The types hold.
LEMMA StatsTyped == StatsSpec => []Typed
<1>1. Typed /\ [StatsNext]_statsVars => Typed'
  BY StepTyped
<1> QED
  BY <1>1, InitTyped, PTL DEF StatsSpec

\* What the worker leaves alone.
LEMMA WorkKeeps ==
  ASSUME Work
  PROVE  /\ UNCHANGED <<today, closed, image, offered>>
         /\ ~Commit /\ ~Cleanup => UNCHANGED sql
         /\ ~Commit => UNCHANGED covered /\ (pending \subseteq pending')
         /\ ~SwapGaps /\ ~Cleanup => UNCHANGED crowd
<1>1. CASE TakeEvent \/ ExpireVisit \/ ProcessEnsure \/ ProcessFails
  BY <1>1 DEF TakeEvent, ExpireVisit, ProcessEnsure, ProcessFails
<1>2. CASE VisitReserve \/ VisitWrite \/ SwapGaps \/ MarkReserve
  <2>1. MarkReserve => (pending \subseteq pending')
    BY DEF MarkReserve, MarkFails, Unmarked
  <2> QED
    BY <1>2, <2>1 DEF VisitReserve, VisitWrite, SwapGaps, MarkReserve
<1>3. CASE \E d \in Days : MarkEnsure(d)
  BY <1>3 DEF MarkEnsure, Unmarked
<1>4. CASE MarkWrite
  <2>1. pending \subseteq pending'
    BY <1>4 DEF MarkWrite, MarkFails, Unmarked
  <2> QED
    BY <1>4, <2>1 DEF MarkWrite
<1>5. CASE Scan \/ PersistEnsure \/ ReadSnapshot
  BY <1>5 DEF Scan, PersistEnsure, ReadSnapshot
<1>6. CASE Commit \/ Acknowledge \/ Cleanup
  BY <1>6 DEF Commit, Acknowledge, Cleanup
<1> QED
  BY <1>1, <1>2, <1>3, <1>4, <1>5, <1>6 DEF Work

\* Other projects crowd the queue and the tables of gaps, nothing else.
Crowding == crowd \subseteq Shared

LEMMA CrowdingStays == ASSUME Crowding, [StatsNext]_statsVars PROVE Crowding'
<1>1. CASE UNCHANGED crowd
  BY <1>1 DEF Crowding
<1>2. CASE SwapGaps \/ Cleanup \/ Crowd \/ Crash
  BY <1>2 DEF SwapGaps, Cleanup, Crowd, Crash, Crowding, Shared
<1>3. CASE Work /\ ~SwapGaps /\ ~Cleanup
  <2>1. UNCHANGED crowd
    BY <1>3, WorkKeeps
  <2> QED
    BY <1>1, <2>1
<1>4. CASE ~Work /\ ~Crowd /\ ~Crash
  <2>1. UNCHANGED crowd
    BY <1>4 DEF StatsNext, Record, Close, BeginFlush, Midnight, LoseKeys, SaveImage, Rewind, statsVars, memory
  <2> QED
    BY <1>1, <2>1
<1> QED
  BY <1>2, <1>3, <1>4

\* They imply the type invariant that is checked.
LEMMA TypedTypes == ASSUME Typed, Crowding PROVE StatsTypes
<1>1. /\ queue \in Seq(Visits) /\ redis \in RedisStates /\ sql \in RowStates
  BY DEF Typed, Shape
<1>2. \A i \in DOMAIN queue : queue[i].day \in Days
  <2>1. ASSUME NEW i \in DOMAIN queue PROVE queue[i].day \in Days
    <3>1. queue[i] \in Visits
      BY <1>1, <2>1, ElementOfSeq, LenProperties
    <3> QED
      BY <3>1 DEF Visits
  <2> QED
    BY <2>1
<1>3. redis.days \in Partly(Days, Field) /\ DOMAIN redis.hll \subseteq Days \cup {All}
  BY <1>1, RedisParts
<1>4. DOMAIN redis.days \subseteq Days /\ \A d \in DOMAIN redis.days : redis.days[d] \in Field
  BY <1>3, PartlyFacts
<1>5. DOMAIN sql.days \subseteq Days
  BY <1>1, RowParts
<1> QED
  BY <1>2, <1>3, <1>4, <1>5 DEF Typed, Shape, Sound, Crowding, StatsTypes

\* StatsTypes: the types, and the bounds of the queue and of the gap table.
THEOREM StatsTypesTheorem == StatsSpec => []StatsTypes
<1>1. Typed /\ Crowding => StatsTypes
  BY TypedTypes
<1>2. StatsInit => Crowding
  BY DEF StatsInit, Crowding
<1>3. Crowding /\ [StatsNext]_statsVars => Crowding'
  BY CrowdingStays
<1> QED
  BY <1>1, <1>2, <1>3, StatsTyped, PTL DEF StatsSpec

-----------------------------------------------------------------------------
(* Nothing committed goes down *)

NoLess ==
  /\ sql'.seq >= sql.seq /\ sql'.pv >= sql.pv /\ Cardinality(sql'.uv) >= Cardinality(sql.uv)
  /\ \A d \in DOMAIN sql.days \cap DOMAIN sql'.days :
       /\ sql'.days[d].pv >= sql.days[d].pv
       /\ Cardinality(sql'.days[d].uv) >= Cardinality(sql.days[d].uv)

\* How many visitors there are is a number.
LEMMA VisitorsCount ==
  ASSUME NEW s \in RowStates
  PROVE  /\ Cardinality(s.uv) \in Nat /\ \A d \in DOMAIN s.days : Cardinality(s.days[d].uv) \in Nat
<1>1. s.uv \subseteq Visitors /\ \A d \in DOMAIN s.days : s.days[d].uv \subseteq Visitors
  BY RowParts
<1>2. \A u \in SUBSET Visitors : Cardinality(u) \in Nat
  BY Budgets, FS_Subset, FS_CardinalityType
<1> QED
  BY <1>1, <1>2

\* The rows stay, or none of their counts goes down.
LEMMA RowsKeptOrMore ==
  ASSUME Typed, [StatsNext]_statsVars
  PROVE  sql' = sql \/ NoLess
<1>1. sql \in RowStates /\ sql.seq \in Nat /\ sql.pv \in Nat /\ \A d \in DOMAIN sql.days : sql.days[d].pv \in Nat
  BY RowParts DEF Typed, Shape
<1>2. Cardinality(sql.uv) \in Nat /\ \A d \in DOMAIN sql.days : Cardinality(sql.days[d].uv) \in Nat
  BY <1>1, VisitorsCount
<1>3. CASE Commit
  <2> DEFINE new == Rows(job.snap, job.now)
  <2>1. sql' = sql \/ (sql' = new /\ sql.seq < job.snap.seq /\ ~StatsRegress(new))
    BY <1>3, CommitRows
  <2>2. CASE sql' = new /\ sql.seq < job.snap.seq /\ ~StatsRegress(new)
    <3>1. /\ job.snap \in RedisStates /\ job.now \in Days
          /\ {All} \cup DOMAIN job.snap.days \subseteq DOMAIN job.snap.hll /\ job.snap.seq \in Nat
      BY <1>3, CommitRows, JobParts, RedisParts DEF Typed, Shape, InPlace
    <3>2. sql' \in RowStates /\ sql'.seq = job.snap.seq /\ DOMAIN sql.days \subseteq DOMAIN sql'.days
      BY <1>1, <2>2, <3>1, RowsFacts
    <3>3. sql'.pv \in Nat /\ \A d \in DOMAIN sql'.days : sql'.days[d].pv \in Nat
      BY <3>2, RowParts
    <3>4. Cardinality(sql'.uv) \in Nat /\ \A d \in DOMAIN sql'.days : Cardinality(sql'.days[d].uv) \in Nat
      BY <3>2, VisitorsCount
    <3>5. /\ ~(sql'.pv < sql.pv) /\ ~(Cardinality(sql'.uv) < Cardinality(sql.uv))
          /\ \A d \in DOMAIN sql.days : /\ ~(sql'.days[d].pv < sql.days[d].pv)
                                        /\ ~(Cardinality(sql'.days[d].uv) < Cardinality(sql.days[d].uv))
      BY <2>2 DEF StatsRegress
    <3>6. sql'.seq >= sql.seq
      BY <1>1, <2>2, <3>1, <3>2
    <3>7. sql'.pv >= sql.pv /\ Cardinality(sql'.uv) >= Cardinality(sql.uv)
      BY <1>1, <1>2, <3>3, <3>4, <3>5
    <3>8. ASSUME NEW d \in DOMAIN sql.days \cap DOMAIN sql'.days
          PROVE  /\ sql'.days[d].pv >= sql.days[d].pv
                 /\ Cardinality(sql'.days[d].uv) >= Cardinality(sql.days[d].uv)
      BY <1>1, <1>2, <3>3, <3>4, <3>5
    <3> QED
      BY <3>6, <3>7, <3>8 DEF NoLess
  <2> QED
    BY <2>1, <2>2
<1>4. CASE Cleanup
  <2>1. /\ sql'.pv = sql.pv /\ sql'.uv = sql.uv /\ sql'.seq = sql.seq
        /\ \A d \in DOMAIN sql'.days : sql'.days[d] = sql.days[d]
    BY <1>4, CleanupRows
  <2> QED
    BY <1>1, <1>2, <2>1 DEF NoLess
<1>5. CASE ~Commit /\ ~Cleanup
  <2>1. CASE Work
    BY <1>5, <2>1, WorkKeeps
  <2>2. CASE ~Work
    BY <2>2 DEF StatsNext, Record, Close, BeginFlush, Midnight, Crowd, LoseKeys, SaveImage, Rewind, Crash, statsVars
  <2> QED
    BY <2>1, <2>2
<1> QED
  BY <1>3, <1>4, <1>5

\* NeverDecreases: the sequence number and the committed counts only grow, whatever Redis loses or
\* brings back; Cleanup only drops whole days.
THEOREM NeverDecreasesTheorem == StatsSpec => NeverDecreases
<1>1. Typed /\ [StatsNext]_statsVars => [NoLess]_sql
  BY RowsKeptOrMore
<1>2. StatsSpec => [][NoLess]_sql
  BY <1>1, StatsTyped, PTL DEF StatsSpec
<1> QED
  BY <1>2 DEF NeverDecreases, NoLess

-----------------------------------------------------------------------------
(* No more visits are counted than were offered *)

\* What ensure leaves in Redis counts what Redis or the rows counted.
LEMMA EnsuredCount ==
  ASSUME Typed, NEW at \in Days, ensure(at) \/ Misread(at) \/ UNCHANGED <<redis, seen>>
  PROVE  redis'.pv \in {redis.pv, sql.pv}
<1>1. /\ redis \in RedisStates /\ sql \in RowStates /\ today \in Days /\ Restorable
  BY DEF Typed, Shape, InPlace
<1>2. Merged.pv = redis.pv /\ Restored(at).pv = sql.pv
  BY <1>1, MergedFacts, RestoredFacts
<1> QED
  BY <1>2 DEF ensure, Ensured, Misread

\* Where the counts of a step come from.
CountsFrom ==
  /\ redis'.pv \in {redis.pv, sql.pv, image.pv, 0} \/ VisitWrite
  /\ image'.pv \in {image.pv, redis.pv}
  /\ job'.snap.pv \in {job.snap.pv, redis.pv, 0}
  /\ sql'.pv \in {sql.pv, job.snap.pv}

\* Where the snapshot in hand comes from.
LEMMA JobSnap ==
  ASSUME Typed, [StatsNext]_statsVars
  PROVE  job'.snap \in {job.snap, redis, NoRedis}
<1>1. job \in Jobs
  BY DEF Typed, Shape
<1>2. Idle.snap = NoRedis /\ EndFlush.snap = NoRedis /\ Resume.snap \in {job.snap, NoRedis}
  BY <1>1, IdleFacts, ResumeFacts
<1>3. ASSUME NEW d \in Days, Unmarked(d) PROVE job'.snap = job.snap
  BY <1>1, <1>3 DEF Unmarked, Jobs
<1>4. ASSUME MarkFails PROVE job'.snap \in {job.snap, NoRedis}
  BY <1>1, <1>2, <1>4 DEF MarkFails, Unmarked, Jobs
<1>5. CASE Work
  <2>1. CASE TakeEvent
    BY <1>1, <2>1 DEF TakeEvent, Jobs
  <2>2. CASE ExpireVisit \/ ProcessFails \/ VisitWrite
    BY <1>2, <2>2 DEF ExpireVisit, ProcessFails, VisitWrite, WriteUnknown
  <2>3. CASE ProcessEnsure
    BY <1>1, <2>3 DEF ProcessEnsure, Jobs
  <2>4. CASE VisitReserve
    BY <1>1, <1>2, <2>4 DEF VisitReserve, WriteUnknown, Jobs
  <2>5. CASE SwapGaps
    BY <1>1, <2>5 DEF SwapGaps, Jobs
  <2>6. CASE \E d \in Days : MarkEnsure(d)
    BY <1>1, <1>3, <2>6 DEF MarkEnsure, Jobs
  <2>7. CASE MarkReserve
    BY <1>1, <1>4, <2>7 DEF MarkReserve, Jobs
  <2>8. CASE MarkWrite
    BY <1>1, <1>4, <2>8 DEF MarkWrite, Jobs
  <2>9. CASE Scan
    BY <1>1, <1>2, <2>9 DEF Scan, Jobs
  <2>10. CASE PersistEnsure
    BY <1>1, <1>2, <2>10 DEF PersistEnsure, Jobs
  <2>11. CASE ReadSnapshot
    BY <1>1, <1>2, <2>11 DEF ReadSnapshot, Jobs
  <2>12. CASE Commit
    <3>1. job' = [job EXCEPT !.pc = "ack"] \/ job' = EndFlush
      BY <2>12, CommitRows
    <3> QED
      BY <1>1, <1>2, <3>1 DEF Jobs
  <2>13. CASE Acknowledge \/ Cleanup
    BY <1>2, <2>13 DEF Acknowledge, Cleanup
  <2> QED
    BY <1>5, <2>1, <2>2, <2>3, <2>4, <2>5, <2>6, <2>7, <2>8, <2>9, <2>10, <2>11, <2>12, <2>13 DEF Work
<1>6. CASE ~Work
  <2>1. CASE BeginFlush
    <3>1. Idle \in Jobs
      BY IdleFacts
    <3> QED
      BY <1>2, <2>1, <3>1 DEF BeginFlush, Jobs
  <2>2. CASE Crash
    BY <1>2, <2>2 DEF Crash
  <2>3. CASE ~BeginFlush /\ ~Crash
    BY <1>6, <2>3 DEF StatsNext, Record, Close, Midnight, Crowd, LoseKeys, SaveImage, Rewind, statsVars, memory
  <2> QED
    BY <2>1, <2>2, <2>3
<1> QED
  BY <1>5, <1>6

\* Where the totals of a step come from.
LEMMA CountSources ==
  ASSUME Typed, [StatsNext]_statsVars
  PROVE  CountsFrom
<1>1. NoRedis.pv = 0
  BY DEF NoRedis
<1>2. job'.snap.pv \in {job.snap.pv, redis.pv, 0}
  BY <1>1, JobSnap
<1>3. sql'.pv \in {sql.pv, job.snap.pv}
  <2>1. CASE Commit
    <3>1. UNCHANGED <<sql, covered>> \/ sql' = Rows(job.snap, job.now)
      BY <2>1, CommitRows
    <3>2. Rows(job.snap, job.now).pv = job.snap.pv
      BY DEF Rows
    <3> QED
      BY <3>1, <3>2
  <2>2. CASE Cleanup
    BY <2>2, CleanupRows
  <2>3. CASE ~Commit /\ ~Cleanup
    <3>1. CASE Work
      BY <2>3, <3>1, WorkKeeps
    <3>2. CASE ~Work
      BY <3>2 DEF StatsNext, Record, Close, BeginFlush, Midnight, Crowd, LoseKeys, SaveImage, Rewind, Crash, statsVars
    <3> QED
      BY <3>1, <3>2
  <2> QED
    BY <2>1, <2>2, <2>3
<1>4. image'.pv \in {image.pv, redis.pv}
  <2>1. CASE Work
    BY <2>1, WorkKeeps
  <2>2. CASE ~Work
    BY <2>2 DEF StatsNext, Record, Close, BeginFlush, Midnight, Crowd, LoseKeys, SaveImage, Rewind, Crash, statsVars
  <2> QED
    BY <2>1, <2>2
<1>5. redis'.pv \in {redis.pv, sql.pv, image.pv, 0} \/ VisitWrite
  <2>0. redis \in RedisStates /\ today \in Days /\ job \in Jobs
    BY DEF Typed, Shape
  <2>1. CASE ProcessEnsure
    <3>1. job.visit.day \in Days /\ (ensure(job.visit.day) \/ Misread(job.visit.day) \/ UNCHANGED <<redis, seen>>)
      BY <2>1 DEF ProcessEnsure, EnsureFails, Typed, InPlace
    <3> QED
      BY <3>1, EnsuredCount
  <2>2. CASE \E d \in Days : MarkEnsure(d)
    <3>1. \E d \in Days : ensure(d) \/ Misread(d) \/ UNCHANGED <<redis, seen>>
      BY <2>2 DEF MarkEnsure, EnsureFails
    <3> QED
      BY <3>1, EnsuredCount
  <2>3. CASE PersistEnsure
    <3>1. ensure(today) \/ Misread(today) \/ UNCHANGED <<redis, seen>>
      BY <2>3 DEF PersistEnsure, EnsureFails
    <3> QED
      BY <2>0, <3>1, EnsuredCount
  <2>4. CASE VisitReserve \/ MarkReserve
    BY <2>0, <2>4, ReservedFacts DEF VisitReserve, MarkReserve
  <2>5. CASE MarkWrite
    <3>1. redis' \in {redis, Marked(job.visit.day, job.seq)}
      BY <2>5 DEF MarkWrite
    <3>2. job.visit.day \in Days /\ job.seq \in Nat
      BY <2>0, <2>5, JobParts DEF MarkWrite, Typed, InPlace
    <3> QED
      BY <2>0, <3>1, <3>2, MarkedFacts
  <2>6. CASE Acknowledge
    <3>1. redis' \in {redis, Acknowledged(job.snap.seq, job.now + 1 - HotDays)}
      BY <2>6 DEF Acknowledge
    <3>2. job.snap.seq \in Nat /\ job.now + 1 - HotDays \in Int
      BY <2>0, JobParts, RedisParts, Budgets
    <3> QED
      BY <2>0, <3>1, <3>2, AcknowledgedFacts
  <2>7. CASE LoseKeys
    BY <2>0, <2>7, LostFacts
  <2>8. CASE Rewind
    BY <2>8 DEF Rewind
  <2>9. CASE ~LoseKeys /\ ~Rewind /\ ~Work
    BY <2>9 DEF StatsNext, Record, Close, BeginFlush, Midnight, Crowd, SaveImage, Crash, statsVars
  <2>10. CASE TakeEvent \/ ExpireVisit \/ ProcessFails \/ SwapGaps \/ Scan \/ ReadSnapshot \/ Commit \/ Cleanup
    BY <2>10 DEF TakeEvent, ExpireVisit, ProcessFails, SwapGaps, Scan, ReadSnapshot, Commit, Cleanup
  <2> QED
    BY <2>1, <2>2, <2>3, <2>4, <2>5, <2>6, <2>7, <2>8, <2>9, <2>10 DEF Work
<1> QED
  BY <1>2, <1>3, <1>4, <1>5 DEF CountsFrom

\* A fault that happened has happened for good.
LEMMA MishapsGrow ==
  ASSUME [StatsNext]_statsVars
  PROVE  mishaps \subseteq mishaps'
<1>0. ASSUME NEW d, noteGap(d) PROVE mishaps \subseteq mishaps'
  BY <1>0 DEF noteGap
<1>1. CASE Work
  <2>1. CASE ExpireVisit \/ ProcessFails \/ ProcessEnsure \/ VisitReserve \/ VisitWrite
    BY <1>0, <2>1 DEF ExpireVisit, ProcessFails, ProcessEnsure, Misread, VisitReserve, VisitWrite, WriteUnknown, NoGap
  <2>2. CASE (\E d \in Days : MarkEnsure(d)) \/ MarkReserve
    BY <1>0, <2>2 DEF MarkEnsure, Misread, MarkReserve, MarkFails, Unmarked, NoGap
  <2>5. CASE MarkWrite
    <3>1. MarkFails => mishaps \subseteq mishaps'
      BY <1>0 DEF MarkFails, Unmarked, NoGap
    <3> QED
      BY <2>5, <3>1 DEF MarkWrite
  <2>3. CASE ReadSnapshot
    BY <1>0, <2>3 DEF ReadSnapshot, NoGap
  <2>4. CASE TakeEvent \/ SwapGaps \/ Scan \/ PersistEnsure \/ Commit \/ Acknowledge \/ Cleanup
    BY <2>4 DEF TakeEvent, SwapGaps, Scan, PersistEnsure, Misread, Commit, Acknowledge, Cleanup
  <2> QED
    BY <1>1, <2>1, <2>2, <2>3, <2>4, <2>5 DEF Work
<1>2. CASE \E v \in Visitors : Record(v)
  BY <1>0, <1>2 DEF Record, NoGap
<1>3. CASE Close \/ BeginFlush \/ Midnight \/ Crowd \/ LoseKeys \/ SaveImage \/ Rewind \/ Crash
  BY <1>3 DEF Close, BeginFlush, Midnight, Crowd, LoseKeys, SaveImage, Rewind, Crash
<1>4. CASE UNCHANGED statsVars
  BY <1>4 DEF statsVars
<1> QED
  BY <1>1, <1>2, <1>3, <1>4 DEF StatsNext

\* The visits that are through are counted.
LEMMA ThroughType ==
  ASSUME Typed
  PROVE  Through \in Int /\ Len(queue) \in Nat /\ offered \in Nat /\ InHand \in {0, 1} /\ Through <= offered
  BY LenProperties DEF Typed, Shape, Through, InHand

\* A visit is through when the worker is done with it, or when it finds no place in the queue.
LEMMA ThroughGrows ==
  ASSUME Typed, [StatsNext]_statsVars
  PROVE  Through' >= Through /\ (VisitWrite => Through' = Through + 1)
<1>1. Through \in Int /\ Len(queue) \in Nat /\ offered \in Nat /\ InHand \in {0, 1}
  BY ThroughType
<1>2. job \in Jobs /\ queue \in Seq(Visits)
  BY DEF Typed, Shape
<1>3. Idle.pc = "idle" /\ EndFlush.pc = "cleanup"
  BY IdleFacts
<1>4. CASE VisitWrite \/ ExpireVisit \/ ProcessFails
  <2>1. job.pc \in {"visit", "failed", "write"} /\ job' = Resume /\ UNCHANGED <<queue, offered>>
    BY <1>4 DEF VisitWrite, WriteUnknown, ExpireVisit, ProcessFails
  <2>2. job'.pc \in {"idle", "drain"}
    BY <2>1, ResumePlace
  <2>3. InHand = 1 /\ InHand' = 0
    BY <2>1, <2>2 DEF InHand
  <2>4. Len(queue') = Len(queue) /\ offered' = offered
    BY <2>1
  <2> QED
    BY <1>1, <2>3, <2>4 DEF Through
<1>5. CASE VisitReserve
  <2>1. /\ job.pc = "reserve" /\ UNCHANGED <<queue, offered>>
        /\ job' = Resume \/ job' = [job EXCEPT !.pc = "write", !.seq = redis.seq + 1,
                                 !.fresh = job.visit.day \notin DOMAIN redis.days /\ job.visit.day \in DOMAIN redis.hll]
    BY <1>5 DEF VisitReserve, WriteUnknown
  <2>2. InHand = 1 /\ InHand' \in {0, 1}
    BY <2>1 DEF InHand
  <2>3. Len(queue') = Len(queue) /\ offered' = offered /\ ~VisitWrite
    BY <2>1 DEF VisitWrite
  <2> QED
    BY <1>1, <2>2, <2>3 DEF Through
<1>6. CASE TakeEvent
  <2>1. /\ queue # <<>> /\ job.pc \in {"idle", "drain"} /\ queue' = Tail(queue) /\ offered' = offered
        /\ job' = [job EXCEPT !.pc = "visit", !.visit = Head(queue), !.left = IF job.flush THEN @ - 1 ELSE 0]
    BY <1>6 DEF TakeEvent
  <2>2. Len(queue') = Len(queue) - 1
    BY <1>2, <2>1, HeadTailProperties
  <2>3. job'.pc = "visit"
    BY <1>2, <2>1 DEF Jobs
  <2>4. InHand = 0 /\ InHand' = 1 /\ ~VisitWrite
    BY <2>1, <2>3 DEF InHand, VisitWrite
  <2> QED
    BY <1>1, <2>1, <2>2, <2>4 DEF Through
<1>7. CASE ProcessEnsure
  <2>1. /\ job.pc = "visit" /\ UNCHANGED <<queue, offered>>
        /\ job' = [job EXCEPT !.pc = "reserve"] \/ job' = [job EXCEPT !.pc = "failed"]
    BY <1>7 DEF ProcessEnsure
  <2>2. InHand = 1 /\ InHand' = 1 /\ ~VisitWrite
    BY <1>2, <2>1 DEF InHand, Jobs, VisitWrite
  <2>3. Len(queue') = Len(queue) /\ offered' = offered
    BY <2>1
  <2> QED
    BY <1>1, <2>2, <2>3 DEF Through
<1>8. CASE \E v \in Visitors : Record(v)
  <2>1. PICK v \in Visitors : Record(v)
    BY <1>8
  <2>2. /\ offered' = offered + 1 /\ job' = job
        /\ queue' = Append(queue, [day |-> today, who |-> {v}]) \/ queue' = queue
    BY <2>1 DEF Record
  <2>3. Len(queue') = Len(queue) + 1 \/ Len(queue') = Len(queue)
    <3> DEFINE e == [day |-> today, who |-> {v}]
    <3>1. e \in Visits
      BY DEF Typed, Shape, Visits
    <3>2. queue' = Append(queue, e) \/ queue' = queue
      BY <2>2
    <3> HIDE DEF e
    <3>3. Len(Append(queue, e)) = Len(queue) + 1
      BY <1>2, <3>1, AppendProperties
    <3> QED
      BY <3>2, <3>3
  <2>4. InHand' = InHand /\ ~VisitWrite
    <3>1. VisitWrite => job' = Resume /\ job.pc = "write"
      BY DEF VisitWrite, WriteUnknown
    <3>2. job' = Resume => job'.pc \in {"idle", "drain"}
      BY <1>2, ResumeFacts
    <3> QED
      BY <2>2, <3>1, <3>2 DEF InHand
  <2> QED
    BY <1>1, <2>2, <2>3, <2>4 DEF Through
<1>9. CASE Crash
  <2>1. queue' = <<>> /\ job' = Idle /\ offered' = offered /\ queue' = <<>>
    BY <1>9 DEF Crash
  <2>2. InHand' = 0 /\ Len(queue') = 0
    <3>1. job'.pc = "idle" /\ Len(<<>>) = 0
      BY <1>3, <2>1
    <3>2. Len(queue') = 0
      BY <2>1, <3>1
    <3> QED
      BY <3>1, <3>2 DEF InHand
  <2>3. ~VisitWrite
    <3> SUFFICES ASSUME VisitWrite PROVE FALSE
      OBVIOUS
    <3>1. job.visit.day \in Days /\ seen \in [Days -> Nat]
      BY DEF VisitWrite, Typed, Shape, InPlace
    <3>2. seen' = Settle
      BY DEF VisitWrite, WriteUnknown
    <3>3. seen' = seen
      BY <1>9 DEF Crash
    <3>4. seen[job.visit.day] = seen[job.visit.day] + 1
      BY <3>1, <3>2, <3>3 DEF Settle
    <3> QED
      BY <3>1, <3>4
  <2> QED
    BY <1>1, <2>1, <2>2, <2>3 DEF Through
<1>10. CASE SwapGaps \/ (\E d \in Days : MarkEnsure(d)) \/ MarkReserve \/ MarkWrite \/ Scan \/ PersistEnsure
            \/ ReadSnapshot \/ Commit \/ Acknowledge \/ Cleanup \/ BeginFlush
  <2>1. job.pc \notin {"visit", "failed", "reserve", "write"} /\ UNCHANGED <<queue, offered>>
    <3>1. CASE SwapGaps \/ (\E d \in Days : MarkEnsure(d)) \/ MarkReserve
      BY <3>1 DEF SwapGaps, MarkEnsure, MarkReserve
    <3>2. CASE MarkWrite \/ Scan \/ PersistEnsure \/ ReadSnapshot
      BY <3>2 DEF MarkWrite, Scan, PersistEnsure, ReadSnapshot
    <3>3. CASE Commit \/ Acknowledge \/ Cleanup \/ BeginFlush
      BY <3>3 DEF Commit, Acknowledge, Cleanup, BeginFlush
    <3> QED
      BY <1>10, <3>1, <3>2, <3>3
  <2>2. InHand = 0 /\ ~VisitWrite
    BY <2>1 DEF InHand, VisitWrite
  <2>3. InHand' = 0
    <3>0. ASSUME NEW d \in Days, Unmarked(d) PROVE job'.pc = "marks"
      BY <1>2, <3>0 DEF Unmarked, Jobs
    <3>1. ASSUME MarkFails PROVE job'.pc \in {"marks", "cleanup"}
      BY <1>2, <1>3, <3>1 DEF MarkFails, Unmarked, Jobs
    <3>2. CASE SwapGaps
      BY <1>2, <3>2 DEF SwapGaps, Jobs, InHand
    <3>3. CASE \E d \in Days : MarkEnsure(d)
      <4>1. PICK d \in Days : MarkEnsure(d)
        BY <3>3
      <4>2. job' = [job EXCEPT !.pc = "markseq", !.visit.day = d] \/ Unmarked(d)
        BY <4>1 DEF MarkEnsure
      <4>3. CASE job' = [job EXCEPT !.pc = "markseq", !.visit.day = d]
        <5>1. job'.pc = "markseq"
          BY <1>2, <4>3 DEF Jobs
        <5> QED
          BY <5>1 DEF InHand
      <4>4. CASE Unmarked(d)
        <5>1. job'.pc = "marks"
          BY <3>0, <4>4
        <5> QED
          BY <5>1 DEF InHand
      <4> QED
        BY <4>2, <4>3, <4>4
    <3>4. CASE MarkReserve
      BY <1>2, <3>1, <3>4 DEF MarkReserve, Jobs, InHand
    <3>5. CASE MarkWrite
      <4>1. \/ MarkFails
            \/ job' = [job EXCEPT !.pc = IF job.late THEN "read" ELSE "marks", !.held = @ \ {job.visit.day},
                                  !.visit = NoVisit, !.seq = 0]
        BY <3>5 DEF MarkWrite
      <4>2. job'.pc \in {"read", "marks", "cleanup"}
        BY <1>2, <3>1, <4>1 DEF Jobs
      <4> QED
        BY <4>2 DEF InHand
    <3>6. CASE Scan
      BY <1>2, <1>3, <3>6 DEF Scan, Jobs, InHand
    <3>7. CASE PersistEnsure
      BY <1>2, <1>3, <3>7 DEF PersistEnsure, Jobs, InHand
    <3>8. CASE ReadSnapshot
      BY <1>2, <1>3, <3>8 DEF ReadSnapshot, Jobs, InHand
    <3>9. CASE Commit
      <4>1. job' = [job EXCEPT !.pc = "ack"] \/ job' = EndFlush
        BY <3>9, CommitRows
      <4> QED
        BY <1>2, <1>3, <4>1 DEF Jobs, InHand
    <3>10. CASE Acknowledge \/ Cleanup
      BY <1>3, <3>10 DEF Acknowledge, Cleanup, InHand
    <3>11. CASE BeginFlush
      <4>1. Idle \in Jobs
        BY IdleFacts
      <4> QED
        BY <3>11, <4>1 DEF BeginFlush, Jobs, InHand
    <3> QED
      BY <1>10, <3>2, <3>3, <3>4, <3>5, <3>6, <3>7, <3>8, <3>9, <3>10, <3>11
  <2>4. Len(queue') = Len(queue) /\ offered' = offered
    BY <2>1
  <2> QED
    BY <1>1, <2>2, <2>3, <2>4 DEF Through
<1>11. CASE Close \/ Midnight \/ Crowd \/ LoseKeys \/ SaveImage \/ Rewind \/ UNCHANGED statsVars
  <2>1. UNCHANGED <<queue, offered, job>>
    BY <1>11 DEF Close, Midnight, Crowd, LoseKeys, SaveImage, Rewind, statsVars, memory
  <2>2. ~VisitWrite
    <3>1. VisitWrite => job' = Resume /\ job.pc = "write"
      BY DEF VisitWrite, WriteUnknown
    <3>2. job' = Resume => job'.pc \in {"idle", "drain"}
      BY <1>2, ResumeFacts
    <3> QED
      BY <2>1, <3>1, <3>2
  <2>3. Len(queue') = Len(queue) /\ offered' = offered /\ InHand' = InHand
    BY <2>1 DEF InHand
  <2> QED
    BY <1>1, <2>2, <2>3 DEF Through
<1> QED
  BY <1>4, <1>5, <1>6, <1>7, <1>8, <1>9, <1>10, <1>11 DEF StatsNext, Work

\* No total exceeds the visits that are through after any step.
LEMMA CountsStep ==
  ASSUME Typed, Typed', Counts, [StatsNext]_statsVars
  PROVE  Counts'
<1> SUFFICES ASSUME "retry" \notin mishaps'
    PROVE  redis'.pv <= Through' /\ image'.pv <= Through' /\ job'.snap.pv <= Through' /\ sql'.pv <= Through'
  BY DEF Counts
<1>1. "retry" \notin mishaps
  BY MishapsGrow
<1>2. /\ redis.pv <= Through /\ image.pv <= Through /\ job.snap.pv <= Through /\ sql.pv <= Through
      /\ redis.pv \in Nat /\ image.pv \in Nat /\ job.snap.pv \in Nat /\ sql.pv \in Nat
      /\ Through \in Int /\ Through' \in Int
  <2>1. redis.pv <= Through /\ image.pv <= Through /\ job.snap.pv <= Through /\ sql.pv <= Through
    BY <1>1 DEF Counts
  <2>2. redis \in RedisStates /\ image \in RedisStates /\ job \in Jobs /\ sql \in RowStates
    BY DEF Typed, Shape
  <2>3. job.snap \in RedisStates
    BY <2>2, JobParts
  <2>4. redis.pv \in Nat /\ image.pv \in Nat /\ job.snap.pv \in Nat /\ sql.pv \in Nat
    BY <2>2, <2>3, RedisParts, RowParts
  <2>5. Through \in Int
    BY ThroughType
  <2>6. Through' \in Int
    <3>1. queue' \in Seq(Visits) /\ offered' \in Nat
      BY DEF Typed, Shape
    <3>2. Len(queue') \in Nat
      BY <3>1, LenProperties
    <3>3. InHand' \in {0, 1}
      BY DEF InHand
    <3> QED
      BY <3>1, <3>2, <3>3 DEF Through
  <2> QED
    BY <2>1, <2>4, <2>5, <2>6
<1>3. CountsFrom /\ Through' >= Through /\ (VisitWrite => Through' = Through + 1)
  BY CountSources, ThroughGrows
<1>4. VisitWrite => redis'.pv \in {redis.pv, redis.pv + 1}
  <2>1. ASSUME VisitWrite PROVE redis' \in {redis, Counted(job.visit, job.seq, job.fresh)}
    BY <2>1 DEF VisitWrite
  <2>2. ASSUME VisitWrite PROVE Counted(job.visit, job.seq, job.fresh).pv = redis.pv + 1
    <3>1. /\ redis \in RedisStates /\ job.visit.day \in Days /\ job.visit.who \subseteq Visitors
          /\ job.seq \in Nat /\ job.fresh \in BOOLEAN
      BY <2>2, JobParts DEF VisitWrite, Typed, Shape, InPlace
    <3> QED
      BY <3>1, CountedFacts
  <2> QED
    BY <2>1, <2>2
<1>5. redis'.pv <= Through'
  BY <1>2, <1>3, <1>4 DEF CountsFrom
<1>6. image'.pv <= Through' /\ job'.snap.pv <= Through' /\ sql'.pv <= Through'
  BY <1>2, <1>3 DEF CountsFrom
<1> QED
  BY <1>5, <1>6

\* Nor does it at the start.
LEMMA InitCounts == StatsInit => Counts
<1> SUFFICES ASSUME StatsInit PROVE Counts
  OBVIOUS
<1>1. redis.pv = 0 /\ image.pv = 0 /\ sql.pv = 0 /\ queue = <<>> /\ offered = 0 /\ job = Idle
  BY DEF StatsInit, NoRedis, NoRows
<1>2. job.snap.pv = 0 /\ job.pc = "idle" /\ Len(<<>>) = 0
  BY <1>1, IdleFacts DEF NoRedis
<1>3. InHand = 0 /\ Len(queue) = 0
  BY <1>1, <1>2 DEF InHand
<1>4. Through = 0
  <2>1. offered = 0
    BY <1>1
  <2> QED
    BY <2>1, <1>3 DEF Through
<1> QED
  BY <1>1, <1>2, <1>4 DEF Counts

\* NoInflation: every copy of the total is bounded by the visits that are through.
THEOREM NoInflationTheorem == StatsSpec => []NoInflation
<1>1. Typed /\ Typed' /\ Counts /\ [StatsNext]_statsVars => Counts'
  BY CountsStep
<1>2. Typed /\ Counts => NoInflation
  <2> SUFFICES ASSUME Typed, Counts, "retry" \notin mishaps PROVE sql.pv <= offered
    BY DEF NoInflation
  <2>1. sql.pv <= Through /\ Through <= offered /\ Through \in Int /\ offered \in Nat
    BY ThroughType DEF Counts
  <2>2. sql.pv \in Nat
    BY RowParts DEF Typed, Shape
  <2> QED
    BY <2>1, <2>2
<1> QED
  BY <1>1, <1>2, InitCounts, StatsTyped, PTL DEF StatsSpec

-----------------------------------------------------------------------------
(* The days never add up to more than the total *)

\* A day's count is a number.
LEMMA PvNat ==
  ASSUME NEW f, f \in Partly(Days, Field) \/ f \in Partly(Days, RowField)
  PROVE  \A d \in Days : PvOf(f, d) \in Nat
BY DayFields, RowFields DEF PvOf

\* The larger counts of the days.
LEMMA TopFacts ==
  ASSUME NEW f \in Partly(Days, Field), NEW r \in Partly(Days, RowField)
  PROVE  \A d \in Days : /\ PvOf(f, d) \in Nat /\ PvOf(r, d) \in Nat
                         /\ Top(f, r)[d] = Larger(PvOf(f, d), PvOf(r, d)) /\ Top(f, r)[d] \in Nat
                         /\ Top(f, r)[d] >= PvOf(f, d) /\ Top(f, r)[d] >= PvOf(r, d)
                         /\ Alone(r)[d] = PvOf(r, d)
<1> SUFFICES ASSUME NEW d \in Days
    PROVE  /\ PvOf(f, d) \in Nat /\ PvOf(r, d) \in Nat
           /\ Top(f, r)[d] = Larger(PvOf(f, d), PvOf(r, d)) /\ Top(f, r)[d] \in Nat
           /\ Top(f, r)[d] >= PvOf(f, d) /\ Top(f, r)[d] >= PvOf(r, d)
           /\ Alone(r)[d] = PvOf(r, d)
  OBVIOUS
<1>1. PvOf(f, d) \in Nat /\ PvOf(r, d) \in Nat
  BY PvNat
<1>2. Top(f, r)[d] = Larger(PvOf(f, d), PvOf(r, d)) /\ Alone(r)[d] = PvOf(r, d)
  BY DEF Top, Alone
<1> QED
  BY <1>1, <1>2 DEF Larger

\* Sums are monotone.
LEMMA SumBelow ==
  ASSUME NEW v, NEW w, \A d \in Days : v[d] \in Nat /\ w[d] \in Nat /\ v[d] <= w[d]
  PROVE  SumOf(v, Days) <= SumOf(w, Days) /\ SumOf(v, Days) \in Nat /\ SumOf(w, Days) \in Nat
<1>1. IsFiniteSet(Days)
  BY DayNumbers
<1>2. \A d \in Days : v[d] \in Nat /\ w[d] \in Nat /\ v[d] <= w[d] + 0
  OBVIOUS
<1>3. SumOf(v, Days) \in Nat /\ SumOf(w, Days) \in Nat /\ Cardinality(Days) \in Nat
  BY <1>1, SumType, FS_CardinalityType
<1>4. SumOf(v, Days) <= SumOf(w, Days) + Cardinality(Days) * 0
  BY <1>1, <1>2, SumExcess
<1>5. Cardinality(Days) * 0 = 0
  BY <1>3
<1> QED
  BY <1>3, <1>4, <1>5

\* Where a day counts no more than before, the sum does not grow.
LEMMA TopBelow ==
  ASSUME NEW f \in Partly(Days, Field), NEW g \in Partly(Days, Field),
         NEW r \in Partly(Days, RowField), NEW s \in Partly(Days, RowField),
         \A d \in Days : PvOf(f, d) <= PvOf(g, d) \/ PvOf(f, d) <= PvOf(s, d),
         \A d \in Days : PvOf(r, d) <= PvOf(g, d) \/ PvOf(r, d) <= PvOf(s, d)
  PROVE  SumOf(Top(f, r), Days) <= SumOf(Top(g, s), Days)
<1>1. ASSUME NEW d \in Days PROVE Top(f, r)[d] \in Nat /\ Top(g, s)[d] \in Nat /\ Top(f, r)[d] <= Top(g, s)[d]
  <2>1. /\ PvOf(f, d) \in Nat /\ PvOf(r, d) \in Nat /\ PvOf(g, d) \in Nat /\ PvOf(s, d) \in Nat
        /\ Top(f, r)[d] = Larger(PvOf(f, d), PvOf(r, d)) /\ Top(f, r)[d] \in Nat
        /\ Top(g, s)[d] = Larger(PvOf(g, d), PvOf(s, d)) /\ Top(g, s)[d] \in Nat
    BY TopFacts
  <2> QED
    BY <2>1 DEF Larger
<1> QED
  BY <1>1, SumBelow

\* What two sources bound day by day they bound in sum.
LEMMA AloneBelow ==
  ASSUME NEW g \in Partly(Days, Field), NEW r \in Partly(Days, RowField), NEW s \in Partly(Days, RowField),
         \A d \in Days : PvOf(r, d) <= PvOf(g, d) \/ PvOf(r, d) <= PvOf(s, d)
  PROVE  SumOf(Alone(r), Days) <= SumOf(Top(g, s), Days) /\ SumOf(Alone(r), Days) \in Nat
<1>1. ASSUME NEW d \in Days PROVE Alone(r)[d] \in Nat /\ Top(g, s)[d] \in Nat /\ Alone(r)[d] <= Top(g, s)[d]
  <2>1. /\ PvOf(r, d) \in Nat /\ PvOf(g, d) \in Nat /\ PvOf(s, d) \in Nat /\ Alone(r)[d] = PvOf(r, d)
        /\ Top(g, s)[d] = Larger(PvOf(g, d), PvOf(s, d)) /\ Top(g, s)[d] \in Nat
    BY PvNat, TopFacts DEF Alone
  <2> QED
    BY <2>1 DEF Larger
<1> QED
  BY <1>1, SumBelow

\* A restore leaves the counts of the rows.
LEMMA TopOfRows ==
  ASSUME NEW f \in Partly(Days, Field), NEW r \in Partly(Days, RowField),
         \A d \in DOMAIN f : f[d].pv = PvOf(r, d)
  PROVE  SumOf(Top(f, r), Days) <= SumOf(Alone(r), Days)
<1>1. ASSUME NEW d \in Days PROVE Top(f, r)[d] \in Nat /\ Alone(r)[d] \in Nat /\ Top(f, r)[d] <= Alone(r)[d]
  <2>1. /\ PvOf(r, d) \in Nat /\ PvOf(f, d) \in Nat /\ Alone(r)[d] = PvOf(r, d)
        /\ Top(f, r)[d] = Larger(PvOf(f, d), PvOf(r, d)) /\ Top(f, r)[d] \in Nat
    BY TopFacts
  <2>2. PvOf(f, d) = PvOf(r, d) \/ PvOf(f, d) = 0
    BY DEF PvOf
  <2> QED
    BY <2>1, <2>2 DEF Larger
<1> QED
  BY <1>1, SumBelow

\* A visit raises one day.
LEMMA TopRaised ==
  ASSUME NEW f \in Partly(Days, Field), NEW g \in Partly(Days, Field), NEW r \in Partly(Days, RowField),
         NEW x \in Days, NEW n \in Nat, PvOf(f, x) = PvOf(g, x) + n, \A d \in Days : d # x => PvOf(f, d) = PvOf(g, d)
  PROVE  /\ SumOf(Top(f, r), Days) <= SumOf(Top(g, r), Days) + n
         /\ SumOf(Top(f, r), Days) \in Nat /\ SumOf(Top(g, r), Days) \in Nat
<1> DEFINE v == Top(f, r)
           w == Top(g, r)
<1>1. \A d \in Days : /\ PvOf(f, d) \in Nat /\ PvOf(g, d) \in Nat /\ PvOf(r, d) \in Nat
                      /\ v[d] = Larger(PvOf(f, d), PvOf(r, d)) /\ v[d] \in Nat
                      /\ w[d] = Larger(PvOf(g, d), PvOf(r, d)) /\ w[d] \in Nat
  BY TopFacts
<1>2. v[x] <= w[x] + n
  BY <1>1 DEF Larger
<1>3. \A d \in Days \ {x} : v[d] = w[d]
  BY <1>1
<1>4. IsFiniteSet(Days)
  BY DayNumbers
<1>5. v[x] \in Nat /\ w[x] \in Nat /\ (\A d \in Days : w[d] \in Nat /\ v[d] \in Nat)
  BY <1>1
<1> HIDE DEF v, w
<1>6. SumOf(v, Days) \in Nat /\ SumOf(w, Days) \in Nat
  BY <1>4, <1>5, SumType
<1>7. SumOf(v, Days) = SumOf(w, Days) - w[x] + v[x]
  BY <1>3, <1>4, <1>5, SumChange
<1>8. SumOf(v, Days) <= SumOf(w, Days) + n
  BY <1>2, <1>5, <1>6, <1>7
<1> QED
  BY <1>6, <1>8 DEF v, w

\* The sum of the larger counts is a number.
LEMMA TopSum ==
  ASSUME NEW f \in Partly(Days, Field), NEW r \in Partly(Days, RowField)
  PROVE  SumOf(Top(f, r), Days) \in Nat /\ SumOf(Alone(r), Days) \in Nat
<1>1. \A d \in Days : Top(f, r)[d] \in Nat /\ Alone(r)[d] \in Nat
  BY TopFacts
<1>2. IsFiniteSet(Days)
  BY DayNumbers
<1> QED
  BY <1>1, <1>2, SumType

\* A visit is settled by its count, or with a gap.
SeenStays == seen' = seen \/ \E d \in Days : noteGap(d) /\ seen' = [seen EXCEPT ![d] = @ + 1]

\* What a step may do to Redis.
RedisMoves ==
  \/ redis' = redis /\ SeenStays
  \/ /\ job.pc \in {"visit", "marks", "persist"} /\ sql' = sql
     /\ \E at \in Days : redis' = IF Keeps THEN Merged ELSE Restored(at)
     /\ seen' = IF Keeps \/ Recovered THEN seen ELSE Unseen
  \/ job.pc \in {"reserve", "markseq"} /\ sql' = sql /\ redis' = Reserved /\ SeenStays
  \/ /\ job.pc = "write" /\ sql' = sql /\ redis' = Counted(job.visit, job.seq, job.fresh)
     /\ seen' = Settle /\ (noteGap(job.visit.day) \/ gaps' = gaps)
  \/ /\ job.pc = "write" /\ sql' = sql /\ redis' = CountedTwice(job.visit, job.seq, job.fresh)
     /\ "retry" \in mishaps'
  \/ /\ job.pc \in {"visit", "marks", "persist"} /\ sql' = sql /\ seen' = seen
     /\ Keeps /\ (\E at \in Days : redis' = Restored(at)) /\ "misread" \in mishaps'
  \/ job.pc = "mark" /\ sql' = sql /\ redis' = Marked(job.visit.day, job.seq) /\ seen' = seen
  \/ /\ job.pc = "ack" /\ job'.pc = "cleanup" /\ sql' = sql /\ seen' = seen
     /\ redis' = Acknowledged(job.snap.seq, job.now + 1 - HotDays)
  \/ LoseKeys
  \/ "rewind" \in mishaps' /\ sql' = sql /\ job' = job

\* Every step is such a move of Redis.
LEMMA RedisSources ==
  ASSUME Typed, [StatsNext]_statsVars
  PROVE  RedisMoves
<1>0. today \in Days /\ EndFlush.pc = "cleanup"
  BY IdleFacts DEF Typed, Shape
<1>1. ASSUME NEW at \in Days, ensure(at) \/ Misread(at) \/ UNCHANGED <<redis, seen>>, job.pc \in {"visit", "marks", "persist"}, sql' = sql
      PROVE  RedisMoves
  <2>1. CASE ensure(at)
    BY <1>1, <2>1 DEF ensure, Ensured, RedisMoves
  <2>2. CASE UNCHANGED <<redis, seen>>
    BY <2>2 DEF RedisMoves, SeenStays
  <2>3. CASE Misread(at)
    BY <1>1, <2>3 DEF Misread, RedisMoves
  <2> QED
    BY <1>1, <2>1, <2>2, <2>3
<1>6. ASSUME NEW d \in Days, noteGap(d), seen' = [seen EXCEPT ![d] = @ + 1] PROVE SeenStays
  BY <1>6 DEF SeenStays
<1>7. ASSUME WriteUnknown, job.visit.day \in Days PROVE SeenStays
  BY <1>6, <1>7 DEF WriteUnknown, Settle
<1>2. CASE Work
  <2>1. CASE ProcessEnsure
    <3>1. /\ job.visit.day \in Days /\ (ensure(job.visit.day) \/ Misread(job.visit.day) \/ UNCHANGED <<redis, seen>>)
          /\ job.pc = "visit" /\ sql' = sql
      BY <2>1 DEF ProcessEnsure, EnsureFails, Typed, InPlace
    <3> QED
      BY <1>1, <3>1
  <2>2. CASE \E d \in Days : MarkEnsure(d)
    <3>1. /\ \E d \in Days : ensure(d) \/ Misread(d) \/ UNCHANGED <<redis, seen>>
          /\ job.pc = "marks" /\ sql' = sql
      BY <2>2 DEF MarkEnsure, EnsureFails
    <3> QED
      BY <1>1, <3>1
  <2>3. CASE PersistEnsure
    <3>1. (ensure(today) \/ Misread(today) \/ UNCHANGED <<redis, seen>>) /\ job.pc = "persist" /\ sql' = sql
      BY <2>3 DEF PersistEnsure, EnsureFails
    <3> QED
      BY <1>0, <1>1, <3>1
  <2>4. CASE VisitReserve
    <3>1. job.pc = "reserve" /\ job.visit.day \in Days /\ sql' = sql
      BY <2>4 DEF VisitReserve, Typed, InPlace
    <3>2. redis' \in {redis, Reserved} /\ (WriteUnknown \/ seen' = seen)
      BY <2>4 DEF VisitReserve
    <3>3. SeenStays
      BY <1>7, <3>1, <3>2 DEF SeenStays
    <3> QED
      BY <3>1, <3>2, <3>3 DEF RedisMoves
  <2>5. CASE VisitWrite
    <3>1. job.pc = "write" /\ job.visit.day \in Days /\ sql' = sql
      BY <2>5 DEF VisitWrite, Typed, InPlace
    <3>2. \/ redis' = Counted(job.visit, job.seq, job.fresh) /\ seen' = Settle /\ gaps' = gaps
          \/ WriteUnknown /\ redis' \in {redis, Counted(job.visit, job.seq, job.fresh)}
          \/ redis' = CountedTwice(job.visit, job.seq, job.fresh) /\ "retry" \in mishaps'
      BY <2>5 DEF VisitWrite, CountedTwice, NoGap
    <3>3. CASE WriteUnknown
      <4>1. SeenStays /\ seen' = Settle /\ noteGap(job.visit.day)
        BY <1>7, <3>1, <3>3 DEF WriteUnknown
      <4> QED
        BY <3>1, <3>2, <4>1 DEF RedisMoves
    <3> QED
      BY <3>1, <3>2, <3>3 DEF RedisMoves
  <2>6. CASE MarkReserve \/ MarkWrite
    BY <2>6 DEF MarkReserve, MarkWrite, RedisMoves, SeenStays
  <2>7. CASE Acknowledge
    BY <1>0, <2>7 DEF Acknowledge, RedisMoves, SeenStays
  <2>8. CASE TakeEvent \/ SwapGaps \/ Scan \/ ReadSnapshot \/ Commit \/ Cleanup
    BY <2>8 DEF TakeEvent, SwapGaps, Scan, ReadSnapshot, Commit, Cleanup, RedisMoves, SeenStays
  <2>9. CASE ExpireVisit \/ ProcessFails
    <3>1. job.visit.day \in Days /\ redis' = redis /\ noteGap(job.visit.day) /\ seen' = Settle
      BY <2>9 DEF ExpireVisit, ProcessFails, Typed, InPlace
    <3> QED
      BY <1>6, <3>1 DEF RedisMoves, Settle
  <2> QED
    BY <1>2, <2>1, <2>2, <2>3, <2>4, <2>5, <2>6, <2>7, <2>8, <2>9 DEF Work
<1>3. CASE LoseKeys
  BY <1>3 DEF RedisMoves
<1>4. CASE Rewind
  BY <1>4 DEF Rewind, RedisMoves, memory
<1>8. CASE \E v \in Visitors : Record(v)
  BY <1>0, <1>8 DEF Record, RedisMoves, SeenStays
<1>5. CASE ~LoseKeys /\ ~Rewind /\ ~Work /\ ~(\E v \in Visitors : Record(v))
  BY <1>5 DEF StatsNext, Close, BeginFlush, Midnight, Crowd, SaveImage, Crash, statsVars, RedisMoves, SeenStays
<1> QED
  BY <1>2, <1>3, <1>4, <1>5, <1>8

\* What a step may do to the rows.
RowMoves ==
  \/ sql' = sql /\ covered' = covered
  \/ /\ Commit /\ job.pc = "commit" /\ sql' = Rows(job.snap, job.now) /\ covered' = job.seen
     /\ sql.seq < job.snap.seq /\ ~StatsRegress(Rows(job.snap, job.now))
  \/ Cleanup /\ job.pc = "cleanup" /\ job'.pc = "idle" /\ covered' = covered

\* Every step is such a move of the rows.
LEMMA RowSources ==
  ASSUME Typed, [StatsNext]_statsVars
  PROVE  RowMoves
<1>1. CASE Commit
  BY <1>1, CommitRows DEF RowMoves
<1>2. CASE Cleanup
  BY <1>2, IdleFacts DEF Cleanup, RowMoves
<1>3. CASE ~Commit /\ ~Cleanup
  <2>1. CASE Work
    BY <1>3, <2>1, WorkKeeps DEF RowMoves
  <2>2. CASE ~Work
    BY <2>2 DEF StatsNext, Record, Close, BeginFlush, Midnight, Crowd, LoseKeys, SaveImage, Rewind, Crash, statsVars,
       RowMoves
  <2> QED
    BY <2>1, <2>2
<1> QED
  BY <1>1, <1>2, <1>3

\* A snapshot in hand was read from Redis, and only commits change it.
SnapMoves ==
  job'.pc \in {"commit", "ack"} =>
    \/ job' = job /\ sql' = sql
    \/ /\ ReadSnapshot /\ Readable /\ UNCHANGED <<redis, sql, seen>>
       /\ job' = [job EXCEPT !.pc = IF redis.seq > redis.ack THEN "commit" ELSE "ack",
                             !.snap = redis, !.now = today, !.seen = seen]
    \/ Commit /\ job.pc = "commit" /\ job' = [job EXCEPT !.pc = "ack"] /\ redis' = redis

\* Every step is such a move of the snapshot.
LEMMA SnapSources ==
  ASSUME Typed, [StatsNext]_statsVars
  PROVE  SnapMoves
<1> SUFFICES ASSUME job'.pc \in {"commit", "ack"} PROVE SnapMoves
  BY DEF SnapMoves
<1>0. job \in Jobs /\ Idle \in Jobs
  BY IdleFacts DEF Typed, Shape
<1>1. Idle.pc = "idle" /\ EndFlush.pc = "cleanup" /\ Resume.pc \in {"idle", "drain"}
  BY <1>0, IdleFacts, ResumeFacts
<1>2. ASSUME NEW d \in Days, Unmarked(d) PROVE job'.pc = "marks"
  BY <1>0, <1>2 DEF Unmarked, Jobs
<1>3. ASSUME MarkFails PROVE job'.pc \in {"marks", "cleanup"}
  BY <1>0, <1>1, <1>3 DEF MarkFails, Unmarked, Jobs
<1>4. CASE Work
  <2>1. CASE TakeEvent
    BY <1>0, <2>1 DEF TakeEvent, Jobs
  <2>2. CASE ExpireVisit \/ ProcessFails \/ VisitWrite
    BY <1>1, <2>2 DEF ExpireVisit, ProcessFails, VisitWrite, WriteUnknown
  <2>3. CASE ProcessEnsure
    BY <1>0, <2>3 DEF ProcessEnsure, Jobs
  <2>4. CASE VisitReserve
    BY <1>0, <1>1, <2>4 DEF VisitReserve, WriteUnknown, Jobs
  <2>5. CASE SwapGaps
    BY <1>0, <2>5 DEF SwapGaps, Jobs
  <2>6. CASE \E d \in Days : MarkEnsure(d)
    <3>1. PICK d \in Days : MarkEnsure(d)
      BY <2>6
    <3>2. job' = [job EXCEPT !.pc = "markseq", !.visit.day = d] \/ Unmarked(d)
      BY <3>1 DEF MarkEnsure
    <3> QED
      BY <1>0, <1>2, <3>2 DEF Jobs
  <2>7. CASE MarkReserve
    BY <1>0, <1>3, <2>7 DEF MarkReserve, Jobs
  <2>8. CASE MarkWrite
    <3>1. \/ MarkFails
          \/ job' = [job EXCEPT !.pc = IF job.late THEN "read" ELSE "marks", !.held = @ \ {job.visit.day},
                                !.visit = NoVisit, !.seq = 0]
      BY <2>8 DEF MarkWrite
    <3>2. MarkFails \/ job'.pc = IF job.late THEN "read" ELSE "marks"
      BY <1>0, <3>1 DEF Jobs
    <3> QED
      BY <1>3, <3>2
  <2>9. CASE Scan
    BY <1>0, <1>1, <2>9 DEF Scan, Jobs
  <2>10. CASE PersistEnsure
    BY <1>0, <1>1, <2>10 DEF PersistEnsure, Jobs
  <2>11. CASE ReadSnapshot
    <3>1. \/ job' = [job EXCEPT !.pc = "markseq", !.late = TRUE, !.visit.day = today]
          \/ job' = EndFlush
          \/ Readable /\ job' = [job EXCEPT !.pc = IF redis.seq > redis.ack THEN "commit" ELSE "ack",
                                            !.snap = redis, !.now = today, !.seen = seen]
      BY <2>11 DEF ReadSnapshot
    <3>2. CASE job' = [job EXCEPT !.pc = "markseq", !.late = TRUE, !.visit.day = today]
      BY <1>0, <3>2 DEF Jobs
    <3>3. CASE job' = EndFlush
      BY <1>1, <3>3
    <3>4. CASE Readable /\ job' = [job EXCEPT !.pc = IF redis.seq > redis.ack THEN "commit" ELSE "ack",
                                            !.snap = redis, !.now = today, !.seen = seen]
      <4>1. UNCHANGED <<redis, sql, seen>>
        BY <2>11 DEF ReadSnapshot
      <4> QED
        BY <2>11, <3>4, <4>1 DEF SnapMoves
    <3> QED
      BY <3>1, <3>2, <3>3, <3>4
  <2>12. CASE Commit
    <3>1. /\ job.pc = "commit" /\ redis' = redis
          /\ job' = [job EXCEPT !.pc = "ack"] \/ job' = EndFlush
      BY <2>12, CommitRows
    <3> QED
      BY <1>1, <2>12, <3>1 DEF SnapMoves
  <2>13. CASE Acknowledge \/ Cleanup
    BY <1>1, <2>13 DEF Acknowledge, Cleanup
  <2> QED
    BY <1>4, <2>1, <2>2, <2>3, <2>4, <2>5, <2>6, <2>7, <2>8, <2>9, <2>10, <2>11, <2>12, <2>13 DEF Work
<1>5. CASE BeginFlush
  BY <1>0, <1>5 DEF BeginFlush, Jobs
<1>6. CASE Crash
  BY <1>1, <1>6 DEF Crash
<1>7. CASE ~Work /\ ~BeginFlush /\ ~Crash
  BY <1>7 DEF StatsNext, Record, Close, Midnight, Crowd, LoseKeys, SaveImage, Rewind, statsVars, memory, SnapMoves
<1> QED
  BY <1>4, <1>5, <1>6, <1>7

\* Redis stays what the snapshot holds until it is acknowledged.
LEMMA SnapStays ==
  ASSUME Typed, SnapIsRedis, [StatsNext]_statsVars
  PROVE  SnapIsRedis'
<1> SUFFICES ASSUME "rewind" \notin mishaps', job'.pc \in {"commit", "ack"}, redis'.kind = "whole"
    PROVE  /\ redis'.seq = job'.snap.seq /\ redis'.pv = job'.snap.pv /\ redis'.quality = job'.snap.quality
           /\ redis'.days = job'.snap.days
  BY DEF SnapIsRedis
<1>1. RedisMoves /\ SnapMoves /\ "rewind" \notin mishaps /\ job \in Jobs /\ redis \in RedisStates
  BY RedisSources, SnapSources, MishapsGrow DEF Typed, Shape
<1>2. CASE job' = job
  <2>1. job.pc \in {"commit", "ack"} /\ job'.pc # "cleanup"
    BY <1>2
  <2>2. redis' = redis \/ LoseKeys
    BY <1>1, <2>1 DEF RedisMoves
  <2>3. /\ redis.kind = "whole" /\ redis'.seq = redis.seq /\ redis'.pv = redis.pv
        /\ redis'.quality = redis.quality /\ redis'.days = redis.days
    BY <1>1, <2>2, LostFacts
  <2> QED
    BY <1>1, <1>2, <2>1, <2>3 DEF SnapIsRedis
<1>3. CASE redis' = redis /\ job' = [job EXCEPT !.pc = IF redis.seq > redis.ack THEN "commit" ELSE "ack",
                                              !.snap = redis, !.now = today, !.seen = seen]
  <2>1. job'.snap = redis
    BY <1>1, <1>3 DEF Jobs
  <2> QED
    BY <1>3, <2>1
<1>4. CASE redis' = redis /\ job.pc = "commit" /\ job' = [job EXCEPT !.pc = "ack"]
  <2>1. job'.snap = job.snap
    BY <1>1, <1>4 DEF Jobs
  <2> QED
    BY <1>1, <1>4, <2>1 DEF SnapIsRedis
<1> QED
  BY <1>1, <1>2, <1>3, <1>4 DEF SnapMoves

\* Redis counts no more days than visits in total after any step.
LEMMA RedisWithin ==
  ASSUME Typed, SnapIsRedis, Within, [StatsNext]_statsVars, "rewind" \notin mishaps', redis'.kind = "whole"
  PROVE  SumOf(Top(redis'.days, sql'.days), Days) <= redis'.pv
<1>1. RedisMoves /\ RowMoves /\ "rewind" \notin mishaps
  BY RedisSources, RowSources, MishapsGrow
<1>2. /\ redis \in RedisStates /\ sql \in RowStates /\ job \in Jobs /\ job.snap \in RedisStates
      /\ today \in Days /\ Restorable
  BY JobParts DEF Typed, Shape, InPlace
<1>3. redis.days \in Partly(Days, Field) /\ sql.days \in Partly(Days, RowField) /\ redis.pv \in Nat
  BY <1>2, RedisParts, RowParts
<1>4. /\ redis.kind = "whole" => SumOf(Top(redis.days, sql.days), Days) <= redis.pv
      /\ SumOf(Alone(sql.days), Days) <= sql.pv
  BY <1>1 DEF Within
<1>5. \A d \in Days : PvOf(redis.days, d) \in Nat /\ PvOf(sql.days, d) \in Nat
  BY <1>3, PvNat
<1>6. ASSUME sql' = sql, redis'.days \in Partly(Days, Field), redis'.pv = redis.pv, redis.kind = "whole",
             \A d \in Days : PvOf(redis'.days, d) <= PvOf(redis.days, d)
      PROVE  SumOf(Top(redis'.days, sql'.days), Days) <= redis'.pv
  <2>1. SumOf(Top(redis'.days, sql.days), Days) <= SumOf(Top(redis.days, sql.days), Days)
    BY <1>3, <1>5, <1>6, TopBelow
  <2>2. SumOf(Top(redis'.days, sql.days), Days) \in Nat /\ SumOf(Top(redis.days, sql.days), Days) \in Nat
    BY <1>3, <1>6, TopSum
  <2> QED
    BY <1>3, <1>4, <1>6, <2>1, <2>2
<1>7. ASSUME NEW n \in Nat, NEW x \in Days, sql' = sql, redis'.days \in Partly(Days, Field), redis'.pv = redis.pv + n,
             redis.kind = "whole", PvOf(redis'.days, x) = PvOf(redis.days, x) + n,
             \A d \in Days : d # x => PvOf(redis'.days, d) = PvOf(redis.days, d)
      PROVE  SumOf(Top(redis'.days, sql'.days), Days) <= redis'.pv
  <2>1. /\ SumOf(Top(redis'.days, sql.days), Days) <= SumOf(Top(redis.days, sql.days), Days) + n
        /\ SumOf(Top(redis'.days, sql.days), Days) \in Nat /\ SumOf(Top(redis.days, sql.days), Days) \in Nat
    BY <1>3, <1>7, TopRaised
  <2> QED
    BY <1>3, <1>4, <1>7, <2>1
<1>8. CASE redis' = redis
  <2>1. CASE sql' = sql
    BY <1>4, <1>8, <2>1
  <2>2. CASE Commit /\ job.pc = "commit" /\ sql' = Rows(job.snap, job.now)
    <3>1. /\ job.now \in Days /\ {All} \cup DOMAIN job.snap.days \subseteq DOMAIN job.snap.hll
      BY <2>2 DEF Typed, InPlace
    <3>2. redis.days = job.snap.days
      BY <1>1, <1>8, <2>2 DEF SnapIsRedis
    <3> DEFINE K == Kept(job.snap, job.now)
    <3>3. /\ sql' \in RowStates /\ DOMAIN sql'.days = DOMAIN sql.days \cup K
          /\ \A d \in K : sql'.days[d].pv = job.snap.days[d].pv
          /\ \A d \in DOMAIN sql.days \ K : sql'.days[d] = sql.days[d]
          /\ K \subseteq DOMAIN job.snap.days
      BY <1>2, <2>2, <3>1, RowsFacts
    <3> HIDE DEF K
    <3>4. \A d \in Days : PvOf(sql'.days, d) = PvOf(redis.days, d) \/ PvOf(sql'.days, d) = PvOf(sql.days, d)
      BY <3>2, <3>3 DEF PvOf
    <3>5. sql'.days \in Partly(Days, RowField)
      BY <3>3, RowParts
    <3>6. SumOf(Top(redis.days, sql'.days), Days) <= SumOf(Top(redis.days, sql.days), Days)
      BY <1>3, <1>5, <3>4, <3>5, TopBelow
    <3>7. SumOf(Top(redis.days, sql'.days), Days) \in Nat /\ SumOf(Top(redis.days, sql.days), Days) \in Nat
      BY <1>3, <3>5, TopSum
    <3> QED
      BY <1>3, <1>4, <1>8, <3>6, <3>7
  <2>3. CASE Cleanup
    <3>1. /\ sql' \in RowStates /\ DOMAIN sql'.days \subseteq DOMAIN sql.days
          /\ \A d \in DOMAIN sql'.days : sql'.days[d] = sql.days[d]
      BY <2>3, CleanupRows
    <3>2. \A d \in Days : PvOf(sql'.days, d) = PvOf(sql.days, d) \/ PvOf(sql'.days, d) = 0
      BY <3>1 DEF PvOf
    <3>3. \A d \in Days : PvOf(sql'.days, d) <= PvOf(sql.days, d)
      BY <1>5, <3>2
    <3>4. sql'.days \in Partly(Days, RowField)
      BY <3>1, RowParts
    <3>5. SumOf(Top(redis.days, sql'.days), Days) <= SumOf(Top(redis.days, sql.days), Days)
      BY <1>3, <1>5, <3>3, <3>4, TopBelow
    <3>6. SumOf(Top(redis.days, sql'.days), Days) \in Nat /\ SumOf(Top(redis.days, sql.days), Days) \in Nat
      BY <1>3, <3>4, TopSum
    <3> QED
      BY <1>3, <1>4, <1>8, <3>5, <3>6
  <2> QED
    BY <1>1, <2>1, <2>2, <2>3 DEF RowMoves
<1>9. CASE /\ job.pc \in {"visit", "marks", "persist"} /\ sql' = sql
           /\ (Keeps /\ redis' = Merged) \/ \E at \in Days : redis' = Restored(at)
  <2>1. CASE Keeps /\ redis' = Merged
    <3>1. redis'.kind = redis.kind /\ redis'.pv = redis.pv /\ redis'.days = redis.days
      BY <1>2, <2>1, MergedFacts
    <3> QED
      BY <1>4, <1>9, <3>1
  <2>2. CASE \E at \in Days : redis' = Restored(at)
    <3>1. /\ redis' \in RedisStates /\ redis'.pv = sql.pv
          /\ \A d \in DOMAIN redis'.days : redis'.days[d].pv = PvOf(sql.days, d)
      BY <1>2, <2>2, RestoredFacts
    <3>2. redis'.days \in Partly(Days, Field)
      BY <3>1, RedisParts
    <3>3. SumOf(Top(redis'.days, sql.days), Days) <= SumOf(Alone(sql.days), Days)
      BY <1>3, <3>1, <3>2, TopOfRows
    <3>4. SumOf(Top(redis'.days, sql.days), Days) \in Nat /\ SumOf(Alone(sql.days), Days) \in Nat /\ sql.pv \in Nat
      BY <1>2, <1>3, <3>2, TopSum, RowParts
    <3> QED
      BY <1>4, <1>9, <3>1, <3>3, <3>4
  <2> QED
    BY <1>9, <2>1, <2>2
<1>10. CASE sql' = sql /\ redis' = Reserved
  <2>1. /\ redis.kind = "whole" /\ redis'.pv = redis.pv /\ redis'.days = redis.days
    BY <1>2, <1>10, ReservedFacts
  <2> QED
    BY <1>4, <1>10, <2>1
<1>11. CASE job.pc = "write" /\ sql' = sql /\ redis' \in {Counted(job.visit, job.seq, job.fresh), CountedTwice(job.visit, job.seq, job.fresh)}
  <2> DEFINE once == Counted(job.visit, job.seq, job.fresh)
             twice == CountedTwice(job.visit, job.seq, job.fresh)
             x == job.visit.day
  <2>1. x \in Days /\ job.visit.who \subseteq Visitors /\ job.seq \in Nat /\ job.fresh \in BOOLEAN
    BY <1>2, <1>11, JobParts DEF Typed, InPlace
  <2>2. /\ once \in RedisStates /\ (once.kind = "whole" <=> redis.kind = "whole")
        /\ once.pv = redis.pv + 1 /\ DOMAIN once.days = DOMAIN redis.days \cup {x}
        /\ once.days[x].pv = PvOf(redis.days, x) + 1
        /\ \A d \in DOMAIN redis.days : d # x => once.days[d] = redis.days[d]
    BY <1>2, <2>1, CountedFacts
  <2>3. /\ twice \in RedisStates /\ twice.kind = once.kind /\ twice.pv = once.pv + 1
        /\ DOMAIN twice.days = DOMAIN once.days /\ twice.days[x].pv = once.days[x].pv + 1
        /\ \A d \in DOMAIN once.days : d # x => twice.days[d] = once.days[d]
    BY <1>2, <2>1, CountedTwiceFacts
  <2> HIDE DEF once, twice
  <2>4. CASE redis' = once
    <3>1. redis'.days \in Partly(Days, Field) /\ redis'.pv = redis.pv + 1 /\ redis.kind = "whole"
      BY <2>2, <2>4, RedisParts
    <3>2. PvOf(redis'.days, x) = PvOf(redis.days, x) + 1
      BY <2>2, <2>4 DEF PvOf
    <3>3. \A d \in Days : d # x => PvOf(redis'.days, d) = PvOf(redis.days, d)
      BY <2>2, <2>4 DEF PvOf
    <3>4. 1 \in Nat
      OBVIOUS
    <3> QED
      BY <1>7, <1>11, <2>1, <3>1, <3>2, <3>3, <3>4
  <2>5. CASE redis' = twice
    <3>1. redis'.days \in Partly(Days, Field) /\ redis'.pv = redis.pv + 2 /\ redis.kind = "whole"
      BY <1>3, <2>2, <2>3, <2>5, RedisParts
    <3>2. PvOf(redis'.days, x) = PvOf(redis.days, x) + 2
      BY <1>5, <2>1, <2>2, <2>3, <2>5 DEF PvOf
    <3>3. \A d \in Days : d # x => PvOf(redis'.days, d) = PvOf(redis.days, d)
      BY <2>2, <2>3, <2>5 DEF PvOf
    <3>4. 2 \in Nat
      OBVIOUS
    <3> QED
      BY <1>7, <1>11, <2>1, <3>1, <3>2, <3>3, <3>4
  <2> QED
    BY <1>11, <2>4, <2>5 DEF once, twice
<1>12. CASE job.pc = "mark" /\ sql' = sql /\ redis' = Marked(job.visit.day, job.seq)
  <2> DEFINE x == job.visit.day
  <2>1. x \in Days /\ job.seq \in Nat
    BY <1>2, <1>12, JobParts DEF Typed, InPlace
  <2>2. /\ redis' \in RedisStates /\ redis.kind = "whole" /\ redis'.pv = redis.pv
        /\ DOMAIN redis'.days = DOMAIN redis.days \cup {x}
        /\ redis'.days[x].pv = PvOf(redis.days, x)
        /\ \A d \in DOMAIN redis.days : d # x => redis'.days[d] = redis.days[d]
    BY <1>2, <1>12, <2>1, MarkedFacts
  <2>3. \A d \in Days : PvOf(redis'.days, d) = PvOf(redis.days, d)
    BY <2>2 DEF PvOf
  <2>4. redis'.days \in Partly(Days, Field) /\ \A d \in Days : PvOf(redis'.days, d) <= PvOf(redis.days, d)
    BY <1>5, <2>2, <2>3, RedisParts
  <2> QED
    BY <1>6, <1>12, <2>2, <2>4
<1>13. CASE sql' = sql /\ redis' = Acknowledged(job.snap.seq, job.now + 1 - HotDays)
  <2>1. job.snap.seq \in Nat /\ job.now + 1 - HotDays \in Int
    BY <1>2, JobParts, RedisParts, Budgets
  <2>2. /\ redis' \in RedisStates /\ redis'.kind = redis.kind /\ redis'.pv = redis.pv
        /\ DOMAIN redis'.days \subseteq DOMAIN redis.days
        /\ \A d \in DOMAIN redis'.days : redis'.days[d] = redis.days[d]
    BY <1>2, <1>13, <2>1, AcknowledgedFacts
  <2>3. \A d \in Days : PvOf(redis'.days, d) = PvOf(redis.days, d) \/ PvOf(redis'.days, d) = 0
    BY <2>2 DEF PvOf
  <2>4. redis'.days \in Partly(Days, Field) /\ \A d \in Days : PvOf(redis'.days, d) <= PvOf(redis.days, d)
    BY <1>5, <2>2, <2>3, RedisParts
  <2> QED
    BY <1>6, <1>13, <2>2, <2>4
<1>14. CASE LoseKeys
  <2>1. redis.kind = "whole" /\ redis'.pv = redis.pv /\ redis'.days = redis.days
    BY <1>2, <1>14, LostFacts
  <2>2. sql' = sql
    BY <1>14 DEF LoseKeys
  <2> QED
    BY <1>4, <2>1, <2>2
<1>15. ASSUME job.pc \in {"visit", "marks", "persist"}, sql' = sql,
              NEW at \in Days, redis' = IF Keeps THEN Merged ELSE Restored(at)
       PROVE  SumOf(Top(redis'.days, sql'.days), Days) <= redis'.pv
  <2>1. (Keeps /\ redis' = Merged) \/ redis' = Restored(at)
    BY <1>15
  <2> QED
    BY <1>9, <1>15, <2>1
<1>16. ASSUME job.pc \in {"visit", "marks", "persist"}, sql' = sql, Keeps,
              NEW at \in Days, redis' = Restored(at)
       PROVE  SumOf(Top(redis'.days, sql'.days), Days) <= redis'.pv
  BY <1>9, <1>16
<1> QED
  BY <1>1, <1>8, <1>10, <1>11, <1>12, <1>13, <1>14, <1>15, <1>16 DEF RedisMoves

\* So do the rows.
LEMMA RowsWithin ==
  ASSUME Typed, Within, [StatsNext]_statsVars, "rewind" \notin mishaps'
  PROVE  SumOf(Alone(sql'.days), Days) <= sql'.pv
<1>1. RowMoves /\ "rewind" \notin mishaps
  BY RowSources, MishapsGrow
<1>2. sql \in RowStates /\ job.snap \in RedisStates
  BY JobParts DEF Typed, Shape
<1>3. sql.days \in Partly(Days, RowField) /\ job.snap.days \in Partly(Days, Field) /\ sql.pv \in Nat /\ job.snap.pv \in Nat
  BY <1>2, RedisParts, RowParts
<1>4. /\ job.pc = "commit" => SumOf(Top(job.snap.days, sql.days), Days) <= job.snap.pv
      /\ SumOf(Alone(sql.days), Days) <= sql.pv
  BY <1>1 DEF Within
<1>5. \A d \in Days : PvOf(job.snap.days, d) \in Nat /\ PvOf(sql.days, d) \in Nat
  BY <1>3, PvNat
<1>6. CASE sql' = sql
  BY <1>4, <1>6
<1>7. CASE Commit /\ job.pc = "commit" /\ sql' = Rows(job.snap, job.now)
  <2>1. /\ job.now \in Days /\ {All} \cup DOMAIN job.snap.days \subseteq DOMAIN job.snap.hll
    BY <1>7 DEF Typed, InPlace
  <2> DEFINE K == Kept(job.snap, job.now)
  <2>2. /\ sql' \in RowStates /\ DOMAIN sql'.days = DOMAIN sql.days \cup K /\ sql'.pv = job.snap.pv
        /\ \A d \in K : sql'.days[d].pv = job.snap.days[d].pv
        /\ \A d \in DOMAIN sql.days \ K : sql'.days[d] = sql.days[d]
        /\ K \subseteq DOMAIN job.snap.days
    BY <1>2, <1>7, <2>1, RowsFacts
  <2> HIDE DEF K
  <2>3. \A d \in Days : PvOf(sql'.days, d) = PvOf(job.snap.days, d) \/ PvOf(sql'.days, d) = PvOf(sql.days, d)
    BY <2>2 DEF PvOf
  <2>4. sql'.days \in Partly(Days, RowField)
    BY <2>2, RowParts
  <2>5. SumOf(Alone(sql'.days), Days) <= SumOf(Top(job.snap.days, sql.days), Days) /\ SumOf(Alone(sql'.days), Days) \in Nat
    BY <1>3, <1>5, <2>3, <2>4, AloneBelow
  <2>6. SumOf(Top(job.snap.days, sql.days), Days) \in Nat
    BY <1>3, TopSum
  <2> QED
    BY <1>3, <1>4, <1>7, <2>2, <2>5, <2>6
<1>8. CASE Cleanup
  <2>1. /\ sql' \in RowStates /\ DOMAIN sql'.days \subseteq DOMAIN sql.days /\ sql'.pv = sql.pv
        /\ \A d \in DOMAIN sql'.days : sql'.days[d] = sql.days[d]
    BY <1>8, CleanupRows
  <2>2. \A d \in Days : PvOf(sql'.days, d) = PvOf(sql.days, d) \/ PvOf(sql'.days, d) = 0
    BY <2>1 DEF PvOf
  <2>3. sql'.days \in Partly(Days, RowField)
    BY <2>1, RowParts
  <2>4. \A d \in Days : Alone(sql'.days)[d] \in Nat /\ Alone(sql.days)[d] \in Nat /\ Alone(sql'.days)[d] <= Alone(sql.days)[d]
    BY <1>5, <2>2 DEF Alone
  <2>5. SumOf(Alone(sql'.days), Days) <= SumOf(Alone(sql.days), Days)
        /\ SumOf(Alone(sql'.days), Days) \in Nat /\ SumOf(Alone(sql.days), Days) \in Nat
    BY <2>4, SumBelow
  <2> QED
    BY <1>3, <1>4, <2>1, <2>5
<1> QED
  BY <1>1, <1>6, <1>7, <1>8 DEF RowMoves

\* The days sum to no more than the total after any step.
LEMMA WithinStays ==
  ASSUME Typed, SnapIsRedis, Within, [StatsNext]_statsVars
  PROVE  Within'
<1> SUFFICES ASSUME "rewind" \notin mishaps'
    PROVE  /\ redis'.kind = "whole" => SumOf(Top(redis'.days, sql'.days), Days) <= redis'.pv
           /\ job'.pc = "commit" => SumOf(Top(job'.snap.days, sql'.days), Days) <= job'.snap.pv
           /\ SumOf(Alone(sql'.days), Days) <= sql'.pv
  BY DEF Within
<1>1. SnapMoves /\ "rewind" \notin mishaps /\ job \in Jobs
  BY SnapSources, MishapsGrow DEF Typed, Shape
<1>2. ASSUME job'.pc = "commit" PROVE SumOf(Top(job'.snap.days, sql'.days), Days) <= job'.snap.pv
  <2>1. CASE job' = job /\ sql' = sql
    BY <1>1, <1>2, <2>1 DEF Within
  <2>2. CASE /\ Readable /\ UNCHANGED <<redis, sql, seen>>
             /\ job' = [job EXCEPT !.pc = IF redis.seq > redis.ack THEN "commit" ELSE "ack",
                             !.snap = redis, !.now = today, !.seen = seen]
    <3>1. job'.snap = redis /\ redis.kind = "whole" /\ sql' = sql
      BY <1>1, <2>2 DEF Jobs, Readable
    <3> QED
      BY <1>1, <3>1 DEF Within
  <2>3. CASE job' = [job EXCEPT !.pc = "ack"]
    <3>1. job'.pc = "ack"
      BY <1>1, <2>3 DEF Jobs
    <3> QED
      BY <1>2, <3>1
  <2> QED
    BY <1>1, <1>2, <2>1, <2>2, <2>3 DEF SnapMoves
<1> QED
  BY <1>2, RedisWithin, RowsWithin

\* They do at the start.
LEMMA InitWithin == StatsInit => SnapIsRedis /\ Within
<1> SUFFICES ASSUME StatsInit PROVE SnapIsRedis /\ Within
  OBVIOUS
<1>1. job.pc = "idle" /\ redis.kind = "none" /\ sql.pv = 0 /\ DOMAIN sql.days = {}
  BY IdleFacts DEF StatsInit, NoRedis, NoRows, NoEntries
<1>2. \A d \in Days : Alone(sql.days)[d] = 0
  BY <1>1 DEF Alone, PvOf
<1>3. SumOf(Alone(sql.days), Days) = 0
  BY <1>2, DayNumbers, SumNone
<1> QED
  BY <1>1, <1>3 DEF SnapIsRedis, Within

\* They always do.
LEMMA StatsWithin == StatsSpec => [](Typed /\ SnapIsRedis /\ Within)
<1>1. Typed /\ SnapIsRedis /\ Within /\ [StatsNext]_statsVars => (SnapIsRedis /\ Within)'
  BY SnapStays, WithinStays
<1> QED
  BY <1>1, InitWithin, StatsTyped, PTL DEF StatsSpec

\* The sum that DaysWithinTotal states.
LEMMA DailySum ==
  ASSUME Typed
  PROVE  MapThenSumSet(LAMBDA d : sql.days[d].pv, DOMAIN sql.days) = SumOf(Alone(sql.days), DOMAIN sql.days)
<1> DEFINE D == MapThenSumSet(LAMBDA d : sql.days[d].pv, DOMAIN sql.days)
           w == [d \in DOMAIN sql.days |-> sql.days[d].pv]
           IsDaily(g) == g = [s \in SUBSET DOMAIN sql.days |->
                                IF s = {} THEN 0 ELSE sql.days[Pick(s)].pv + g[s \ {Pick(s)}]]
<1>1. D = (CHOOSE g : IsDaily(g))[DOMAIN sql.days]
  BY DEF MapThenSumSet, MapThenFoldSet, Pick
<1>2. ASSUME NEW g PROVE IsDaily(g) <=> IsSum(w, g, DOMAIN sql.days)
  <2>1. \A s \in SUBSET DOMAIN sql.days : s # {} => Pick(s) \in DOMAIN sql.days /\ w[Pick(s)] = sql.days[Pick(s)].pv
    BY PickIn
  <2> QED
    BY <2>1 DEF IsSum, SumEntry
<1>3. IsFiniteSet(DOMAIN sql.days) /\ DOMAIN sql.days \subseteq Days
  BY DayNumbers, RowParts, FS_Subset DEF Typed, Shape
<1>4. PICK g : IsSum(w, g, DOMAIN sql.days) /\ SumOf(w, DOMAIN sql.days) = g[DOMAIN sql.days]
  BY <1>3, SumIsSolution
<1>5. IsDaily(g)
  BY <1>2, <1>4
<1> DEFINE h == CHOOSE k : IsDaily(k)
<1>6. IsDaily(h)
  BY <1>5
<1>7. IsSum(w, h, DOMAIN sql.days)
  <2> HIDE DEF h, w, IsDaily
  <2> QED
    BY <1>2, <1>6
<1> HIDE DEF IsDaily
<1>8. h[DOMAIN sql.days] = g[DOMAIN sql.days]
  <2> HIDE DEF h, w
  <2> QED
    BY <1>3, <1>4, <1>7, SolutionsAgree
<1>9. \A d \in DOMAIN sql.days : w[d] = Alone(sql.days)[d]
  BY <1>3 DEF Alone, PvOf
<1>10. SumOf(w, DOMAIN sql.days) = SumOf(Alone(sql.days), DOMAIN sql.days)
  <2> HIDE DEF w
  <2> QED
    BY <1>3, <1>9, SumSame
<1> QED
  BY <1>1, <1>4, <1>8, <1>10

\* DaysWithinTotal: one snapshot gives both, and a restore replaces both.
THEOREM DaysWithinTheorem == StatsSpec => []DaysWithinTotal
<1>1. Typed /\ Within => DaysWithinTotal
  <2> SUFFICES ASSUME Typed, Within, "rewind" \notin mishaps
      PROVE MapThenSumSet(LAMBDA d : sql.days[d].pv, DOMAIN sql.days) <= sql.pv
    BY DEF DaysWithinTotal
  <2>1. sql.days \in Partly(Days, RowField) /\ DOMAIN sql.days \subseteq Days /\ sql.pv \in Nat
    BY RowParts DEF Typed, Shape
  <2>2. \A d \in Days : Alone(sql.days)[d] \in Nat
    BY <2>1, PvNat DEF Alone
  <2>3. SumOf(Alone(sql.days), DOMAIN sql.days) <= SumOf(Alone(sql.days), Days)
    BY <2>1, <2>2, DayNumbers, SumMonotone
  <2>4. SumOf(Alone(sql.days), Days) <= sql.pv
    BY DEF Within
  <2>5. SumOf(Alone(sql.days), DOMAIN sql.days) \in Nat /\ SumOf(Alone(sql.days), Days) \in Nat
    <3>1. IsFiniteSet(DOMAIN sql.days) /\ \A d \in DOMAIN sql.days : Alone(sql.days)[d] \in Nat
      BY <2>1, <2>2, DayNumbers, FS_Subset
    <3> QED
      BY <2>2, <3>1, DayNumbers, SumType
  <2> QED
    BY <2>1, <2>3, <2>4, <2>5, DailySum
<1> QED
  BY <1>1, StatsWithin, PTL

\* CountsSound: the types, no more visits in the total than were offered, and no more in the days
\* than in the total.
THEOREM CountsSoundTheorem == StatsSpec => []CountsSound
BY StatsTypesTheorem, NoInflationTheorem, DaysWithinTheorem, PTL DEF CountsSound

-----------------------------------------------------------------------------
(* What a step does to the gaps *)

\* A noted gap is in the table or behind the overflow.
LEMMA NotedGap ==
  ASSUME Typed, NEW d \in Days, noteGap(d)
  PROVE  /\ gaps \subseteq gaps' /\ gaps' \subseteq Days
         /\ overflow => overflow'
         /\ d \in gaps' \/ Spilled'
         /\ "spill" \notin mishaps' => d \in gaps'
<1>1. /\ gaps \in SUBSET Days /\ Cardinality(gaps) <= QueueSize /\ overflow \in BOOLEAN
  BY DEF Typed, Shape, InPlace
<1>2. gaps \subseteq gaps' /\ gaps' \subseteq Days /\ ("spill" \notin mishaps' => d \in gaps')
  BY <1>1, NoteGapFacts
<1>3. CASE d \notin gaps /\ ("gaps" \in crowd \/ Cardinality(gaps) >= QueueSize)
  <2>1. overflow' = TRUE /\ mishaps' = mishaps \cup {"spill"}
    BY <1>3 DEF noteGap
  <2> QED
    BY <1>2, <2>1 DEF Spilled
<1>4. CASE ~(d \notin gaps /\ ("gaps" \in crowd \/ Cardinality(gaps) >= QueueSize))
  <2>1. d \in gaps' /\ overflow' = overflow
    BY <1>4 DEF noteGap
  <2> QED
    BY <1>2, <2>1
<1> QED
  BY <1>3, <1>4

\* Only Flush and a crash take gaps from the table.
LEMMA GapsGrow ==
  ASSUME Typed, [StatsNext]_statsVars
  PROVE  (gaps \subseteq gaps' /\ (overflow => overflow')) \/ SwapGaps \/ Crash
<1>0. today \in Days
  BY DEF Typed, Shape
<1>1. ASSUME NEW d \in Days, noteGap(d) PROVE gaps \subseteq gaps' /\ (overflow => overflow')
  BY <1>1, NotedGap
<1>2. CASE Work
  <2>1. CASE ExpireVisit \/ ProcessFails \/ ProcessEnsure \/ VisitReserve \/ VisitWrite
    <3>1. job.visit.day \in Days
      BY <2>1 DEF Typed, InPlace, ExpireVisit, ProcessFails, ProcessEnsure, VisitReserve, VisitWrite
    <3> QED
      BY <1>1, <2>1, <3>1 DEF ExpireVisit, ProcessFails, ProcessEnsure, VisitReserve, VisitWrite, WriteUnknown, NoGap
  <2>2. CASE \E d \in Days : MarkEnsure(d)
    BY <1>1, <2>2 DEF MarkEnsure, Unmarked, NoGap
  <2>3. CASE MarkReserve \/ MarkWrite
    <3>1. job.visit.day \in Days
      BY <2>3 DEF Typed, InPlace, MarkReserve, MarkWrite
    <3> QED
      <4>1. MarkFails => gaps \subseteq gaps' /\ (overflow => overflow')
        BY <1>1, <3>1 DEF MarkFails, Unmarked, NoGap
      <4> QED
        BY <2>3, <4>1 DEF MarkReserve, MarkWrite, NoGap
  <2>4. CASE ReadSnapshot
    BY <1>0, <1>1, <2>4 DEF ReadSnapshot, NoGap
  <2>5. CASE TakeEvent \/ Scan \/ PersistEnsure \/ Commit \/ Acknowledge \/ Cleanup
    BY <2>5 DEF TakeEvent, Scan, PersistEnsure, Commit, Acknowledge, Cleanup
  <2> QED
    BY <1>2, <2>1, <2>2, <2>3, <2>4, <2>5 DEF Work
<1>3. CASE \E v \in Visitors : Record(v)
  BY <1>0, <1>1, <1>3 DEF Record, NoGap
<1>4. CASE ~Work /\ ~(\E v \in Visitors : Record(v))
  BY <1>4 DEF StatsNext, Close, BeginFlush, Midnight, Crowd, LoseKeys, SaveImage, Rewind, statsVars, memory
<1> QED
  BY <1>2, <1>3, <1>4

\* A gap stays unsettled until its mark is in Redis.
UnsettledMoves ==
  \/ /\ ~Settled => ~Settled'
     /\ "spill" \notin mishaps' => Unsettled \subseteq Unsettled'
  \/ /\ job.pc = "mark" /\ job'.pc = "marks" /\ redis' = Marked(job.visit.day, job.seq)
     /\ UNCHANGED <<sql, seen, covered>>
     /\ Unsettled \subseteq Unsettled' \cup {job.visit.day} /\ (pending' # {} \/ ~Settled')
     /\ "spill" \notin mishaps' => job.visit.day \in pending'
  \/ "crash" \in mishaps'
  \/ "forgotten" \in mishaps'

\* Every step is such a move of the unsettled days.
LEMMA UnsettledSources ==
  ASSUME Typed, [StatsNext]_statsVars
  PROVE  UnsettledMoves
<1>0. job \in Jobs /\ today \in Days
  BY DEF Typed, Shape
<1>1. job.pc \notin {"marks", "markseq", "mark"} => job.held = {}
  BY DEF Typed, InPlace
<1>2. ASSUME Unsettled \subseteq Unsettled', Spilled => Spilled' PROVE UnsettledMoves
  <2>1. ~Settled => ~Settled'
    BY <1>2 DEF Settled
  <2> QED
    BY <1>2, <2>1 DEF UnsettledMoves
<1>3. CASE SwapGaps
  <2>1. /\ job.held = {} /\ job'.held = gaps \cup IF overflow /\ known THEN {today} ELSE {}
        /\ overflow /\ ~known /\ "spill" \in mishaps => "forgotten" \in mishaps'
    BY <1>0, <1>1, <1>3 DEF SwapGaps, Jobs
  <2>2. Unsettled \subseteq Unsettled'
    BY <2>1 DEF Unsettled
  <2>3. CASE Spilled /\ ~known
    BY <2>1, <2>3 DEF Spilled, UnsettledMoves
  <2>4. CASE Spilled /\ known
    <3>1. today \in Unsettled'
      BY <2>1, <2>4 DEF Spilled, Unsettled
    <3> QED
      BY <2>2, <3>1 DEF Settled, UnsettledMoves
  <2>5. CASE ~Spilled
    BY <1>2, <2>2, <2>5
  <2> QED
    BY <2>3, <2>4, <2>5
<1>4. CASE Crash
  <2>1. "crash" \in mishaps' \/ (gaps \cup pending \cup job.held = {} /\ ~overflow)
    BY <1>4 DEF Crash
  <2>2. gaps \cup pending \cup job.held = {} /\ ~overflow => Settled /\ Unsettled = {}
    BY DEF Unsettled, Spilled, Settled
  <2> QED
    BY <2>1, <2>2 DEF UnsettledMoves
<1>12. ASSUME ~SwapGaps, ~Crash PROVE Spilled => Spilled'
  BY <1>12, GapsGrow, MishapsGrow DEF Spilled
<1>5. ASSUME NEW d \in Days, Unmarked(d) PROVE UnsettledMoves
  <2>1. gaps \subseteq gaps' /\ (d \in gaps' \/ Spilled') /\ ("spill" \notin mishaps' => d \in gaps')
    BY <1>5, NotedGap DEF Unmarked
  <2>2. job'.held = job.held \ {d}
    BY <1>0, <1>5 DEF Unmarked, Jobs
  <2>3. ~Settled'
    BY <2>1 DEF Settled, Unsettled
  <2>4. "spill" \notin mishaps' => Unsettled \subseteq Unsettled'
    BY <2>1, <2>2 DEF Unsettled
  <2> QED
    BY <2>3, <2>4 DEF UnsettledMoves
<1>6. ASSUME MarkFails, job.pc \in {"markseq", "mark"}, ~SwapGaps, ~Crash PROVE UnsettledMoves
  <2>1. CASE job.late
    <3>1. job.held = {} /\ gaps' = gaps
      BY <1>6, <2>1 DEF Typed, InPlace, MarkFails, NoGap
    <3> QED
      BY <1>2, <1>6, <1>12, <3>1 DEF Unsettled
  <2>2. CASE ~job.late
    <3>1. Unmarked(job.visit.day) /\ job.visit.day \in Days
      BY <1>6, <2>2 DEF Typed, InPlace, MarkFails
    <3> QED
      BY <1>5, <3>1
  <2> QED
    BY <2>1, <2>2
<1>7. CASE (\E d \in Days : MarkEnsure(d)) /\ ~SwapGaps /\ ~Crash
  <2>1. PICK d \in Days : MarkEnsure(d)
    BY <1>7
  <2>2. \/ job' = [job EXCEPT !.pc = "markseq", !.visit.day = d] /\ gaps' = gaps
        \/ Unmarked(d)
    BY <2>1 DEF MarkEnsure, NoGap
  <2>3. CASE job' = [job EXCEPT !.pc = "markseq", !.visit.day = d] /\ gaps' = gaps
    <3>1. job'.held = job.held
      BY <1>0, <2>3 DEF Jobs
    <3> QED
      BY <1>2, <1>7, <1>12, <2>3, <3>1 DEF Unsettled
  <2> QED
    BY <1>5, <2>2, <2>3
<1>8. CASE MarkReserve /\ ~SwapGaps /\ ~Crash
  <2>1. \/ job' = [job EXCEPT !.pc = "mark", !.seq = redis.seq + 1] /\ gaps' = gaps
        \/ MarkFails
    BY <1>8 DEF MarkReserve, NoGap
  <2>2. CASE job' = [job EXCEPT !.pc = "mark", !.seq = redis.seq + 1] /\ gaps' = gaps
    <3>1. job'.held = job.held
      BY <1>0, <2>2 DEF Jobs
    <3> QED
      BY <1>2, <1>8, <1>12, <2>2, <3>1 DEF Unsettled
  <2>3. job.pc = "markseq"
    BY <1>8 DEF MarkReserve
  <2> QED
    BY <1>6, <1>8, <2>1, <2>2, <2>3
<1>9. CASE MarkWrite /\ ~SwapGaps /\ ~Crash
  <2> DEFINE d == job.visit.day
             full == "pending" \in crowd \/ Cardinality(pending) >= QueueSize
  <2>0. job.pc = "mark" /\ UNCHANGED <<sql, seen, covered>>
    BY <1>9 DEF MarkWrite
  <2>1. \/ MarkFails
        \/ /\ redis' = Marked(d, job.seq) /\ gaps' = gaps
           /\ job' = [job EXCEPT !.pc = IF job.late THEN "read" ELSE "marks", !.held = @ \ {d},
                                  !.visit = NoVisit, !.seq = 0]
           /\ ~job.late => /\ pending' = IF full THEN pending ELSE pending \cup {d}
                           /\ overflow' = (overflow \/ full)
                           /\ mishaps' = mishaps \cup IF d \in pending' THEN {} ELSE {"spill"}
    BY <1>9 DEF MarkWrite
  <2>2. ASSUME redis' = Marked(d, job.seq), gaps' = gaps,
               job' = [job EXCEPT !.pc = IF job.late THEN "read" ELSE "marks", !.held = @ \ {d},
                                  !.visit = NoVisit, !.seq = 0],
               ~job.late => /\ pending' = IF full THEN pending ELSE pending \cup {d}
                            /\ overflow' = (overflow \/ full)
                            /\ mishaps' = mishaps \cup IF d \in pending' THEN {} ELSE {"spill"}
        PROVE  UnsettledMoves
    <3>1. job'.held = job.held \ {d} /\ (~job.late => job'.pc = "marks")
      BY <1>0, <2>2 DEF Jobs
    <3>2. CASE job.late
      <4>1. job.held = {}
        BY <3>2 DEF Typed, InPlace
      <4> QED
        BY <1>2, <1>9, <1>12, <2>2, <3>1, <4>1 DEF Unsettled
    <3>3. CASE ~job.late
      <4>1. Unsettled \subseteq Unsettled' \cup {d}
        BY <2>2, <3>1 DEF Unsettled
      <4>2. CASE d \in pending'
        BY <2>0, <2>2, <3>1, <3>3, <4>1, <4>2 DEF UnsettledMoves
      <4>3. CASE d \notin pending'
        <5>1. full
          BY <2>2, <3>3, <4>3
        <5>2. overflow' /\ "spill" \in mishaps'
          BY <2>2, <3>3, <4>3, <5>1
        <5> QED
          BY <2>0, <2>2, <3>1, <3>3, <4>1, <5>2 DEF Spilled, Settled, UnsettledMoves
      <4> QED
        BY <4>2, <4>3
    <3> QED
      BY <3>2, <3>3
  <2> QED
    BY <1>6, <1>9, <2>0, <2>1, <2>2
<1>10. CASE Scan /\ ~SwapGaps /\ ~Crash
  <2>1. job.held = {} /\ gaps' = gaps
    BY <1>10 DEF Scan
  <2> QED
    BY <1>2, <1>10, <1>12, <2>1 DEF Unsettled
<1>11. CASE /\ ~SwapGaps /\ ~Crash /\ ~(\E d \in Days : MarkEnsure(d)) /\ ~MarkReserve /\ ~MarkWrite /\ ~Scan
  <2>1. gaps \subseteq gaps'
    BY <1>11, GapsGrow
  <2>2. job.pc \in {"marks", "markseq", "mark"} => job' = job
    <3>1. CASE Work
      BY <1>11, <3>1 DEF Work, TakeEvent, ExpireVisit, ProcessEnsure, ProcessFails, VisitReserve, VisitWrite,
         PersistEnsure, ReadSnapshot, Commit, Acknowledge, Cleanup
    <3>2. CASE ~Work
      BY <1>11, <3>2 DEF StatsNext, Record, Close, BeginFlush, Midnight, Crowd, LoseKeys, SaveImage, Rewind, statsVars, memory
    <3> QED
      BY <3>1, <3>2
  <2> QED
    BY <1>1, <1>2, <1>11, <1>12, <2>1, <2>2 DEF Unsettled
<1> QED
  BY <1>3, <1>4, <1>7, <1>8, <1>9, <1>10, <1>11

\* A pending gap is let go by a commit only.
LEMMA PendingKept ==
  ASSUME Typed, [StatsNext]_statsVars
  PROVE  \/ pending \subseteq pending'
         \/ Commit /\ job.pc = "commit" /\ (sql.seq >= job.snap.seq => UNCHANGED <<sql, covered>>)
            /\ redis' = redis
         \/ "crash" \in mishaps'
<1>1. CASE Commit
  BY <1>1, CommitRows
<1>2. CASE Crash
  BY <1>2 DEF Crash
<1>3. CASE ~Commit /\ ~Crash
  <2>1. CASE Work
    BY <1>3, <2>1, WorkKeeps
  <2>2. CASE ~Work
    BY <1>3, <2>2 DEF StatsNext, Record, Close, BeginFlush, Midnight, Crowd, LoseKeys, SaveImage, Rewind, statsVars, memory
  <2> QED
    BY <2>1, <2>2
<1> QED
  BY <1>1, <1>2, <1>3

-----------------------------------------------------------------------------
(* No loss goes unmarked in the totals *)

\* A sequence number is reserved before anything is written with it.
LEMMA WriteSources ==
  ASSUME Typed, [StatsNext]_statsVars, job'.pc \in {"write", "mark"}
  PROVE  \/ job' = job /\ sql' = sql /\ (redis' = redis \/ LoseKeys \/ "rewind" \in mishaps')
         \/ redis' = Reserved /\ sql' = sql
<1>0. job \in Jobs /\ Idle \in Jobs
  BY IdleFacts DEF Typed, Shape
<1>1. Idle.pc = "idle" /\ EndFlush.pc = "cleanup" /\ Resume.pc \in {"idle", "drain"}
  BY <1>0, IdleFacts, ResumeFacts
<1>2. ASSUME NEW d \in Days, Unmarked(d) PROVE job'.pc = "marks"
  BY <1>0, <1>2 DEF Unmarked, Jobs
<1>3. ASSUME MarkFails PROVE job'.pc \in {"marks", "cleanup"}
  BY <1>0, <1>1, <1>3 DEF MarkFails, Unmarked, Jobs
<1>4. CASE Work
  <2>1. CASE TakeEvent
    BY <1>0, <2>1 DEF TakeEvent, Jobs
  <2>2. CASE ExpireVisit \/ ProcessFails \/ VisitWrite
    BY <1>1, <2>2 DEF ExpireVisit, ProcessFails, VisitWrite, WriteUnknown
  <2>3. CASE ProcessEnsure
    BY <1>0, <2>3 DEF ProcessEnsure, Jobs
  <2>4. CASE VisitReserve
    <3>1. job' # Resume
      BY <1>1
    <3> QED
      BY <2>4, <3>1 DEF VisitReserve, WriteUnknown
  <2>5. CASE SwapGaps
    BY <1>0, <2>5 DEF SwapGaps, Jobs
  <2>6. CASE \E d \in Days : MarkEnsure(d)
    <3>1. PICK d \in Days : MarkEnsure(d)
      BY <2>6
    <3>2. job' = [job EXCEPT !.pc = "markseq", !.visit.day = d] \/ Unmarked(d)
      BY <3>1 DEF MarkEnsure
    <3> QED
      BY <1>0, <1>2, <3>2 DEF Jobs
  <2>7. CASE MarkReserve
    <3>1. ~MarkFails
      BY <1>3
    <3> QED
      BY <2>7, <3>1 DEF MarkReserve
  <2>8. CASE MarkWrite
    <3>1. \/ MarkFails
          \/ job' = [job EXCEPT !.pc = IF job.late THEN "read" ELSE "marks", !.held = @ \ {job.visit.day},
                                !.visit = NoVisit, !.seq = 0]
      BY <2>8 DEF MarkWrite
    <3>2. MarkFails \/ job'.pc = IF job.late THEN "read" ELSE "marks"
      BY <1>0, <3>1 DEF Jobs
    <3> QED
      BY <1>3, <3>2
  <2>9. CASE Scan
    BY <1>0, <1>1, <2>9 DEF Scan, Jobs
  <2>10. CASE PersistEnsure
    BY <1>0, <1>1, <2>10 DEF PersistEnsure, Jobs
  <2>11. CASE ReadSnapshot
    <3>1. \/ job' = [job EXCEPT !.pc = "markseq", !.late = TRUE, !.visit.day = today]
          \/ job' = EndFlush
          \/ job' = [job EXCEPT !.pc = IF redis.seq > redis.ack THEN "commit" ELSE "ack",
                                !.snap = redis, !.now = today, !.seen = seen]
      BY <2>11 DEF ReadSnapshot
    <3>2. job'.pc \in {"markseq", "cleanup", "commit", "ack"}
      <4>1. CASE job' = [job EXCEPT !.pc = "markseq", !.late = TRUE, !.visit.day = today]
        BY <1>0, <4>1 DEF Jobs
      <4>2. CASE job' = EndFlush
        BY <1>1, <4>2
      <4>3. CASE job' = [job EXCEPT !.pc = IF redis.seq > redis.ack THEN "commit" ELSE "ack",
                                    !.snap = redis, !.now = today, !.seen = seen]
        <5>1. job'.pc = IF redis.seq > redis.ack THEN "commit" ELSE "ack"
          BY <1>0, <4>3 DEF Jobs
        <5> QED
          BY <5>1
      <4> QED
        BY <3>1, <4>1, <4>2, <4>3
    <3> QED
      BY <3>2
  <2>12. CASE Commit
    <3>1. job' = [job EXCEPT !.pc = "ack"] \/ job' = EndFlush
      BY <2>12, CommitRows
    <3> QED
      BY <1>0, <1>1, <3>1 DEF Jobs
  <2>13. CASE Acknowledge \/ Cleanup
    BY <1>1, <2>13 DEF Acknowledge, Cleanup
  <2> QED
    BY <1>4, <2>1, <2>2, <2>3, <2>4, <2>5, <2>6, <2>7, <2>8, <2>9, <2>10, <2>11, <2>12, <2>13 DEF Work
<1>5. CASE BeginFlush
  BY <1>0, <1>5 DEF BeginFlush, Jobs
<1>6. CASE Crash
  BY <1>1, <1>6 DEF Crash
<1>7. CASE ~Work /\ ~BeginFlush /\ ~Crash
  BY <1>7 DEF StatsNext, Record, Close, Midnight, Crowd, LoseKeys, SaveImage, Rewind, statsVars, memory
<1> QED
  BY <1>4, <1>5, <1>6, <1>7

\* Faults are not forgotten, so a state without them had none before.
LEMMA FineBefore ==
  ASSUME [StatsNext]_statsVars, Fine'
  PROVE  Fine /\ "rewind" \notin mishaps' /\ "retry" \notin mishaps' /\ "crash" \notin mishaps'
         /\ "forgotten" \notin mishaps'
BY MishapsGrow DEF Fine

\* Nobody notices a loss of keys when it happens.
LEMMA LossIsQuiet ==
  ASSUME LoseKeys
  PROVE  UNCHANGED <<sql, seen, covered, job, gaps, pending>>
BY DEF LoseKeys, memory

\* The rows after a commit.
LEMMA CommittedRows ==
  ASSUME Typed, job.pc = "commit", sql' = Rows(job.snap, job.now)
  PROVE  /\ sql' \in RowStates /\ sql'.pv = job.snap.pv /\ sql'.seq = job.snap.seq /\ sql'.quality = job.snap.quality
         /\ DOMAIN sql'.days = DOMAIN sql.days \cup Kept(job.snap, job.now)
         /\ Kept(job.snap, job.now) = {d \in DOMAIN job.snap.days : d >= job.now + 1 - RetentionDays}
         /\ \A d \in Kept(job.snap, job.now) : /\ sql'.days[d].pv = job.snap.days[d].pv
                                               /\ sql'.days[d].quality = job.snap.days[d].quality
         /\ \A d \in DOMAIN sql.days \ Kept(job.snap, job.now) : sql'.days[d] = sql.days[d]
<1>1. /\ sql \in RowStates /\ job.snap \in RedisStates /\ job.now \in Days
      /\ {All} \cup DOMAIN job.snap.days \subseteq DOMAIN job.snap.hll
  BY JobParts DEF Typed, Shape, InPlace
<1> QED
  BY <1>1, RowsFacts

\* A commit that lets the pending gaps go has written what is newer.
LEMMA CommitsNewer ==
  ASSUME Typed, Commit, sql.seq < job.snap.seq, job' = [job EXCEPT !.pc = "ack"]
  PROVE  sql' = Rows(job.snap, job.now)
<1> DEFINE new == Rows(job.snap, job.now)
<1>1. new.seq = job.snap.seq /\ sql.seq \in Nat /\ new.seq \in Nat
  BY JobParts, RedisParts, RowParts DEF Rows, Typed, Shape
<1>2. job' # EndFlush
  <2>1. job'.pc = "ack" /\ EndFlush.pc = "cleanup"
    BY IdleFacts DEF Typed, Shape, Jobs
  <2> QED
    BY <2>1
<1>3. ~(sql.seq >= new.seq)
  BY <1>1
<1> HIDE DEF new
<1>4. PersistWebProjectStats(new)
  BY <1>2 DEF Commit, new
<1>5. sql' = new
  BY <1>3, <1>4 DEF PersistWebProjectStats
<1> QED
  BY <1>5 DEF new

\* Redis stays ahead of the rows.
LEMMA AheadStays ==
  ASSUME Typed, SnapIsRedis, Ahead, [StatsNext]_statsVars
  PROVE  Ahead'
<1> SUFFICES ASSUME Fine', redis'.kind = "whole"
    PROVE  redis'.seq >= sql'.seq /\ (job'.pc \in {"write", "mark"} => redis'.seq > sql'.seq)
  BY DEF Ahead
<1>1. Fine /\ "rewind" \notin mishaps' /\ "retry" \notin mishaps' /\ RedisMoves /\ RowMoves /\ "rewind" \notin mishaps
  BY RedisSources, RowSources, FineBefore, MishapsGrow
<1>2. /\ redis \in RedisStates /\ sql \in RowStates /\ job \in Jobs /\ job.snap \in RedisStates
      /\ today \in Days /\ Restorable /\ redis.seq \in Nat /\ sql.seq \in Nat /\ job.snap.seq \in Nat
  BY JobParts, RedisParts, RowParts DEF Typed, Shape, InPlace
<1>3. redis.kind = "whole" => /\ redis.seq >= sql.seq
                              /\ job.pc \in {"write", "mark"} => redis.seq > sql.seq
  BY <1>1 DEF Ahead
<1>4. redis'.seq >= sql'.seq
  <2>1. CASE redis' = redis
    <3>1. CASE sql' = sql
      BY <1>3, <2>1, <3>1
    <3>2. CASE job.pc = "commit" /\ sql' = Rows(job.snap, job.now)
      <4>1. sql'.seq = job.snap.seq
        BY <3>2, CommittedRows
      <4>2. redis.seq = job.snap.seq
        BY <1>1, <2>1, <3>2 DEF SnapIsRedis
      <4> QED
        BY <1>2, <2>1, <4>1, <4>2
    <3>3. CASE Cleanup
      BY <1>3, <2>1, <3>3, CleanupRows
    <3> QED
      BY <1>1, <3>1, <3>2, <3>3 DEF RowMoves
  <2>2. CASE sql' = sql /\ \E at \in Days : redis' = IF Keeps THEN Merged ELSE Restored(at)
    <3>1. CASE Keeps
      <4>1. redis' = Merged /\ redis.kind = "whole" /\ redis'.seq = redis.seq
        BY <1>2, <2>2, <3>1, MergedFacts DEF Keeps, Readable
      <4> QED
        BY <1>3, <2>2, <4>1
    <3>2. CASE ~Keeps
      <4>1. PICK at \in Days : redis' = Restored(at)
        BY <2>2, <3>2
      <4>2. redis'.seq = IF Recovered THEN sql.seq + 1 ELSE sql.seq
        BY <1>2, <4>1, RestoredFacts
      <4>3. redis'.seq = sql.seq + 1 \/ redis'.seq = sql.seq
        BY <4>2
      <4> QED
        BY <1>2, <2>2, <4>3
    <3> QED
      BY <3>1, <3>2
  <2>3. CASE sql' = sql /\ redis' = Reserved
    <3>1. redis.kind = "whole" /\ redis'.seq = redis.seq + 1
      BY <1>2, <2>3, ReservedFacts
    <3> QED
      BY <1>2, <1>3, <2>3, <3>1
  <2>4. CASE job.pc = "write" /\ sql' = sql /\ redis' = Counted(job.visit, job.seq, job.fresh)
    <3>1. job.visit.day \in Days /\ job.visit.who \subseteq Visitors /\ job.seq \in Nat /\ job.fresh \in BOOLEAN
      BY <1>2, <2>4, JobParts DEF Typed, InPlace
    <3>2. redis.kind = "whole" /\ redis'.seq = redis.seq
      BY <1>2, <2>4, <3>1, CountedFacts
    <3> QED
      BY <1>3, <2>4, <3>2
  <2>5. CASE job.pc = "mark" /\ sql' = sql /\ redis' = Marked(job.visit.day, job.seq)
    <3>1. job.visit.day \in Days /\ job.seq \in Nat
      BY <1>2, <2>5, JobParts DEF Typed, InPlace
    <3>2. redis.kind = "whole" /\ redis'.seq = redis.seq
      BY <1>2, <2>5, <3>1, MarkedFacts
    <3> QED
      BY <1>3, <2>5, <3>2
  <2>6. CASE sql' = sql /\ redis' = Acknowledged(job.snap.seq, job.now + 1 - HotDays)
    <3>1. job.snap.seq \in Nat /\ job.now + 1 - HotDays \in Int
      BY <1>2, JobParts, Budgets
    <3>2. redis.kind = "whole" /\ redis'.seq = redis.seq
      BY <1>2, <2>6, <3>1, AcknowledgedFacts
    <3> QED
      BY <1>3, <2>6, <3>2
  <2>7. CASE LoseKeys
    <3>1. redis.kind = "whole" /\ redis'.seq = redis.seq /\ sql' = sql
      BY <1>2, <2>7, LostFacts, LossIsQuiet
    <3> QED
      BY <1>3, <3>1
  <2>8. CASE sql' = sql /\ \E at \in Days : redis' = Restored(at)
    <3>1. PICK at \in Days : redis' = Restored(at)
      BY <2>8
    <3>2. redis'.seq = sql.seq + 1 \/ redis'.seq = sql.seq
      BY <1>2, <3>1, RestoredFacts
    <3> QED
      BY <1>2, <2>8, <3>2
  <2> QED
    BY <1>1, <2>1, <2>2, <2>3, <2>4, <2>5, <2>6, <2>7, <2>8 DEF RedisMoves
<1>5. ASSUME job'.pc \in {"write", "mark"} PROVE redis'.seq > sql'.seq
  <2>1. CASE redis' = Reserved /\ sql' = sql
    <3>1. redis.kind = "whole" /\ redis'.seq = redis.seq + 1
      BY <1>2, <2>1, ReservedFacts
    <3> QED
      BY <1>2, <1>3, <2>1, <3>1
  <2>2. CASE job' = job /\ sql' = sql /\ (redis' = redis \/ LoseKeys)
    <3>1. redis.kind = "whole" /\ redis'.seq = redis.seq
      BY <1>2, <2>2, LostFacts
    <3> QED
      BY <1>3, <1>5, <2>2, <3>1
  <2> QED
    BY <1>1, <1>5, <2>1, <2>2, WriteSources
<1> QED
  BY <1>4, <1>5

\* A loss only Redis knows stays to be committed.
LEMMA DegradingStays ==
  ASSUME Typed, SnapIsRedis, Ahead, Degrading, [StatsNext]_statsVars
  PROVE  Degrading'
<1> SUFFICES ASSUME Fine', sql'.seq > 0, sql'.quality = "ok"
    PROVE  /\ redis'.kind = "whole" /\ redis'.quality = "degraded" => redis'.seq > sql'.seq
           /\ job'.pc = "commit" /\ job'.snap.quality = "degraded" => job'.snap.seq > sql'.seq
  BY DEF Degrading
<1>1. /\ Fine /\ "rewind" \notin mishaps' /\ "retry" \notin mishaps' /\ RedisMoves /\ RowMoves /\ SnapMoves
      /\ "rewind" \notin mishaps
  BY RedisSources, RowSources, SnapSources, FineBefore, MishapsGrow
<1>2. /\ redis \in RedisStates /\ sql \in RowStates /\ job \in Jobs /\ job.snap \in RedisStates
      /\ today \in Days /\ Restorable /\ redis.seq \in Nat /\ sql.seq \in Nat /\ job.snap.seq \in Nat
  BY JobParts, RedisParts, RowParts DEF Typed, Shape, InPlace
<1>3. ASSUME sql.seq > 0, sql.quality = "ok"
      PROVE  /\ redis.kind = "whole" /\ redis.quality = "degraded" => redis.seq > sql.seq
             /\ job.pc = "commit" /\ job.snap.quality = "degraded" => job.snap.seq > sql.seq
  BY <1>1, <1>3 DEF Degrading
<1>4. ASSUME redis'.kind = "whole", redis'.quality = "degraded" PROVE redis'.seq > sql'.seq
  <2>1. CASE redis' = redis
    <3>1. CASE sql' = sql
      BY <1>3, <1>4, <2>1, <3>1
    <3>2. CASE job.pc = "commit" /\ sql' = Rows(job.snap, job.now)
      <4>1. sql'.quality = job.snap.quality
        BY <3>2, CommittedRows
      <4>2. redis.quality = job.snap.quality
        BY <1>1, <1>4, <2>1, <3>2 DEF SnapIsRedis
      <4> QED
        BY <1>4, <2>1, <4>1, <4>2
    <3>3. CASE Cleanup
      <4>1. sql'.seq = sql.seq /\ sql'.quality = sql.quality
        BY <3>3, CleanupRows
      <4> QED
        BY <1>3, <1>4, <2>1, <4>1
    <3> QED
      BY <1>1, <3>1, <3>2, <3>3 DEF RowMoves
  <2>2. CASE sql' = sql /\ \E at \in Days : redis' = IF Keeps THEN Merged ELSE Restored(at)
    <3>1. CASE Keeps
      <4>1. redis' = Merged /\ redis.kind = "whole" /\ redis'.seq = redis.seq /\ redis'.quality = redis.quality
        BY <1>2, <2>2, <3>1, MergedFacts DEF Keeps, Readable
      <4> QED
        BY <1>3, <1>4, <2>2, <4>1
    <3>2. CASE ~Keeps
      <4>1. PICK at \in Days : redis' = Restored(at)
        BY <2>2, <3>2
      <4>2. redis'.seq = IF Recovered THEN sql.seq + 1 ELSE sql.seq
        BY <1>2, <4>1, RestoredFacts
      <4>3. Recovered
        BY <2>2 DEF Recovered
      <4> QED
        BY <1>2, <2>2, <4>2, <4>3
    <3> QED
      BY <3>1, <3>2
  <2>3. CASE sql' = sql /\ redis' = Reserved
    <3>1. redis.kind = "whole" /\ redis'.seq = redis.seq + 1 /\ redis'.quality = redis.quality
      BY <1>2, <1>4, <2>3, ReservedFacts
    <3> QED
      BY <1>2, <1>3, <1>4, <2>3, <3>1
  <2>4. CASE job.pc = "write" /\ sql' = sql /\ redis' = Counted(job.visit, job.seq, job.fresh)
    <3>1. job.visit.day \in Days /\ job.visit.who \subseteq Visitors /\ job.seq \in Nat /\ job.fresh \in BOOLEAN
      BY <1>2, <2>4, JobParts DEF Typed, InPlace
    <3>2. redis.kind = "whole" /\ redis'.seq = redis.seq /\ redis'.quality = redis.quality
      BY <1>2, <1>4, <2>4, <3>1, CountedFacts
    <3> QED
      BY <1>3, <1>4, <2>4, <3>2
  <2>5. CASE job.pc = "mark" /\ sql' = sql /\ redis' = Marked(job.visit.day, job.seq)
    <3>1. job.visit.day \in Days /\ job.seq \in Nat
      BY <1>2, <2>5, JobParts DEF Typed, InPlace
    <3>2. redis.kind = "whole" /\ redis'.seq = redis.seq
      BY <1>2, <1>4, <2>5, <3>1, MarkedFacts
    <3>3. redis.seq > sql.seq
      BY <1>1, <2>5, <3>2 DEF Ahead
    <3> QED
      BY <2>5, <3>2, <3>3
  <2>6. CASE sql' = sql /\ redis' = Acknowledged(job.snap.seq, job.now + 1 - HotDays)
    <3>1. job.snap.seq \in Nat /\ job.now + 1 - HotDays \in Int
      BY <1>2, JobParts, Budgets
    <3>2. redis.kind = "whole" /\ redis'.seq = redis.seq /\ redis'.quality = redis.quality
      BY <1>2, <1>4, <2>6, <3>1, AcknowledgedFacts
    <3> QED
      BY <1>3, <1>4, <2>6, <3>2
  <2>7. CASE LoseKeys
    <3>1. redis.kind = "whole" /\ redis'.seq = redis.seq /\ redis'.quality = redis.quality /\ sql' = sql
      BY <1>2, <1>4, <2>7, LostFacts, LossIsQuiet
    <3> QED
      BY <1>3, <1>4, <3>1
  <2>8. CASE sql' = sql /\ \E at \in Days : redis' = Restored(at)
    <3>1. PICK at \in Days : redis' = Restored(at)
      BY <2>8
    <3>2. Recovered
      BY <2>8 DEF Recovered
    <3>3. redis'.seq = sql.seq + 1
      BY <1>2, <3>1, <3>2, RestoredFacts
    <3> QED
      BY <1>2, <2>8, <3>3
  <2> QED
    BY <1>1, <2>1, <2>2, <2>3, <2>4, <2>5, <2>6, <2>7, <2>8 DEF RedisMoves
<1>5. ASSUME job'.pc = "commit", job'.snap.quality = "degraded" PROVE job'.snap.seq > sql'.seq
  <2>1. CASE job' = job /\ sql' = sql
    BY <1>3, <1>5, <2>1
  <2>2. CASE /\ Readable /\ UNCHANGED <<redis, sql, seen>>
             /\ job' = [job EXCEPT !.pc = IF redis.seq > redis.ack THEN "commit" ELSE "ack",
                             !.snap = redis, !.now = today, !.seen = seen]
    <3>1. job'.snap = redis /\ redis.kind = "whole" /\ sql' = sql
      BY <1>2, <2>2 DEF Jobs, Readable
    <3> QED
      BY <1>3, <1>5, <3>1
  <2>3. CASE job' = [job EXCEPT !.pc = "ack"]
    <3>1. job'.pc = "ack"
      BY <1>2, <2>3 DEF Jobs
    <3> QED
      BY <1>5, <3>1
  <2> QED
    BY <1>1, <1>5, <2>1, <2>2, <2>3 DEF SnapMoves
<1> QED
  BY <1>4, <1>5

\* One more visit of a day is one more in the sum.
LEMMA SettledSum ==
  ASSUME NEW f \in [Days -> Nat], NEW x \in Days
  PROVE  /\ SumOf([f EXCEPT ![x] = @ + 1], Days) = SumOf(f, Days) + 1 /\ SumOf(f, Days) \in Nat
<1> DEFINE g == [f EXCEPT ![x] = @ + 1]
<1>1. /\ \A d \in Days : f[d] \in Nat /\ g[d] \in Nat
      /\ \A d \in Days \ {x} : g[d] = f[d]
      /\ g[x] = f[x] + 1 /\ f[x] \in Nat
  OBVIOUS
<1>2. IsFiniteSet(Days)
  BY DayNumbers
<1> HIDE DEF g
<1>3. SumOf(g, Days) = SumOf(f, Days) - f[x] + g[x] /\ SumOf(f, Days) \in Nat
  BY <1>1, <1>2, SumChange, SumType
<1>4. SumOf(g, Days) = SumOf(f, Days) + 1
  BY <1>1, <1>3
<1> QED
  BY <1>3, <1>4 DEF g

\* Nothing is counted at the start.
LEMMA UnseenSum == SumOf(Unseen, Days) = 0
<1>1. \A d \in Days : Unseen[d] = 0
  BY DEF Unseen
<1> QED
  BY <1>1, DayNumbers, SumNone

\* Nothing to recover: the rows are as they were before the first commit.
LEMMA NoRecovery ==
  ASSUME Typed, ~Recovered, NEW at \in Days
  PROVE  /\ sql.seq = 0 /\ sql.pv = 0 /\ DOMAIN sql.days = {} /\ redis.kind = "none"
         /\ Restored(at).pv = 0 /\ Restored(at).seq = 0 /\ Restored(at).ack = 0 /\ DOMAIN Restored(at).days = {}
<1>1. /\ sql \in RowStates /\ today \in Days /\ Restorable /\ sql.seq \in Nat
      /\ sql.seq = 0 => sql.pv = 0 /\ DOMAIN sql.days = {}
  BY RowParts DEF Typed, Shape, InPlace
<1>2. sql.seq = 0 /\ redis.kind = "none"
  BY <1>1 DEF Recovered
<1> QED
  BY <1>1, <1>2, RestoredFacts

\* A total of Redis that is not degraded counts the visits that were settled.
LEMMA RedisExact ==
  ASSUME Typed, SnapIsRedis, Exact, [StatsNext]_statsVars,
         Fine', redis'.kind = "whole", redis'.quality = "ok", Settled'
  PROVE  redis'.pv = SumOf(seen', Days)
<1>1. /\ Fine /\ "rewind" \notin mishaps' /\ "retry" \notin mishaps' /\ "crash" \notin mishaps'
      /\ "forgotten" \notin mishaps'
      /\ RedisMoves /\ UnsettledMoves
  BY RedisSources, UnsettledSources, FineBefore
<1>2. /\ redis \in RedisStates /\ sql \in RowStates /\ job \in Jobs /\ job.snap \in RedisStates
      /\ today \in Days /\ Restorable /\ redis.pv \in Nat /\ seen \in [Days -> Nat]
  BY JobParts, RedisParts, RowParts DEF Typed, Shape, InPlace
<1>3. ASSUME redis.kind = "whole", redis.quality = "ok", Settled PROVE redis.pv = SumOf(seen, Days)
  BY <1>1, <1>3 DEF Exact
<1>4. Settled
  <2>1. CASE redis' = Marked(job.visit.day, job.seq) /\ job.pc = "mark"
    <3>1. job.visit.day \in Days /\ job.seq \in Nat
      BY <1>2, <2>1, JobParts DEF Typed, InPlace
    <3>2. redis'.quality = "degraded"
      BY <1>2, <2>1, <3>1, MarkedFacts
    <3> QED
      BY <3>2
  <2> QED
    BY <1>1, <2>1 DEF UnsettledMoves
<1>5. gaps' = {} /\ ~Spilled'
  BY DEF Settled, Unsettled
<1>6. ASSUME NEW d \in Days, noteGap(d) PROVE FALSE
  BY <1>5, <1>6, NotedGap
<1>7. SeenStays => seen' = seen
  BY <1>6 DEF SeenStays
<1>8. CASE redis' = redis /\ SeenStays
  BY <1>3, <1>4, <1>7, <1>8
<1>9. CASE /\ \E at \in Days : redis' = IF Keeps THEN Merged ELSE Restored(at)
           /\ seen' = IF Keeps \/ Recovered THEN seen ELSE Unseen
  <2>1. CASE Keeps
    <3>1. redis' = Merged /\ seen' = seen
      BY <1>9, <2>1
    <3>2. redis.kind = "whole" /\ redis'.pv = redis.pv /\ redis'.quality = redis.quality
      BY <1>2, <2>1, <3>1, MergedFacts DEF Keeps, Readable
    <3> QED
      BY <1>3, <1>4, <3>1, <3>2
  <2>2. CASE ~Keeps
    <3>1. PICK at \in Days : redis' = Restored(at)
      BY <1>9, <2>2
    <3>2. CASE Recovered
      <4>1. redis'.quality = "degraded"
        BY <1>2, <3>1, <3>2, RestoredFacts
      <4> QED
        BY <4>1
    <3>3. CASE ~Recovered
      <4>1. redis'.pv = 0 /\ seen' = Unseen
        BY <1>9, <2>2, <3>1, <3>3, NoRecovery
      <4> QED
        BY <4>1, UnseenSum
    <3> QED
      BY <3>2, <3>3
  <2> QED
    BY <2>1, <2>2
<1>10. CASE redis' = Reserved /\ SeenStays
  <2>1. redis.kind = "whole" /\ redis'.pv = redis.pv /\ redis'.quality = redis.quality
    BY <1>2, <1>10, ReservedFacts
  <2> QED
    BY <1>3, <1>4, <1>7, <1>10, <2>1
<1>11. CASE /\ job.pc = "write" /\ redis' = Counted(job.visit, job.seq, job.fresh)
            /\ seen' = Settle
  <2>1. job.visit.day \in Days /\ job.visit.who \subseteq Visitors /\ job.seq \in Nat /\ job.fresh \in BOOLEAN
    BY <1>2, <1>11, JobParts DEF Typed, InPlace
  <2>2. redis.kind = "whole" /\ redis'.pv = redis.pv + 1 /\ redis'.quality = redis.quality
    BY <1>2, <1>11, <2>1, CountedFacts
  <2>3. SumOf(seen', Days) = SumOf(seen, Days) + 1
    BY <1>2, <1>11, <2>1, SettledSum DEF Settle
  <2> QED
    BY <1>3, <1>4, <2>2, <2>3
<1>12. CASE job.pc = "mark" /\ redis' = Marked(job.visit.day, job.seq)
  <2>1. job.visit.day \in Days /\ job.seq \in Nat
    BY <1>2, <1>12, JobParts DEF Typed, InPlace
  <2>2. redis'.quality = "degraded"
    BY <1>2, <1>12, <2>1, MarkedFacts
  <2> QED
    BY <2>2
<1>13. CASE seen' = seen /\ redis' = Acknowledged(job.snap.seq, job.now + 1 - HotDays)
  <2>1. job.snap.seq \in Nat /\ job.now + 1 - HotDays \in Int
    BY <1>2, JobParts, RedisParts, Budgets
  <2>2. redis.kind = "whole" /\ redis'.pv = redis.pv /\ redis'.quality = redis.quality
    BY <1>2, <1>13, <2>1, AcknowledgedFacts
  <2> QED
    BY <1>3, <1>4, <1>13, <2>2
<1>14. CASE LoseKeys
  <2>1. redis.kind = "whole" /\ redis'.pv = redis.pv /\ redis'.quality = redis.quality /\ seen' = seen
    BY <1>2, <1>14, LostFacts, LossIsQuiet
  <2> QED
    BY <1>3, <1>4, <2>1
<1>15. CASE Keeps /\ \E at \in Days : redis' = Restored(at)
  <2>1. PICK at \in Days : redis' = Restored(at)
    BY <1>15
  <2>2. Recovered
    BY <1>15 DEF Keeps, Readable, Recovered
  <2>3. redis'.quality = "degraded"
    BY <1>2, <2>1, <2>2, RestoredFacts
  <2> QED
    BY <2>3
<1> QED
  BY <1>1, <1>8, <1>9, <1>10, <1>11, <1>12, <1>13, <1>14, <1>15 DEF RedisMoves

\* So does a snapshot of it.
LEMMA SnapExact ==
  ASSUME Typed, Exact, [StatsNext]_statsVars,
         Fine', job'.pc = "commit", job'.snap.quality = "ok", Settled'
  PROVE  job'.snap.pv = SumOf(job'.seen, Days)
<1>1. Fine /\ "crash" \notin mishaps' /\ "forgotten" \notin mishaps' /\ SnapMoves /\ UnsettledMoves /\ job \in Jobs /\ job' \in Jobs
  <2>1. Typed'
    BY StepTyped
  <2> QED
    BY <2>1, SnapSources, UnsettledSources, FineBefore DEF Typed, Shape
<1>4. Settled
  <2>1. job'.pc # "marks"
    OBVIOUS
  <2> QED
    BY <1>1, <2>1 DEF UnsettledMoves
<1>6. CASE job' = job
  BY <1>1, <1>4, <1>6 DEF Exact
<1>7. CASE /\ Readable /\ UNCHANGED <<redis, sql, seen>>
           /\ job' = [job EXCEPT !.pc = IF redis.seq > redis.ack THEN "commit" ELSE "ack",
                             !.snap = redis, !.now = today, !.seen = seen]
  <2>1. job'.snap = redis /\ job'.seen = seen /\ redis.kind = "whole"
    BY <1>1, <1>7 DEF Jobs, Readable
  <2> QED
    BY <1>1, <1>4, <2>1 DEF Exact
<1>8. CASE job' = [job EXCEPT !.pc = "ack"]
  <2>1. job'.pc = "ack"
    BY <1>1, <1>8 DEF Jobs
  <2> QED
    BY <2>1
<1> QED
  BY <1>1, <1>6, <1>7, <1>8 DEF SnapMoves

\* Committed rows that are not degraded count the visits that were settled, unless there is
\* a mark still to be committed.
LEMMA RowsExact ==
  ASSUME Typed, SnapIsRedis, Ahead, Degrading, Exact, [StatsNext]_statsVars,
         Fine', sql'.seq > 0, sql'.quality = "ok", sql'.pv # SumOf(covered', Days), Settled'
  PROVE  /\ pending' # {}
         /\ redis'.kind = "whole" => redis'.quality = "degraded"
         /\ job'.pc = "commit" => job'.snap.quality = "degraded"
<1>1. /\ Fine /\ "rewind" \notin mishaps' /\ "retry" \notin mishaps' /\ "crash" \notin mishaps'
      /\ "forgotten" \notin mishaps'
      /\ RedisMoves /\ RowMoves /\ SnapMoves /\ UnsettledMoves
  BY RedisSources, RowSources, SnapSources, UnsettledSources, FineBefore
<1>2. /\ redis \in RedisStates /\ sql \in RowStates /\ job \in Jobs /\ job.snap \in RedisStates
      /\ today \in Days /\ Restorable /\ sql.seq \in Nat /\ job.snap.seq \in Nat
  BY JobParts, RedisParts, RowParts DEF Typed, Shape, InPlace
\* A commit of a snapshot that is not degraded.
<1>3. CASE job.pc = "commit" /\ sql' = Rows(job.snap, job.now) /\ covered' = job.seen /\ Commit
  <2>1. sql'.pv = job.snap.pv /\ sql'.quality = job.snap.quality
    BY <1>3, CommittedRows
  <2>2. Settled
    BY <1>1, <1>3 DEF UnsettledMoves
  <2>3. job.snap.pv = SumOf(job.seen, Days)
    BY <1>1, <1>3, <2>1, <2>2 DEF Exact
  <2> QED
    BY <1>3, <2>1, <2>3
\* Else the rows stay as they were, but for the days out of the window.
<1>4. CASE UNCHANGED <<sql, covered>> \/ (Cleanup /\ job'.pc = "idle" /\ covered' = covered)
  <2>1. sql'.seq = sql.seq /\ sql'.quality = sql.quality /\ sql'.pv = sql.pv /\ covered' = covered
    BY <1>4, CleanupRows
  <2>2. sql.seq > 0 /\ sql.quality = "ok" /\ sql.pv # SumOf(covered, Days)
    BY <2>1
  <2>3. CASE Settled
    <3>1. /\ pending # {}
          /\ redis.kind = "whole" => redis.quality = "degraded"
          /\ job.pc = "commit" => job.snap.quality = "degraded"
      BY <1>1, <2>2, <2>3 DEF Exact
    <3>2. pending' # {}
      <4>1. CASE Commit /\ job.pc = "commit" /\ (sql.seq >= job.snap.seq => UNCHANGED <<sql, covered>>) /\ ~(pending \subseteq pending')
        <5>1. job.snap.seq > sql.seq
          BY <1>1, <2>2, <3>1, <4>1 DEF Degrading
        <5>2. pending' = {} /\ job' = [job EXCEPT !.pc = "ack"]
          BY <4>1, CommitRows
        <5>3. sql' = Rows(job.snap, job.now)
          BY <1>2, <4>1, <5>1, <5>2, CommitsNewer
        <5>4. sql'.seq = job.snap.seq
          BY <4>1, <5>3, CommittedRows
        <5> QED
          BY <1>2, <2>1, <5>1, <5>4
      <4> QED
        BY <1>1, <3>1, <4>1, PendingKept
    <3>3. ASSUME redis'.kind = "whole" PROVE redis'.quality = "degraded"
      <4>1. CASE redis' = redis
        BY <3>1, <3>3, <4>1
      <4>2. CASE sql' = sql /\ \E at \in Days : redis' = IF Keeps THEN Merged ELSE Restored(at)
        <5>1. CASE Keeps
          <6>1. redis' = Merged /\ redis.kind = "whole" /\ redis'.quality = redis.quality
            BY <1>2, <4>2, <5>1, MergedFacts DEF Keeps, Readable
          <6> QED
            BY <3>1, <6>1
        <5>2. CASE ~Keeps
          <6>1. PICK at \in Days : redis' = Restored(at)
            BY <4>2, <5>2
          <6>2. Recovered
            BY <2>2 DEF Recovered
          <6> QED
            BY <1>2, <6>1, <6>2, RestoredFacts
        <5> QED
          BY <5>1, <5>2
      <4>8. CASE \E at \in Days : redis' = Restored(at)
        <5>1. PICK at \in Days : redis' = Restored(at)
          BY <4>8
        <5>2. Recovered
          BY <2>2 DEF Recovered
        <5> QED
          BY <1>2, <5>1, <5>2, RestoredFacts
      <4>3. CASE redis' = Reserved
        <5>1. redis.kind = "whole" /\ redis'.quality = redis.quality
          BY <1>2, <3>3, <4>3, ReservedFacts
        <5> QED
          BY <3>1, <5>1
      <4>4. CASE job.pc = "write" /\ redis' = Counted(job.visit, job.seq, job.fresh)
        <5>1. job.visit.day \in Days /\ job.visit.who \subseteq Visitors /\ job.seq \in Nat /\ job.fresh \in BOOLEAN
          BY <1>2, <4>4, JobParts DEF Typed, InPlace
        <5>2. redis.kind = "whole" /\ redis'.quality = redis.quality
          BY <1>2, <3>3, <4>4, <5>1, CountedFacts
        <5> QED
          BY <3>1, <5>2
      <4>5. CASE job.pc = "mark" /\ redis' = Marked(job.visit.day, job.seq)
        <5>1. job.visit.day \in Days /\ job.seq \in Nat
          BY <1>2, <4>5, JobParts DEF Typed, InPlace
        <5> QED
          BY <1>2, <4>5, <5>1, MarkedFacts
      <4>6. CASE redis' = Acknowledged(job.snap.seq, job.now + 1 - HotDays)
        <5>1. job.snap.seq \in Nat /\ job.now + 1 - HotDays \in Int
          BY <1>2, JobParts, Budgets
        <5>2. redis.kind = "whole" /\ redis'.quality = redis.quality
          BY <1>2, <3>3, <4>6, <5>1, AcknowledgedFacts
        <5> QED
          BY <3>1, <5>2
      <4>7. CASE LoseKeys
        <5>1. redis.kind = "whole" /\ redis'.quality = redis.quality
          BY <1>2, <3>3, <4>7, LostFacts
        <5> QED
          BY <3>1, <5>1
      <4> QED
        BY <1>1, <4>1, <4>2, <4>3, <4>4, <4>5, <4>6, <4>7, <4>8 DEF RedisMoves
    <3>4. ASSUME job'.pc = "commit" PROVE job'.snap.quality = "degraded"
      <4>1. CASE job' = job
        BY <3>1, <3>4, <4>1
      <4>2. CASE /\ Readable
                 /\ job' = [job EXCEPT !.pc = IF redis.seq > redis.ack THEN "commit" ELSE "ack",
                                   !.snap = redis, !.now = today, !.seen = seen]
        <5>1. job'.snap = redis /\ redis.kind = "whole"
          BY <1>2, <4>2 DEF Jobs, Readable
        <5> QED
          BY <3>1, <5>1
      <4>3. CASE job' = [job EXCEPT !.pc = "ack"]
        <5>1. job'.pc = "ack"
          BY <1>2, <4>3 DEF Jobs
        <5> QED
          BY <3>4, <5>1
      <4> QED
        BY <1>1, <3>4, <4>1, <4>2, <4>3 DEF SnapMoves
    <3> QED
      BY <3>2, <3>3, <3>4
  <2>4. CASE ~Settled
    <3>1. /\ job.pc = "mark" /\ job'.pc = "marks" /\ redis' = Marked(job.visit.day, job.seq) /\ pending' # {}
      BY <1>1, <2>4 DEF UnsettledMoves
    <3>2. job.visit.day \in Days /\ job.seq \in Nat
      BY <1>2, <3>1, JobParts DEF Typed, InPlace
    <3>3. redis'.quality = "degraded"
      BY <1>2, <3>1, <3>2, MarkedFacts
    <3> QED
      BY <3>1, <3>3
  <2> QED
    BY <2>3, <2>4
<1> QED
  BY <1>1, <1>3, <1>4 DEF RowMoves

\* Totals that are not degraded stay exact.
LEMMA ExactStays ==
  ASSUME Typed, SnapIsRedis, Ahead, Degrading, Exact, [StatsNext]_statsVars
  PROVE  Exact'
BY RedisExact, SnapExact, RowsExact DEF Exact

\* They are exact at the start.
LEMMA InitExact == StatsInit => Ahead /\ Degrading /\ Exact
<1> SUFFICES ASSUME StatsInit PROVE Ahead /\ Degrading /\ Exact
  OBVIOUS
<1>1. job.pc = "idle" /\ redis.kind = "none" /\ sql.seq = 0
  BY IdleFacts DEF StatsInit, NoRedis, NoRows
<1> QED
  BY <1>1 DEF Ahead, Degrading, Exact

\* The invariant behind the totals.
TotalsInv == Typed /\ SnapIsRedis /\ Ahead /\ Degrading /\ Exact

\* The invariant of the totals holds.
LEMMA StatsTotals == StatsSpec => []TotalsInv
<1>1. TotalsInv /\ [StatsNext]_statsVars => TotalsInv'
  BY StepTyped, SnapStays, AheadStays, DegradingStays, ExactStays DEF TotalsInv
<1>2. StatsInit => TotalsInv
  BY InitTyped, InitWithin, InitExact DEF TotalsInv
<1> QED
  BY <1>1, <1>2, PTL DEF StatsSpec

\* The sum that HonestTotals states.
LEMMA CoveredSum == MapThenSumSet(LAMBDA d : covered[d], Days) = SumOf(covered, Days)
BY DEF SumOf

\* HonestTotals: a committed total that is not degraded counts every visit settled before its
\* snapshot, or a mark is still to be committed and the gap is pending.
THEOREM HonestTotalsTheorem == StatsSpec => []HonestTotals
<1>1. TotalsInv => HonestTotals
  <2> SUFFICES ASSUME TotalsInv, mishaps \cap {"crash", "retry", "rewind", "forgotten"} = {}, job.held = {}, ~overflow,
                      sql.seq > 0, Quality = "ok"
      PROVE sql.pv = MapThenSumSet(LAMBDA d : covered[d], Days)
    BY DEF HonestTotals
  <2>1. gaps \cup pending = {} /\ sql.quality = "ok"
    BY DEF Quality, ReportedGaps
  <2>2. Fine /\ Settled /\ pending = {}
    BY <2>1 DEF Fine, Unsettled, Spilled, Settled
  <2>3. sql.pv = SumOf(covered, Days)
    BY <2>1, <2>2 DEF TotalsInv, Exact
  <2> QED
    BY <2>3, CoveredSum
<1> QED
  BY <1>1, StatsTotals, PTL

-----------------------------------------------------------------------------
(* While Redis keeps its keys *)

\* A state without faults had none before.
LEMMA CalmBefore ==
  ASSUME Typed, [StatsNext]_statsVars, Calm'
  PROVE  /\ Calm /\ Fine /\ Fine' /\ mishaps' = {} /\ ~LoseKeys
         /\ "rewind" \notin mishaps' /\ "spill" \notin mishaps' /\ "crash" \notin mishaps' /\ "retry" \notin mishaps'
         /\ "misread" \notin mishaps' /\ "forgotten" \notin mishaps'
<1>1. mishaps' = {} /\ anew' = {}
  BY DEF Calm
<1>2. mishaps = {}
  BY <1>1, MishapsGrow
<1>3. anew \subseteq anew'
  BY DEF StatsNext, Work, Record, Close, BeginFlush, Midnight, Crowd, LoseKeys, SaveImage, Rewind, Crash, statsVars
<1>4. ~LoseKeys
  BY <1>1 DEF LoseKeys
<1> QED
  BY <1>1, <1>2, <1>3, <1>4 DEF Calm, Fine

\* Time goes on, and with it the windows.
LEMMA TodayGrows ==
  ASSUME Typed, [StatsNext]_statsVars
  PROVE  /\ today \in Int /\ today' \in Int /\ today' >= today
         /\ hotFrom \in Int /\ hotFrom' \in Int /\ lower \in Int /\ lower' \in Int
         /\ hotFrom' >= hotFrom /\ lower' >= lower
<1>1. today \in Int
  BY DayNumbers DEF Typed, Shape, Days
<1>2. today' = today \/ today' = today + 1
  <2>1. CASE Work
    BY <2>1, WorkKeeps
  <2>2. CASE ~Work
    BY <2>2 DEF StatsNext, Record, Close, BeginFlush, Midnight, Crowd, LoseKeys, SaveImage, Rewind, Crash, statsVars
  <2> QED
    BY <2>1, <2>2
<1>3. HotDays \in Int /\ RetentionDays \in Int
  BY Budgets
<1> QED
  BY <1>1, <1>2, <1>3 DEF hotFrom, lower

\* No day with a row is begun anew.
LEMMA NoDayAnew ==
  ASSUME Typed, [StatsNext]_statsVars, Calm', job.pc \in {"write", "mark"}
  PROVE  \A d \in DOMAIN sql.days : d \in DOMAIN redis'.days => d \in DOMAIN redis.days
<1>1. anew' = {} /\ ~LoseKeys /\ "rewind" \notin mishaps'
  BY CalmBefore DEF Calm
<1>2. CASE Work
  BY <1>1, <1>2 DEF Work, BeginsAnew
<1>3. CASE ~Work
  <2>1. ~Rewind
    BY <1>1 DEF Rewind
  <2>2. redis' = redis
    BY <1>1, <1>3, <2>1 DEF StatsNext, Record, Close, BeginFlush, Midnight, Crowd, SaveImage, Crash, statsVars
  <2> QED
    BY <2>2
<1> QED
  BY <1>2, <1>3

\* What ensure finds.
LEMMA CalmKeeps ==
  ASSUME Typed, KeepsKeys, Ahead, Calm
  PROVE  /\ redis.kind = "whole" => Keeps
         /\ redis.kind # "whole" => ~Keeps /\ ~Recovered
<1>1. /\ redis \in RedisStates /\ sql \in RowStates /\ sql.seq \in Nat /\ sql.pv \in Nat /\ redis.pv \in Nat /\ redis.seq \in Nat
      /\ \A d \in DOMAIN sql.days : sql.days[d].pv \in Nat
      /\ \A d \in DOMAIN redis.days : redis.days[d].pv \in Nat
      /\ DOMAIN sql.days \subseteq Days /\ Days \subseteq Int
  BY RedisParts, RowParts, DayNumbers DEF Typed, Shape
<1>2. Keyed /\ Fine
  BY DEF KeepsKeys, Calm, Fine
<1>3. ASSUME redis.kind = "whole" PROVE Keeps
  <2>1. Readable /\ redis.seq >= sql.seq
    BY <1>2, <1>3 DEF Keyed, Ahead
  <2>2. ~(redis.pv < sql.pv)
    BY <1>1, <1>2 DEF Keyed
  <2>3. hotFrom \in Int
    BY Budgets, DayNumbers DEF Typed, Shape, Days, hotFrom
  <2>4. ASSUME NEW d \in Window
        PROVE  ~(IF d \in DOMAIN redis.days THEN redis.days[d].pv < sql.days[d].pv ELSE d >= hotFrom)
    <3>1. d \in DOMAIN sql.days /\ d \in Int
      BY <1>1, <2>4 DEF Window
    <3>2. CASE d \in DOMAIN redis.days
      BY <1>1, <1>2, <3>1, <3>2 DEF Keyed
    <3>3. CASE d \notin DOMAIN redis.days
      BY <1>2, <2>3, <3>1, <3>3 DEF Keyed
    <3> QED
      BY <3>2, <3>3
  <2>5. ~redisPVRegressed
    BY <2>2, <2>4 DEF redisPVRegressed
  <2> QED
    BY <2>1, <2>5 DEF Keeps
<1>4. ASSUME redis.kind # "whole" PROVE ~Keeps /\ ~Recovered
  <2>1. redis = NoRedis /\ sql.seq = 0 /\ redis.kind = "none"
    BY <1>2, <1>4 DEF Keyed
  <2>2. DOMAIN redis.hll = {}
    BY <2>1 DEF NoRedis, NoEntries
  <2> QED
    BY <1>1, <1>4, <2>1, <2>2 DEF Keeps, Readable, Recovered
<1> QED
  BY <1>3, <1>4

\* What a step may do to Redis then.
CalmMoves ==
  \/ redis' = redis /\ SeenStays
  \/ redis.kind = "whole" /\ redis' = Merged /\ sql' = sql /\ seen' = seen
  \/ redis.kind # "whole" /\ ~Recovered /\ sql' = sql /\ seen' = Unseen /\ \E at \in Days : redis' = Restored(at)
  \/ redis.kind = "whole" /\ sql' = sql /\ redis' = Reserved /\ SeenStays
  \/ /\ redis.kind = "whole" /\ job.pc = "write" /\ sql' = sql /\ redis' = Counted(job.visit, job.seq, job.fresh)
     /\ seen' = Settle /\ (noteGap(job.visit.day) \/ gaps' = gaps)
  \/ redis.kind = "whole" /\ job.pc = "mark" /\ sql' = sql /\ redis' = Marked(job.visit.day, job.seq) /\ seen' = seen
  \/ /\ redis.kind = "whole" /\ job.pc = "ack" /\ sql' = sql /\ seen' = seen
     /\ redis' = Acknowledged(job.snap.seq, job.now + 1 - HotDays)

\* Every step is such a move of Redis.
LEMMA CalmSources ==
  ASSUME Typed, KeepsKeys, Ahead, [StatsNext]_statsVars, Calm'
  PROVE  CalmMoves
<1>1. /\ Calm /\ RedisMoves /\ ~LoseKeys /\ "rewind" \notin mishaps' /\ "retry" \notin mishaps'
      /\ "misread" \notin mishaps'
  BY CalmBefore, RedisSources
<1>2. job.pc \in Ensuring => redis.kind = "whole"
  BY <1>1 DEF KeepsKeys
<1>3. /\ redis.kind = "whole" => Keeps
      /\ redis.kind # "whole" => ~Keeps /\ ~Recovered
  BY <1>1, CalmKeeps
<1>4. CASE redis' = redis /\ SeenStays
  BY <1>4 DEF CalmMoves
<1>5. CASE /\ job.pc \in {"visit", "marks", "persist"} /\ sql' = sql
           /\ \E at \in Days : redis' = IF Keeps THEN Merged ELSE Restored(at)
           /\ seen' = IF Keeps \/ Recovered THEN seen ELSE Unseen
  BY <1>3, <1>5 DEF CalmMoves
<1>6. CASE job.pc \in {"reserve", "markseq"} /\ sql' = sql /\ redis' = Reserved /\ SeenStays
  BY <1>2, <1>6 DEF CalmMoves, Ensuring
<1>7. CASE /\ job.pc = "write" /\ sql' = sql /\ redis' = Counted(job.visit, job.seq, job.fresh)
           /\ seen' = Settle /\ (noteGap(job.visit.day) \/ gaps' = gaps)
  BY <1>2, <1>7 DEF CalmMoves, Ensuring
<1>8. CASE job.pc = "mark" /\ sql' = sql /\ redis' = Marked(job.visit.day, job.seq) /\ seen' = seen
  BY <1>2, <1>8 DEF CalmMoves, Ensuring
<1>9. CASE /\ job.pc = "ack" /\ sql' = sql /\ seen' = seen
           /\ redis' = Acknowledged(job.snap.seq, job.now + 1 - HotDays)
  BY <1>2, <1>9 DEF CalmMoves, Ensuring
<1> QED
  BY <1>1, <1>4, <1>5, <1>6, <1>7, <1>8, <1>9 DEF RedisMoves

\* At the acknowledgment the rows are what Redis holds.
LEMMA AckedRows ==
  ASSUME Typed, SnapIsRedis, KeepsKeys, Ahead, Calm, job.pc \in {"commit", "ack"}, sql.seq >= job.snap.seq
  PROVE  /\ redis.kind = "whole" /\ redis.seq = sql.seq
         /\ \A d \in DOMAIN redis.days : d >= lower =>
               /\ d \in DOMAIN sql.days /\ sql.days[d].pv = redis.days[d].pv
               /\ sql.days[d].quality = redis.days[d].quality
<1>1. redis.kind = "whole" /\ Fine /\ "rewind" \notin mishaps /\ Keyed
  BY DEF KeepsKeys, Ensuring, Calm, Fine
<1>2. redis.seq = job.snap.seq
  BY <1>1 DEF SnapIsRedis
<1>3. redis.seq >= sql.seq
  BY <1>1 DEF Ahead
<1>4. redis.seq \in Nat /\ sql.seq \in Nat
  BY RedisParts, RowParts DEF Typed, Shape
<1>5. redis.seq = sql.seq
  BY <1>2, <1>3, <1>4
<1> QED
  BY <1>1, <1>5 DEF Keyed

\* Redis keeps what the rows hold, and its cold days are in the rows.
LEMMA KeyedStays ==
  ASSUME Typed, SnapIsRedis, KeepsKeys, Ahead, [StatsNext]_statsVars, Calm'
  PROVE  Keyed'
<1>1. Calm /\ Fine /\ "rewind" \notin mishaps /\ CalmMoves /\ RowMoves /\ Keyed
  BY CalmBefore, CalmSources, RowSources DEF KeepsKeys, Calm
<1>2. /\ redis \in RedisStates /\ sql \in RowStates /\ job \in Jobs /\ job.snap \in RedisStates
      /\ today \in Days /\ Restorable
  BY JobParts DEF Typed, Shape, InPlace
<1>3. /\ redis.pv \in Nat /\ redis.seq \in Nat /\ redis.ack \in Nat /\ sql.seq \in Nat /\ sql.pv \in Nat /\ job.snap.seq \in Nat
      /\ DOMAIN redis.days \subseteq Days /\ DOMAIN sql.days \subseteq Days /\ Days \subseteq Int
      /\ \A d \in DOMAIN redis.days : redis.days[d].pv \in Nat
      /\ \A d \in DOMAIN sql.days : sql.days[d].pv \in Nat
  BY <1>2, RedisParts, RowParts, DayNumbers
<1>4. /\ hotFrom \in Int /\ hotFrom' \in Int /\ lower \in Int /\ lower' \in Int
      /\ hotFrom' >= hotFrom /\ lower' >= lower
  BY TodayGrows
<1>5. redis.kind = "whole" => /\ redis.seq >= sql.seq
                              /\ job.pc \in {"write", "mark"} => redis.seq > sql.seq
  BY <1>1 DEF Ahead
<1>6. ASSUME NEW d \in DOMAIN sql.days
      PROVE  IF d \in DOMAIN redis.days THEN redis.days[d].pv >= sql.days[d].pv ELSE d < hotFrom'
  <2>1. d \in Int
    BY <1>3
  <2>2. d < hotFrom => d < hotFrom'
    BY <1>4, <2>1
  <2>3. IF d \in DOMAIN redis.days THEN redis.days[d].pv >= sql.days[d].pv ELSE d < hotFrom
    BY <1>1 DEF Keyed
  <2> QED
    BY <2>2, <2>3
<1>16. ASSUME NEW d \in DOMAIN redis.days, d >= lower'
       PROVE  d \in Int /\ d >= lower
  <2>1. d \in Int
    BY <1>3
  <2> QED
    BY <1>4, <1>16, <2>1
<1>7. ASSUME redis.seq = sql.seq, NEW d \in DOMAIN redis.days, d >= lower'
      PROVE  /\ d \in DOMAIN sql.days /\ sql.days[d].pv = redis.days[d].pv
             /\ sql.days[d].quality = redis.days[d].quality
  BY <1>1, <1>7, <1>16 DEF Keyed
<1>8. CASE redis' = redis
  <2>0. redis'.kind = "whole" => Readable'
    BY <1>1, <1>8 DEF Keyed, Readable
  <2>1. CASE sql' = sql
    BY <1>1, <1>6, <1>7, <1>8, <2>0, <2>1 DEF Keyed
  <2>2. CASE job.pc = "commit" /\ sql' = Rows(job.snap, job.now) /\ sql.seq < job.snap.seq
    <3>1. redis.kind = "whole"
      BY <1>1, <2>2 DEF KeepsKeys, Ensuring
    <3>2. redis.seq = job.snap.seq /\ redis.pv = job.snap.pv /\ redis.quality = job.snap.quality /\ redis.days = job.snap.days
      BY <1>1, <2>2, <3>1 DEF SnapIsRedis
    <3> DEFINE K == Kept(job.snap, job.now)
    <3>3. /\ sql'.pv = job.snap.pv /\ sql'.seq = job.snap.seq
          /\ DOMAIN sql'.days = DOMAIN sql.days \cup K
          /\ K = {d \in DOMAIN job.snap.days : d >= job.now + 1 - RetentionDays}
          /\ \A d \in K : /\ sql'.days[d].pv = job.snap.days[d].pv
                          /\ sql'.days[d].quality = job.snap.days[d].quality
          /\ \A d \in DOMAIN sql.days \ K : sql'.days[d] = sql.days[d]
      BY <2>2, CommittedRows
    <3> HIDE DEF K
    <3>4. redis'.ack <= sql'.seq /\ redis'.pv >= sql'.pv
      <4>1. redis.ack <= sql.seq
        BY <1>1 DEF Keyed
      <4> QED
        BY <1>3, <1>8, <2>2, <3>2, <3>3, <4>1
    <3>5. ASSUME NEW d \in DOMAIN sql'.days
          PROVE  IF d \in DOMAIN redis'.days THEN redis'.days[d].pv >= sql'.days[d].pv ELSE d < hotFrom'
      <4>1. CASE d \in K
        <5>1. d \in DOMAIN redis.days /\ sql'.days[d].pv = redis.days[d].pv
          BY <3>2, <3>3, <4>1
        <5> QED
          BY <1>3, <1>8, <5>1
      <4>2. CASE d \notin K
        <5>1. d \in DOMAIN sql.days /\ sql'.days[d] = sql.days[d]
          BY <3>3, <3>5, <4>2
        <5> QED
          BY <1>6, <1>8, <5>1
      <4> QED
        BY <4>1, <4>2
    <3>6. ASSUME NEW d \in DOMAIN redis'.days, d >= lower'
          PROVE  /\ d \in DOMAIN sql'.days /\ sql'.days[d].pv = redis'.days[d].pv
                 /\ sql'.days[d].quality = redis'.days[d].quality
      <4>1. job.now \in Int /\ job.now <= today /\ RetentionDays \in Int /\ today \in Int
        BY <1>2, JobParts, Budgets, DayNumbers DEF Typed, InPlace, Days
      <4>2. d \in DOMAIN redis.days /\ d \in Int /\ d >= lower
        BY <1>8, <1>16, <3>6
      <4>3. d >= job.now + 1 - RetentionDays
        BY <4>1, <4>2 DEF lower
      <4>4. d \in K
        BY <3>2, <3>3, <4>2, <4>3
      <4> QED
        BY <1>8, <3>2, <3>3, <4>4
    <3> QED
      BY <1>1, <1>8, <2>0, <3>1, <3>4, <3>5, <3>6 DEF Keyed
  <2>3. CASE Cleanup
    <3>1. /\ sql'.pv = sql.pv /\ sql'.seq = sql.seq
          /\ DOMAIN sql'.days \subseteq DOMAIN sql.days
          /\ \A d \in DOMAIN sql.days : d >= lower => d \in DOMAIN sql'.days
          /\ \A d \in DOMAIN sql'.days : sql'.days[d] = sql.days[d]
      BY <2>3, CleanupRows
    <3>2. \A d \in DOMAIN sql'.days : IF d \in DOMAIN redis.days THEN redis.days[d].pv >= sql'.days[d].pv ELSE d < hotFrom'
      BY <1>6, <3>1
    <3>3. redis.seq = sql'.seq => \A d \in DOMAIN redis.days : d >= lower' =>
           /\ d \in DOMAIN sql'.days /\ sql'.days[d].pv = redis.days[d].pv
           /\ sql'.days[d].quality = redis.days[d].quality
      <4> SUFFICES ASSUME redis.seq = sql'.seq, NEW d \in DOMAIN redis.days, d >= lower'
          PROVE  /\ d \in DOMAIN sql'.days /\ sql'.days[d].pv = redis.days[d].pv
                 /\ sql'.days[d].quality = redis.days[d].quality
        OBVIOUS
      <4>1. d >= lower
        BY <1>16
      <4>2. /\ d \in DOMAIN sql.days /\ sql.days[d].pv = redis.days[d].pv
            /\ sql.days[d].quality = redis.days[d].quality
        BY <1>7, <3>1
      <4> QED
        BY <3>1, <4>1, <4>2
    <3> QED
      BY <1>1, <1>8, <2>0, <3>1, <3>2, <3>3 DEF Keyed
  <2> QED
    BY <1>1, <2>1, <2>2, <2>3 DEF RowMoves
<1>9. CASE redis.kind = "whole" /\ redis' = Merged /\ sql' = sql
  <2>1. /\ redis'.kind = redis.kind /\ redis'.pv = redis.pv /\ redis'.seq = redis.seq /\ redis'.ack = redis.ack
        /\ redis'.days = redis.days /\ DOMAIN redis'.hll = DOMAIN redis.hll
    BY <1>2, <1>9, MergedFacts
  <2>2. Readable'
    BY <1>1, <1>9, <2>1 DEF Keyed, Readable
  <2> QED
    BY <1>1, <1>6, <1>7, <1>9, <2>1, <2>2 DEF Keyed
<1>10. CASE ~Recovered /\ sql' = sql /\ \E at \in Days : redis' = Restored(at)
  <2>1. PICK at \in Days : redis' = Restored(at)
    BY <1>10
  <2>2. /\ sql.seq = 0 /\ sql.pv = 0 /\ DOMAIN sql.days = {}
        /\ redis'.pv = 0 /\ redis'.seq = 0 /\ redis'.ack = 0 /\ DOMAIN redis'.days = {}
    BY <1>10, <2>1, NoRecovery
  <2>3. redis'.kind = "whole" /\ {All} \cup DOMAIN redis'.days \subseteq DOMAIN redis'.hll
    BY <1>2, <2>1, RestoredFacts
  <2>4. Readable'
    BY <2>2, <2>3 DEF Readable
  <2> QED
    BY <1>10, <2>2, <2>3, <2>4 DEF Keyed
<1>11. CASE redis.kind = "whole" /\ sql' = sql /\ redis' = Reserved
  <2>1. /\ redis'.kind = "whole" /\ redis'.pv = redis.pv /\ redis'.seq = redis.seq + 1 /\ redis'.ack = redis.ack
        /\ redis'.days = redis.days /\ redis'.hll = redis.hll
    BY <1>2, <1>11, ReservedFacts
  <2>2. Readable'
    BY <1>1, <1>3, <1>11, <2>1 DEF Keyed, Readable
  <2>3. redis'.seq # sql'.seq
    BY <1>3, <1>5, <1>11, <2>1
  <2> QED
    BY <1>1, <1>6, <1>11, <2>1, <2>2, <2>3 DEF Keyed
<1>12. CASE redis.kind = "whole" /\ job.pc = "write" /\ sql' = sql /\ redis' = Counted(job.visit, job.seq, job.fresh)
  <2>1. job.visit.day \in Days /\ job.visit.who \subseteq Visitors /\ job.seq \in Nat /\ job.fresh \in BOOLEAN
    BY <1>2, <1>12, JobParts DEF Typed, InPlace
  <2> DEFINE x == job.visit.day
  <2>2. /\ redis'.kind = "whole" /\ redis'.pv = redis.pv + 1 /\ redis'.seq = redis.seq /\ redis'.ack = redis.ack
        /\ DOMAIN redis'.days = DOMAIN redis.days \cup {x}
        /\ redis'.days[x].pv = PvOf(redis.days, x) + 1
        /\ \A d \in DOMAIN redis.days : d # x => redis'.days[d] = redis.days[d]
        /\ DOMAIN redis'.hll = DOMAIN redis.hll \cup {All, x}
    BY <1>2, <1>12, <2>1, CountedFacts
  <2>3. Readable'
    BY <1>1, <1>12, <2>2 DEF Keyed, Readable
  <2>4. redis'.seq # sql'.seq
    BY <1>3, <1>5, <1>12, <2>2
  <2>5. ASSUME NEW d \in DOMAIN sql.days
        PROVE  IF d \in DOMAIN redis'.days THEN redis'.days[d].pv >= sql.days[d].pv ELSE d < hotFrom'
    <3>1. d \in DOMAIN redis'.days => d \in DOMAIN redis.days
      BY <1>12, NoDayAnew
    <3>2. CASE d = x /\ d \in DOMAIN redis.days
      <4>1. redis'.days[d].pv = redis.days[d].pv + 1
        BY <2>2, <3>2 DEF PvOf
      <4> QED
        BY <1>3, <1>6, <2>2, <3>2, <4>1
    <3>3. CASE ~(d = x /\ d \in DOMAIN redis.days)
      BY <1>6, <2>2, <3>1, <3>3
    <3> QED
      BY <3>2, <3>3
  <2>6. redis'.ack <= sql'.seq /\ redis'.pv >= sql'.pv
    BY <1>1, <1>3, <1>12, <2>2 DEF Keyed
  <2> QED
    BY <1>12, <2>2, <2>3, <2>4, <2>5, <2>6 DEF Keyed
<1>13. CASE redis.kind = "whole" /\ job.pc = "mark" /\ sql' = sql /\ redis' = Marked(job.visit.day, job.seq)
  <2>1. job.visit.day \in Days /\ job.seq \in Nat
    BY <1>2, <1>13, JobParts DEF Typed, InPlace
  <2> DEFINE x == job.visit.day
  <2>2. /\ redis'.kind = "whole" /\ redis'.pv = redis.pv /\ redis'.seq = redis.seq /\ redis'.ack = redis.ack
        /\ DOMAIN redis'.days = DOMAIN redis.days \cup {x}
        /\ redis'.days[x].pv = PvOf(redis.days, x)
        /\ \A d \in DOMAIN redis.days : d # x => redis'.days[d] = redis.days[d]
        /\ DOMAIN redis'.hll = DOMAIN redis.hll \cup {x}
    BY <1>2, <1>13, <2>1, MarkedFacts
  <2>3. Readable'
    BY <1>1, <1>13, <2>2 DEF Keyed, Readable
  <2>4. redis'.seq # sql'.seq
    BY <1>3, <1>5, <1>13, <2>2
  <2>5. ASSUME NEW d \in DOMAIN sql.days
        PROVE  IF d \in DOMAIN redis'.days THEN redis'.days[d].pv >= sql.days[d].pv ELSE d < hotFrom'
    <3>1. d \in DOMAIN redis'.days => d \in DOMAIN redis.days
      BY <1>13, NoDayAnew
    <3>2. CASE d = x /\ d \in DOMAIN redis.days
      <4>1. redis'.days[d].pv = redis.days[d].pv
        BY <2>2, <3>2 DEF PvOf
      <4> QED
        BY <1>3, <1>6, <2>2, <3>2, <4>1
    <3>3. CASE ~(d = x /\ d \in DOMAIN redis.days)
      BY <1>6, <2>2, <3>1, <3>3
    <3> QED
      BY <3>2, <3>3
  <2>6. redis'.ack <= sql'.seq /\ redis'.pv >= sql'.pv
    BY <1>1, <1>13, <2>2 DEF Keyed
  <2> QED
    BY <1>13, <2>2, <2>3, <2>4, <2>5, <2>6 DEF Keyed
<1>14. CASE redis.kind = "whole" /\ job.pc = "ack" /\ sql' = sql /\ redis' = Acknowledged(job.snap.seq, job.now + 1 - HotDays)
  <2>1. job.snap.seq \in Nat /\ job.now + 1 - HotDays \in Int
    BY <1>2, JobParts, RedisParts, Budgets
  <2> DEFINE cold == {d \in DOMAIN redis.days : d < job.now + 1 - HotDays /\ redis.days[d].seq <= Larger(job.snap.seq, redis.ack)}
  <2>2. /\ redis'.kind = "whole" /\ redis'.pv = redis.pv /\ redis'.seq = redis.seq
        /\ redis'.ack = Larger(job.snap.seq, redis.ack)
        /\ DOMAIN redis'.days = DOMAIN redis.days \ cold
        /\ \A d \in DOMAIN redis.days \ cold : redis'.days[d] = redis.days[d]
        /\ DOMAIN redis'.hll = DOMAIN redis.hll \ cold
    BY <1>2, <1>14, <2>1, AcknowledgedFacts
  <2>3. sql.seq >= job.snap.seq
    BY <1>1, <1>14 DEF KeepsKeys
  <2>4. redis'.ack <= sql.seq /\ redis'.ack \in Nat
    BY <1>1, <1>3, <2>2, <2>3 DEF Keyed, Larger
  <2>5. redis.seq = sql.seq
    BY <1>1, <1>14, <2>3, AckedRows
  <2>6. cold \subseteq Days /\ \A d \in cold : d < hotFrom
    <3>1. job.now \in Int /\ job.now <= today /\ today \in Int /\ HotDays \in Int
      BY <1>2, JobParts, Budgets, DayNumbers DEF Typed, InPlace, Days
    <3>2. ASSUME NEW d \in cold PROVE d \in Days /\ d < hotFrom
      <4>1. d \in Days /\ d \in Int /\ d < job.now + 1 - HotDays
        BY <1>3
      <4> QED
        BY <3>1, <4>1 DEF hotFrom
    <3> QED
      BY <3>2
  <2>7. All \notin cold
    BY <2>6 DEF All, Days
  <2> HIDE DEF cold
  <2>8. Readable'
    BY <1>1, <1>14, <2>2, <2>4, <2>5, <2>7 DEF Keyed, Readable
  <2>9. ASSUME NEW d \in DOMAIN sql.days
        PROVE  IF d \in DOMAIN redis'.days THEN redis'.days[d].pv >= sql.days[d].pv ELSE d < hotFrom'
    <3>1. CASE d \in cold
      <4>1. d < hotFrom /\ d \in Int /\ d \notin DOMAIN redis'.days
        BY <1>3, <2>2, <2>6, <2>9, <3>1
      <4> QED
        BY <1>4, <4>1
    <3>2. CASE d \notin cold
      BY <1>6, <2>2, <3>2
    <3> QED
      BY <3>1, <3>2
  <2>10. \A d \in DOMAIN redis'.days : d >= lower' =>
           /\ d \in DOMAIN sql.days /\ sql.days[d].pv = redis'.days[d].pv
           /\ sql.days[d].quality = redis'.days[d].quality
    BY <1>7, <2>2, <2>5
  <2> QED
    BY <1>1, <1>14, <2>2, <2>4, <2>8, <2>9, <2>10 DEF Keyed
<1> QED
  BY <1>1, <1>8, <1>9, <1>10, <1>11, <1>12, <1>13, <1>14 DEF CalmMoves

\* Redis holds the project from ensure on.
LEMMA ReadySources ==
  ASSUME Typed, [StatsNext]_statsVars, ~ready, job.pc \notin Ensuring, ready' \/ job'.pc \in Ensuring
  PROVE  "misread" \in mishaps' \/ \E at \in Days : ensure(at)
<1>0. job \in Jobs /\ Idle \in Jobs /\ today \in Days
  BY IdleFacts DEF Typed, Shape
<1>1. Idle.pc = "idle" /\ EndFlush.pc = "cleanup" /\ Resume.pc \in {"idle", "drain"}
  BY <1>0, IdleFacts, ResumeFacts
<1>2. CASE Work
  <2>1. CASE TakeEvent
    <3>1. job'.pc = "visit" /\ ready' = ready
      BY <1>0, <2>1 DEF TakeEvent, Jobs
    <3> QED
      BY <3>1 DEF Ensuring
  <2>2. CASE ExpireVisit \/ ProcessFails
    BY <1>1, <2>2 DEF ExpireVisit, ProcessFails, Ensuring
  <2>3. CASE ProcessEnsure
    <3>1. job.visit.day \in Days
      BY <2>3 DEF ProcessEnsure, Typed, InPlace
    <3>2. \/ ensure(job.visit.day) \/ "misread" \in mishaps'
          \/ ready' = ready /\ job' = [job EXCEPT !.pc = "failed"]
      BY <2>3 DEF ProcessEnsure, Misread
    <3>3. CASE ready' = ready /\ job' = [job EXCEPT !.pc = "failed"]
      <4>1. job'.pc = "failed"
        BY <1>0, <3>3 DEF Jobs
      <4> QED
        BY <3>3, <4>1 DEF Ensuring
    <3> QED
      BY <3>1, <3>2, <3>3
  <2>4. CASE SwapGaps
    <3>1. job'.pc = "marks" /\ ready' = ready
      BY <1>0, <2>4 DEF SwapGaps, Jobs
    <3> QED
      BY <3>1 DEF Ensuring
  <2>5. CASE \E d \in Days : MarkEnsure(d)
    <3>1. PICK d \in Days : MarkEnsure(d)
      BY <2>5
    <3>2. ensure(d) \/ "misread" \in mishaps' \/ Unmarked(d)
      BY <3>1 DEF MarkEnsure, Misread
    <3>3. CASE Unmarked(d)
      <4>1. job'.pc = "marks" /\ ready' = FALSE
        BY <1>0, <3>3 DEF Unmarked, Jobs
      <4> QED
        BY <4>1 DEF Ensuring
    <3> QED
      BY <3>2, <3>3
  <2>6. CASE Scan
    <3>1. job'.pc \in {"persist", "cleanup", "idle"} /\ ready' = ready
      BY <1>0, <1>1, <2>6 DEF Scan, Jobs
    <3> QED
      BY <3>1 DEF Ensuring
  <2>7. CASE PersistEnsure
    BY <1>0, <1>1, <2>7 DEF PersistEnsure, Misread, Ensuring
  <2>8. CASE Cleanup
    BY <1>1, <2>8 DEF Cleanup, Ensuring
  <2>9. CASE VisitReserve \/ VisitWrite \/ MarkReserve \/ MarkWrite \/ ReadSnapshot \/ Commit \/ Acknowledge
    BY <2>9 DEF VisitReserve, VisitWrite, MarkReserve, MarkWrite, ReadSnapshot, Commit, Acknowledge, Ensuring
  <2> QED
    BY <1>2, <2>1, <2>2, <2>3, <2>4, <2>5, <2>6, <2>7, <2>8, <2>9 DEF Work
<1>3. CASE BeginFlush
  <2>1. job'.pc = "drain"
    BY <1>0, <1>3 DEF BeginFlush, Jobs
  <2>2. ready' = ready
    BY <1>3 DEF BeginFlush
  <2>3. job'.pc \notin Ensuring
    BY <2>1 DEF Ensuring
  <2> QED
    BY <2>2, <2>3
<1>4. CASE Crash
  BY <1>1, <1>4 DEF Crash, Ensuring
<1>5. CASE ~Work /\ ~BeginFlush /\ ~Crash
  <2>1. ready' = ready
    BY <1>5 DEF StatsNext, Record, Close, Midnight, Crowd, LoseKeys, SaveImage, Rewind, statsVars, memory
  <2>2. job' = job
    BY <1>5 DEF StatsNext, Record, Close, Midnight, Crowd, LoseKeys, SaveImage, Rewind, statsVars, memory
  <2> QED
    BY <2>1, <2>2
<1> QED
  BY <1>2, <1>3, <1>4, <1>5

\* Redis holds the project while the worker writes to it.
LEMMA WholeStays ==
  ASSUME Typed, KeepsKeys, Ahead, [StatsNext]_statsVars, Calm', ready' \/ job'.pc \in Ensuring
  PROVE  redis'.kind = "whole"
<1>1. Calm /\ CalmMoves
  BY CalmBefore, CalmSources
<1>2. redis \in RedisStates /\ sql \in RowStates /\ job \in Jobs /\ job.snap \in RedisStates /\ today \in Days /\ Restorable
  BY JobParts DEF Typed, Shape, InPlace
<1>3. CASE redis.kind = "whole"
  <2>1. CASE redis' = Merged
    BY <1>2, <1>3, <2>1, MergedFacts
  <2>2. CASE redis' = Reserved
    BY <1>2, <1>3, <2>2, ReservedFacts
  <2>3. CASE job.pc = "write" /\ redis' = Counted(job.visit, job.seq, job.fresh)
    <3>1. job.visit.day \in Days /\ job.visit.who \subseteq Visitors /\ job.seq \in Nat /\ job.fresh \in BOOLEAN
      BY <1>2, <2>3, JobParts DEF Typed, InPlace
    <3> QED
      BY <1>2, <1>3, <2>3, <3>1, CountedFacts
  <2>4. CASE job.pc = "mark" /\ redis' = Marked(job.visit.day, job.seq)
    <3>1. job.visit.day \in Days /\ job.seq \in Nat
      BY <1>2, <2>4, JobParts DEF Typed, InPlace
    <3> QED
      BY <1>2, <1>3, <2>4, <3>1, MarkedFacts
  <2>5. CASE redis' = Acknowledged(job.snap.seq, job.now + 1 - HotDays)
    <3>1. job.snap.seq \in Nat /\ job.now + 1 - HotDays \in Int
      BY <1>2, JobParts, RedisParts, Budgets
    <3> QED
      BY <1>2, <1>3, <2>5, <3>1, AcknowledgedFacts
  <2> QED
    BY <1>1, <1>3, <2>1, <2>2, <2>3, <2>4, <2>5 DEF CalmMoves
<1>4. CASE redis.kind # "whole"
  <2>1. ~ready /\ job.pc \notin Ensuring
    BY <1>1, <1>4 DEF KeepsKeys
  <2>2. PICK at \in Days : ensure(at)
    BY <2>1, ReadySources, CalmBefore
  <2>3. redis' = Restored(at)
    BY <1>1, <1>4, <2>2, CalmKeeps DEF ensure, Ensured
  <2> QED
    BY <1>2, <2>3, RestoredFacts
<1> QED
  BY <1>3, <1>4

\* What is acknowledged is committed.
LEMMA AckStays ==
  ASSUME Typed, KeepsKeys, Ahead, [StatsNext]_statsVars, Calm', job'.pc = "ack"
  PROVE  sql'.seq >= job'.snap.seq
<1>1. Calm /\ SnapMoves /\ Keyed
  BY CalmBefore, SnapSources DEF KeepsKeys
<1>2. job \in Jobs /\ redis.seq \in Nat /\ redis.ack \in Nat /\ sql.seq \in Nat /\ job.snap.seq \in Nat
  BY JobParts, RedisParts, RowParts DEF Typed, Shape
<1>3. CASE job' = job /\ sql' = sql
  BY <1>1, <1>3 DEF KeepsKeys
<1>4. CASE /\ UNCHANGED <<redis, sql, seen>>
           /\ job' = [job EXCEPT !.pc = IF redis.seq > redis.ack THEN "commit" ELSE "ack",
                             !.snap = redis, !.now = today, !.seen = seen]
  <2>1. job'.snap = redis /\ job'.pc = IF redis.seq > redis.ack THEN "commit" ELSE "ack"
    BY <1>2, <1>4 DEF Jobs
  <2>2. ~(redis.seq > redis.ack)
    BY <2>1
  <2>3. redis.ack <= sql.seq
    BY <1>1 DEF Keyed
  <2> QED
    BY <1>2, <1>4, <2>1, <2>2, <2>3
<1>5. CASE Commit /\ job.pc = "commit" /\ job' = [job EXCEPT !.pc = "ack"]
  <2>1. job'.snap = job.snap
    BY <1>2, <1>5 DEF Jobs
  <2>2. CASE sql.seq < job.snap.seq
    <3>1. sql' = Rows(job.snap, job.now)
      BY <1>5, <2>2, CommitsNewer
    <3>2. sql'.seq = job.snap.seq
      BY <1>5, <3>1, CommittedRows
    <3> QED
      BY <1>2, <2>1, <3>2
  <2>3. CASE ~(sql.seq < job.snap.seq)
    <3>1. sql' = sql
      BY <1>2, <1>5, <2>3, CommitRows
    <3> QED
      BY <1>2, <2>1, <2>3, <3>1
  <2> QED
    BY <2>2, <2>3
<1> QED
  BY <1>1, <1>3, <1>4, <1>5 DEF SnapMoves

\* Every step keeps all of this.
LEMMA KeepsKeysStays ==
  ASSUME Typed, SnapIsRedis, KeepsKeys, Ahead, [StatsNext]_statsVars
  PROVE  KeepsKeys'
<1>1. Calm' => Keyed'
  BY KeyedStays
<1>2. Calm' => (ready' \/ job'.pc \in Ensuring => redis'.kind = "whole")
  BY WholeStays
<1>3. Calm' => (job'.pc = "ack" => sql'.seq >= job'.snap.seq)
  BY AckStays
<1> QED
  BY <1>1, <1>2, <1>3 DEF KeepsKeys, Ensuring

-----------------------------------------------------------------------------
(* What the days tell *)

\* A day that was dropped or expired is a gap: the count of every other day stays.
LEMMA SeenOfSettled ==
  ASSUME Typed, SeenStays, "spill" \notin mishaps', NEW d \in Days, d \notin Unsettled'
  PROVE  seen'[d] = seen[d]
<1>1. CASE seen' = seen
  BY <1>1
<1>2. CASE \E e \in Days : noteGap(e) /\ seen' = [seen EXCEPT ![e] = @ + 1]
  <2>1. PICK e \in Days : noteGap(e) /\ seen' = [seen EXCEPT ![e] = @ + 1]
    BY <1>2
  <2>2. e \in gaps'
    BY <2>1, NotedGap
  <2>3. d # e
    BY <2>2 DEF Unsettled
  <2> QED
    BY <2>1, <2>3 DEF Typed, Shape
<1> QED
  BY <1>1, <1>2 DEF SeenStays

\* A day out of the gaps was out of them before, or its mark was just written.
LEMMA SettledBefore ==
  ASSUME Typed, [StatsNext]_statsVars, Calm', NEW d \in Days, d >= lower', d \notin Unsettled'
  PROVE  /\ d >= lower
         /\ \/ d \notin Unsettled
            \/ /\ job.pc = "mark" /\ job'.pc = "marks" /\ redis' = Marked(d, job.seq) /\ d = job.visit.day
               /\ UNCHANGED <<sql, seen, covered>> /\ d \in pending'
<1>1. d \in Int /\ lower \in Int /\ lower' \in Int /\ lower' >= lower
  BY TodayGrows, DayNumbers
<1>2. UnsettledMoves /\ "spill" \notin mishaps' /\ "crash" \notin mishaps' /\ "forgotten" \notin mishaps'
  BY UnsettledSources, CalmBefore
<1>3. d >= lower
  BY <1>1
<1> QED
  BY <1>2, <1>3 DEF UnsettledMoves

\* What Redis, or the row of a day that left it, tells of a settled day stays exact.
LEMMA DayStays ==
  ASSUME Typed, SnapIsRedis, Ahead, KeepsKeys, [StatsNext]_statsVars, Calm',
         NEW d \in Days, d >= lower, d \notin Unsettled', DayTells(redis.days, sql.days, seen, d)
  PROVE  DayTells(redis'.days, sql'.days, seen', d)
<1>1. Calm /\ "spill" \notin mishaps' /\ "rewind" \notin mishaps /\ CalmMoves /\ RowMoves
  BY CalmBefore, CalmSources, RowSources DEF Calm
<1>2. /\ redis \in RedisStates /\ sql \in RowStates /\ job \in Jobs /\ job.snap \in RedisStates
      /\ today \in Days /\ Restorable /\ seen \in [Days -> Nat]
  BY JobParts DEF Typed, Shape, InPlace
<1>3. \A e \in DOMAIN redis.days : redis.days[e].pv \in Nat
  BY <1>2, RedisParts
<1>4. CASE redis' = redis /\ SeenStays
  <2>1. seen'[d] = seen[d]
    BY <1>1, <1>4, SeenOfSettled
  <2>2. CASE sql' = sql
    BY <1>4, <2>1, <2>2 DEF DayTells
  <2>3. CASE job.pc = "commit" /\ sql' = Rows(job.snap, job.now)
    <3>1. redis.kind = "whole"
      BY <1>1, <2>3 DEF KeepsKeys, Ensuring
    <3>2. redis.days = job.snap.days
      BY <1>1, <2>3, <3>1 DEF SnapIsRedis
    <3> DEFINE K == Kept(job.snap, job.now)
    <3>3. /\ DOMAIN sql'.days = DOMAIN sql.days \cup K
          /\ K = {e \in DOMAIN job.snap.days : e >= job.now + 1 - RetentionDays}
          /\ \A e \in DOMAIN sql.days \ K : sql'.days[e] = sql.days[e]
      BY <2>3, CommittedRows
    <3> HIDE DEF K
    <3>4. CASE d \in DOMAIN redis.days
      BY <1>4, <2>1, <3>4 DEF DayTells
    <3>5. CASE d \notin DOMAIN redis.days
      <4>1. d \notin K
        BY <3>2, <3>3, <3>5
      <4>2. (d \in DOMAIN sql'.days) <=> (d \in DOMAIN sql.days)
        BY <3>3, <4>1
      <4>3. d \in DOMAIN sql.days => sql'.days[d] = sql.days[d]
        BY <3>3, <4>1
      <4> QED
        BY <1>4, <2>1, <3>5, <4>2, <4>3 DEF DayTells
    <3> QED
      BY <3>4, <3>5
  <2>4. CASE Cleanup
    <3>1. /\ DOMAIN sql'.days \subseteq DOMAIN sql.days
          /\ d \in DOMAIN sql.days => d \in DOMAIN sql'.days
          /\ \A e \in DOMAIN sql'.days : sql'.days[e] = sql.days[e]
      BY <2>4, CleanupRows
    <3> QED
      BY <1>4, <2>1, <3>1 DEF DayTells
  <2> QED
    BY <1>1, <2>2, <2>3, <2>4 DEF RowMoves
<1>5. CASE redis' = Merged /\ sql' = sql /\ seen' = seen
  <2>1. redis'.days = redis.days
    BY <1>2, <1>5, MergedFacts
  <2> QED
    BY <1>5, <2>1 DEF DayTells
<1>6. CASE ~Recovered /\ sql' = sql /\ seen' = Unseen /\ \E at \in Days : redis' = Restored(at)
  <2>1. DOMAIN redis'.days = {} /\ DOMAIN sql'.days = {}
    BY <1>6, NoRecovery
  <2>2. seen'[d] = 0
    BY <1>6 DEF Unseen
  <2> QED
    BY <2>1, <2>2 DEF DayTells
<1>7. CASE sql' = sql /\ redis' = Reserved /\ SeenStays
  <2>1. seen'[d] = seen[d]
    BY <1>1, <1>7, SeenOfSettled
  <2>2. redis'.days = redis.days
    BY <1>2, <1>7, ReservedFacts
  <2> QED
    BY <1>7, <2>1, <2>2 DEF DayTells
<1>8. CASE job.pc = "write" /\ sql' = sql /\ redis' = Counted(job.visit, job.seq, job.fresh) /\ seen' = Settle
  <2>1. job.visit.day \in Days /\ job.visit.who \subseteq Visitors /\ job.seq \in Nat /\ job.fresh \in BOOLEAN
    BY <1>2, <1>8, JobParts DEF Typed, InPlace
  <2> DEFINE x == job.visit.day
  <2>2. /\ DOMAIN redis'.days = DOMAIN redis.days \cup {x}
        /\ redis'.days[x].pv = PvOf(redis.days, x) + 1
        /\ x \in DOMAIN redis.days => redis'.days[x].quality = redis.days[x].quality
        /\ \A e \in DOMAIN redis.days : e # x => redis'.days[e] = redis.days[e]
    BY <1>2, <1>8, <2>1, CountedFacts
  <2>3. seen'[x] = seen[x] + 1 /\ (d # x => seen'[d] = seen[d])
    BY <1>2, <1>8, <2>1 DEF Settle
  <2>4. CASE d = x /\ d \in DOMAIN redis.days
    <3>1. redis'.days[d].pv = redis.days[d].pv + 1 /\ redis'.days[d].quality = redis.days[d].quality
      BY <2>2, <2>4 DEF PvOf
    <3>2. redis.days[d].quality = "ok" => redis.days[d].pv = seen[d]
      BY <2>4 DEF DayTells, Tells
    <3> QED
      BY <2>2, <2>3, <2>4, <3>1, <3>2 DEF DayTells, Tells
  <2>5. CASE d = x /\ d \notin DOMAIN redis.days
    <3>1. d \notin DOMAIN sql.days
      BY <1>8, <2>2, <2>5, NoDayAnew
    <3>2. seen[d] = 0
      BY <2>5, <3>1 DEF DayTells
    <3>3. redis'.days[d].pv = 0 + 1
      BY <2>2, <2>5 DEF PvOf
    <3> QED
      BY <2>2, <2>3, <2>5, <3>2, <3>3 DEF DayTells, Tells
  <2>6. CASE d # x
    BY <1>8, <2>2, <2>3, <2>6 DEF DayTells
  <2> QED
    BY <2>4, <2>5, <2>6
<1>9. CASE job.pc = "mark" /\ sql' = sql /\ redis' = Marked(job.visit.day, job.seq) /\ seen' = seen
  <2>1. job.visit.day \in Days /\ job.seq \in Nat
    BY <1>2, <1>9, JobParts DEF Typed, InPlace
  <2> DEFINE x == job.visit.day
  <2>2. /\ DOMAIN redis'.days = DOMAIN redis.days \cup {x}
        /\ redis'.days[x].quality = "degraded"
        /\ \A e \in DOMAIN redis.days : e # x => redis'.days[e] = redis.days[e]
    BY <1>2, <1>9, <2>1, MarkedFacts
  <2>3. CASE d = x
    BY <2>2, <2>3 DEF DayTells, Tells
  <2>4. CASE d # x
    BY <1>9, <2>2, <2>4 DEF DayTells
  <2> QED
    BY <2>3, <2>4
<1>10. CASE job.pc = "ack" /\ sql' = sql /\ seen' = seen /\ redis' = Acknowledged(job.snap.seq, job.now + 1 - HotDays)
  <2>1. job.snap.seq \in Nat /\ job.now + 1 - HotDays \in Int
    BY <1>2, JobParts, RedisParts, Budgets
  <2>2. PICK cold \in SUBSET DOMAIN redis.days :
          /\ DOMAIN redis'.days = DOMAIN redis.days \ cold
          /\ \A e \in DOMAIN redis.days \ cold : redis'.days[e] = redis.days[e]
    <3> DEFINE cold == {e \in DOMAIN redis.days : e < job.now + 1 - HotDays /\ redis.days[e].seq <= Larger(job.snap.seq, redis.ack)}
    <3>1. /\ DOMAIN redis'.days = DOMAIN redis.days \ cold
          /\ \A e \in DOMAIN redis.days \ cold : redis'.days[e] = redis.days[e]
      BY <1>2, <1>10, <2>1, AcknowledgedFacts
    <3> QED
      BY <3>1
  <2>3. CASE d \in cold
    <3>1. sql.seq >= job.snap.seq
      BY <1>1, <1>10 DEF KeepsKeys
    <3>2. d \in DOMAIN sql.days /\ sql.days[d].pv = redis.days[d].pv /\ sql.days[d].quality = redis.days[d].quality
      BY <1>1, <1>10, <2>3, <3>1, AckedRows
    <3> QED
      BY <1>10, <2>2, <2>3, <3>2 DEF DayTells, Tells
  <2>4. CASE d \notin cold
    BY <1>10, <2>2, <2>4 DEF DayTells
  <2> QED
    BY <2>3, <2>4
<1> QED
  BY <1>1, <1>4, <1>5, <1>6, <1>7, <1>8, <1>9, <1>10 DEF CalmMoves

\* This holds of every day out of the gaps after any step.
LEMMA DaysStay ==
  ASSUME Typed, SnapIsRedis, Ahead, KeepsKeys, ExactDays, [StatsNext]_statsVars, Calm'
  PROVE  DaysTell(redis.days, seen)'
<1> SUFFICES ASSUME NEW d \in Days, d >= lower', d \notin Unsettled'
    PROVE  DayTells(redis'.days, sql'.days, seen', d)
  BY DEF DaysTell
<1>1. Calm /\ d >= lower
  BY CalmBefore, SettledBefore
<1>2. CASE d \notin Unsettled
  <2>1. DayTells(redis.days, sql.days, seen, d)
    BY <1>1, <1>2 DEF ExactDays, DaysTell
  <2> QED
    BY <1>1, <2>1, DayStays
<1>3. CASE redis' = Marked(d, job.seq)
  <2>1. redis \in RedisStates /\ job.seq \in Nat
    BY JobParts DEF Typed, Shape
  <2>2. d \in DOMAIN redis'.days /\ redis'.days[d].quality = "degraded"
    BY <1>3, <2>1, MarkedFacts
  <2> QED
    BY <2>2 DEF DayTells, Tells
<1> QED
  BY <1>2, <1>3, SettledBefore

\* What a snapshot tells of the days stays exact until it is committed.
LEMMA SnapDaysStay ==
  ASSUME Typed, ExactDays, [StatsNext]_statsVars, Calm', job'.pc = "commit",
         NEW d \in Days, d >= lower', d \notin Unsettled'
  PROVE  DayTells(job'.snap.days, sql'.days, job'.seen, d)
<1>1. Calm /\ d >= lower /\ d \notin Unsettled /\ SnapMoves /\ job \in Jobs
  BY CalmBefore, SettledBefore, SnapSources DEF Typed, Shape
<1>2. CASE job' = job /\ sql' = sql
  BY <1>1, <1>2 DEF ExactDays, DaysTell
<1>3. CASE /\ UNCHANGED <<redis, sql, seen>>
           /\ job' = [job EXCEPT !.pc = IF redis.seq > redis.ack THEN "commit" ELSE "ack",
                             !.snap = redis, !.now = today, !.seen = seen]
  <2>1. job'.snap = redis /\ job'.seen = seen
    BY <1>1, <1>3 DEF Jobs
  <2>2. DayTells(redis.days, sql.days, seen, d)
    BY <1>1 DEF ExactDays, DaysTell
  <2> QED
    BY <1>3, <2>1, <2>2
<1>4. CASE job' = [job EXCEPT !.pc = "ack"]
  <2>1. job'.pc = "ack"
    BY <1>1, <1>4 DEF Jobs
  <2> QED
    BY <2>1
<1> QED
  BY <1>1, <1>2, <1>3, <1>4 DEF SnapMoves

\* A mark that is still to be committed stays, unless its row tells of it.
LEMMA MarkStays ==
  ASSUME Typed, SnapIsRedis, Ahead, KeepsKeys, [StatsNext]_statsVars, Calm', sql' = sql,
         NEW d \in Days, d >= lower, d \in pending, d \in DOMAIN redis.days, redis.days[d].quality = "degraded"
  PROVE  \/ d \in pending' /\ d \in DOMAIN redis'.days /\ redis'.days[d].quality = "degraded"
         \/ d \in DOMAIN sql.days /\ sql.days[d].quality = "degraded"
<1>1. Calm /\ CalmMoves /\ "crash" \notin mishaps'
  BY CalmBefore, CalmSources
<1>2. /\ redis \in RedisStates /\ sql \in RowStates /\ job \in Jobs /\ job.snap \in RedisStates
      /\ sql.seq \in Nat /\ job.snap.seq \in Nat
  BY JobParts, RedisParts, RowParts DEF Typed, Shape
<1>3. CASE Commit /\ ~(pending \subseteq pending')
  <2>1. job.pc = "commit" /\ job' = [job EXCEPT !.pc = "ack"]
    BY <1>3, CommitRows
  <2>2. sql.seq >= job.snap.seq
    <3>1. SUFFICES ASSUME sql.seq < job.snap.seq PROVE FALSE
      BY <1>2
    <3>2. sql' = Rows(job.snap, job.now)
      BY <1>3, <2>1, <3>1, CommitsNewer
    <3>3. sql'.seq = job.snap.seq
      BY <2>1, <3>2, CommittedRows
    <3> QED
      BY <1>2, <3>1, <3>3
  <2> QED
    BY <1>1, <2>1, <2>2, AckedRows
<1>4. CASE pending \subseteq pending'
  <2>1. d \in pending'
    BY <1>4
  <2>2. CASE redis' = redis
    BY <2>1, <2>2
  <2>3. CASE redis' = Merged
    BY <1>2, <2>1, <2>3, MergedFacts
  <2>4. CASE redis.kind # "whole"
    <3>1. DOMAIN redis.days = {}
      BY <1>1, <2>4 DEF KeepsKeys, Keyed, NoRedis, NoEntries
    <3> QED
      BY <3>1
  <2>5. CASE redis' = Reserved
    BY <1>2, <2>1, <2>5, ReservedFacts
  <2>6. CASE job.pc = "write" /\ redis' = Counted(job.visit, job.seq, job.fresh)
    <3>1. job.visit.day \in Days /\ job.visit.who \subseteq Visitors /\ job.seq \in Nat /\ job.fresh \in BOOLEAN
      BY <1>2, <2>6, JobParts DEF Typed, InPlace
    <3> DEFINE x == job.visit.day
    <3>2. /\ DOMAIN redis'.days = DOMAIN redis.days \cup {x}
          /\ x \in DOMAIN redis.days => redis'.days[x].quality = redis.days[x].quality
          /\ \A e \in DOMAIN redis.days : e # x => redis'.days[e] = redis.days[e]
      BY <1>2, <2>6, <3>1, CountedFacts
    <3> QED
      BY <2>1, <3>2
  <2>7. CASE job.pc = "mark" /\ redis' = Marked(job.visit.day, job.seq)
    <3>1. job.visit.day \in Days /\ job.seq \in Nat
      BY <1>2, <2>7, JobParts DEF Typed, InPlace
    <3> DEFINE x == job.visit.day
    <3>2. /\ DOMAIN redis'.days = DOMAIN redis.days \cup {x}
          /\ redis'.days[x].quality = "degraded"
          /\ \A e \in DOMAIN redis.days : e # x => redis'.days[e] = redis.days[e]
      BY <1>2, <2>7, <3>1, MarkedFacts
    <3> QED
      BY <2>1, <3>2
  <2>8. CASE job.pc = "ack" /\ redis' = Acknowledged(job.snap.seq, job.now + 1 - HotDays)
    <3>1. job.now + 1 - HotDays \in Int
      BY <1>2, JobParts, Budgets
    <3> DEFINE cold == {e \in DOMAIN redis.days : e < job.now + 1 - HotDays /\ redis.days[e].seq <= Larger(job.snap.seq, redis.ack)}
    <3>2. /\ DOMAIN redis'.days = DOMAIN redis.days \ cold
          /\ \A e \in DOMAIN redis.days \ cold : redis'.days[e] = redis.days[e]
      BY <1>2, <2>8, <3>1, AcknowledgedFacts
    <3> HIDE DEF cold
    <3>3. CASE d \in cold
      <4>1. sql.seq >= job.snap.seq
        BY <1>1, <2>8 DEF KeepsKeys
      <4> QED
        BY <1>1, <2>8, <4>1, AckedRows
    <3>4. CASE d \notin cold
      BY <2>1, <3>2, <3>4
    <3> QED
      BY <3>3, <3>4
  <2> QED
    BY <1>1, <2>2, <2>3, <2>4, <2>5, <2>6, <2>7, <2>8 DEF CalmMoves
<1> QED
  BY <1>1, <1>3, <1>4, PendingKept

\* What a row tells stays exact, or its mark is still to be committed.
LEMMA RowStays ==
  ASSUME Typed, SnapIsRedis, Ahead, KeepsKeys, ExactDays, [StatsNext]_statsVars, Calm', sql'.seq > 0,
         NEW d \in Days, d >= lower', d \notin Unsettled'
  PROVE  RowTells(d)'
<1>1. Calm /\ RowMoves /\ d >= lower
  BY CalmBefore, RowSources, SettledBefore
<1>2. /\ sql \in RowStates /\ job \in Jobs /\ job.snap \in RedisStates /\ redis \in RedisStates
      /\ today \in Days
  BY JobParts DEF Typed, Shape
<1>3. CASE redis' = Marked(d, job.seq) /\ d \in pending'
  <2>1. d \in DOMAIN redis'.days /\ redis'.days[d].quality = "degraded"
    BY <1>2, <1>3, JobParts, MarkedFacts
  <2> QED
    BY <1>3, <2>1 DEF RowTells
<1>4. CASE d \notin Unsettled
  <2>1. CASE job.pc = "commit" /\ sql' = Rows(job.snap, job.now) /\ covered' = job.seen
    <3>1. DayTells(job.snap.days, sql.days, job.seen, d)
      BY <1>1, <1>4, <2>1 DEF ExactDays, DaysTell
    <3> DEFINE K == Kept(job.snap, job.now)
    <3>2. /\ DOMAIN sql'.days = DOMAIN sql.days \cup K
          /\ K = {e \in DOMAIN job.snap.days : e >= job.now + 1 - RetentionDays}
          /\ \A e \in K : /\ sql'.days[e].pv = job.snap.days[e].pv
                          /\ sql'.days[e].quality = job.snap.days[e].quality
          /\ \A e \in DOMAIN sql.days \ K : sql'.days[e] = sql.days[e]
      BY <2>1, CommittedRows
    <3>3. d >= job.now + 1 - RetentionDays
      <4>1. job.now \in Int /\ job.now <= today /\ RetentionDays \in Int /\ today \in Int /\ d \in Int
        BY <1>2, JobParts, Budgets, DayNumbers DEF Typed, InPlace, Days
      <4> QED
        BY <1>1, <4>1 DEF lower
    <3> HIDE DEF K
    <3>4. CASE d \in DOMAIN job.snap.days
      <4>1. d \in K
        BY <3>2, <3>3, <3>4
      <4>2. d \in DOMAIN sql'.days /\ sql'.days[d].pv = job.snap.days[d].pv /\ sql'.days[d].quality = job.snap.days[d].quality
        BY <3>2, <4>1
      <4> QED
        BY <2>1, <3>1, <3>4, <4>2 DEF RowTells, DayTells, Tells
    <3>5. CASE d \notin DOMAIN job.snap.days
      <4>1. d \notin K
        BY <3>2, <3>5
      <4>2. (d \in DOMAIN sql'.days) <=> (d \in DOMAIN sql.days)
        BY <3>2, <4>1
      <4>3. d \in DOMAIN sql.days => sql'.days[d] = sql.days[d]
        BY <3>2, <4>1
      <4> QED
        BY <2>1, <3>1, <3>5, <4>2, <4>3 DEF RowTells, DayTells
    <3> QED
      BY <3>4, <3>5
  <2>2. CASE sql' = sql /\ covered' = covered
    <3>1. RowTells(d)
      BY <1>1, <1>4, <2>2 DEF ExactDays
    <3>2. CASE IF d \in DOMAIN sql.days THEN Tells(sql.days[d], covered[d]) ELSE covered[d] = 0
      BY <2>2, <3>2 DEF RowTells
    <3>3. CASE d \in pending /\ d \in DOMAIN redis.days /\ redis.days[d].quality = "degraded"
      <4>1. \/ d \in pending' /\ d \in DOMAIN redis'.days /\ redis'.days[d].quality = "degraded"
            \/ d \in DOMAIN sql.days /\ sql.days[d].quality = "degraded"
        BY <1>1, <2>2, <3>3, MarkStays
      <4> QED
        BY <2>2, <4>1 DEF RowTells, Tells
    <3> QED
      BY <3>1, <3>2, <3>3 DEF RowTells
  <2>3. CASE Cleanup /\ covered' = covered
    <3>1. /\ DOMAIN sql'.days \subseteq DOMAIN sql.days /\ sql'.seq = sql.seq
          /\ d \in DOMAIN sql.days => d \in DOMAIN sql'.days
          /\ \A e \in DOMAIN sql'.days : sql'.days[e] = sql.days[e]
      BY <1>1, <2>3, CleanupRows
    <3>2. redis' = redis /\ pending' = pending
      BY <2>3 DEF Cleanup
    <3>3. RowTells(d)
      BY <1>1, <1>4, <3>1 DEF ExactDays
    <3> QED
      BY <2>3, <3>1, <3>2, <3>3 DEF RowTells
  <2> QED
    BY <1>1, <2>1, <2>2, <2>3 DEF RowMoves
<1> QED
  BY <1>3, <1>4, SettledBefore

\* Every step keeps all of this.
LEMMA ExactDaysStay ==
  ASSUME Typed, SnapIsRedis, Ahead, KeepsKeys, ExactDays, [StatsNext]_statsVars
  PROVE  ExactDays'
<1> SUFFICES ASSUME Calm'
    PROVE  /\ DaysTell(redis.days, seen)'
           /\ job'.pc = "commit" => DaysTell(job.snap.days, job.seen)'
           /\ sql'.seq > 0 => \A d \in Days : d >= lower' /\ d \notin Unsettled' => RowTells(d)'
  BY DEF ExactDays
<1>1. DaysTell(redis.days, seen)'
  BY DaysStay
<1>2. job'.pc = "commit" => DaysTell(job.snap.days, job.seen)'
  BY SnapDaysStay DEF DaysTell
<1>3. sql'.seq > 0 => \A d \in Days : d >= lower' /\ d \notin Unsettled' => RowTells(d)'
  BY RowStays
<1> QED
  BY <1>1, <1>2, <1>3

\* It holds at the start.
LEMMA InitKeys == StatsInit => KeepsKeys /\ ExactDays
<1> SUFFICES ASSUME StatsInit PROVE KeepsKeys /\ ExactDays
  OBVIOUS
<1>1. /\ job.pc = "idle" /\ redis = NoRedis /\ sql.seq = 0 /\ sql.pv = 0 /\ DOMAIN sql.days = {} /\ ready = FALSE
      /\ redis.kind = "none" /\ redis.pv = 0 /\ redis.ack = 0 /\ DOMAIN redis.days = {} /\ seen = Unseen
  BY IdleFacts DEF StatsInit, NoRedis, NoRows, NoEntries
<1>2. Keyed
  BY <1>1 DEF Keyed
<1>3. job.pc \notin Ensuring /\ job.pc # "ack"
  BY <1>1 DEF Ensuring
<1>4. KeepsKeys
  BY <1>1, <1>2, <1>3 DEF KeepsKeys
<1>5. \A d \in Days : DayTells(redis.days, sql.days, seen, d)
  BY <1>1 DEF DayTells, Unseen
<1>6. ExactDays
  BY <1>1, <1>5 DEF ExactDays, DaysTell
<1> QED
  BY <1>4, <1>6

\* The invariant behind the days.
DaysInv == TotalsInv /\ KeepsKeys /\ ExactDays

\* The invariant of the days holds.
LEMMA StatsDays == StatsSpec => []DaysInv
<1>1. DaysInv /\ [StatsNext]_statsVars => DaysInv'
  <2> SUFFICES ASSUME DaysInv, [StatsNext]_statsVars PROVE DaysInv'
    OBVIOUS
  <2>1. /\ Typed /\ SnapIsRedis /\ Ahead /\ Degrading /\ Exact /\ KeepsKeys /\ ExactDays
    BY DEF DaysInv, TotalsInv
  <2>2. TotalsInv'
    BY <2>1, StepTyped, SnapStays, AheadStays, DegradingStays, ExactStays DEF TotalsInv
  <2> QED
    BY <2>1, <2>2, KeepsKeysStays, ExactDaysStay DEF DaysInv
<1>2. StatsInit => DaysInv
  BY InitTyped, InitWithin, InitExact, InitKeys DEF DaysInv, TotalsInv
<1> QED
  BY <1>1, <1>2, PTL DEF StatsSpec

\* HonestDays: while Redis keeps its keys, a day that is neither a gap nor waiting for its mark to
\* be committed has a row that counts its visits or is degraded.
THEOREM HonestDaysTheorem == StatsSpec => []HonestDays
<1>1. DaysInv => HonestDays
  <2> SUFFICES ASSUME DaysInv, mishaps = {}, anew = {}, job.held = {}, sql.seq > 0,
                      NEW d \in Days, d \in lower..today, DayStats(d).quality = "ok"
               PROVE  DayStats(d).pv = covered[d]
    BY DEF HonestDays
  <2> DEFINE told == IF d \in DOMAIN sql.days THEN [pv |-> sql.days[d].pv, quality |-> sql.days[d].quality]
                    ELSE [pv |-> 0, quality |-> IF d < sql.started THEN "not_started" ELSE "ok"]
  <2>1. d \notin ReportedGaps
    <3>1. SUFFICES ASSUME d \in ReportedGaps PROVE FALSE
      OBVIOUS
    <3>2. DayStats(d) = [told EXCEPT !.quality = "degraded"]
      BY <3>1 DEF DayStats
    <3>3. [told EXCEPT !.quality = "degraded"].quality = "degraded"
      OBVIOUS
    <3> QED
      BY <3>2, <3>3
  <2>2. DayStats(d) = told
    BY <2>1 DEF DayStats
  <2>3. d >= lower /\ d \notin Unsettled /\ d \notin pending
    <3>1. d \in Int /\ lower \in Int /\ today \in Int
      BY DayNumbers, Budgets DEF DaysInv, TotalsInv, Typed, Shape, lower, Days
    <3> QED
      BY <2>1, <3>1 DEF ReportedGaps, Unsettled
  <2>4. RowTells(d)
    BY <2>3 DEF DaysInv, ExactDays, Calm
  <2>5. CASE d \in DOMAIN sql.days
    <3>1. told.pv = sql.days[d].pv /\ told.quality = sql.days[d].quality
      BY <2>5
    <3> QED
      BY <2>2, <2>3, <2>4, <2>5, <3>1 DEF RowTells, Tells
  <2>6. CASE d \notin DOMAIN sql.days
    <3>1. told.pv = 0
      BY <2>6
    <3> QED
      BY <2>2, <2>3, <2>4, <2>6, <3>1 DEF RowTells
  <2> QED
    BY <2>5, <2>6
<1> QED
  BY <1>1, StatsDays, PTL

\* HonestReports: both of the above.
THEOREM HonestReportsTheorem == StatsSpec => []HonestReports
<1>1. HonestTotals /\ HonestDays => HonestReports
  BY DEF HonestReports
<1> QED
  BY <1>1, HonestTotalsTheorem, HonestDaysTheorem, PTL
=============================================================================
