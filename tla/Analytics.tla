------------------------------ MODULE Analytics ------------------------------
(***************************************************************************)
(* The visit statistics of one project (domain/service/webanalytics): a   *)
(* bounded queue in memory, a worker that counts into Redis under the     *)
(* gate, and snapshots it commits to MySQL.  Other projects share the     *)
(* queue and the two tables of gaps: they may leave this one no room.  A  *)
(* HyperLogLog is the set of its visitors; dates are numbers.  Redis may  *)
(* lose keys, come back with an older image or lose an answer; the        *)
(* process may restart at any point.                                      *)
(***************************************************************************)
EXTENDS Integers, Sequences, FiniteSets, Functions, FiniteSetsExt

CONSTANTS Visitors,
          QueueSize, HotDays, RetentionDays,        \* Options
          Mishaps,                                   \* the faults that may happen
          MaxVisits, MaxDay, MaxFaults               \* bounds

ASSUME Budgets == /\ IsFiniteSet(Visitors) /\ QueueSize \in Nat \ {0} /\ HotDays \in Nat \ {0}
                  /\ RetentionDays \in Nat /\ RetentionDays >= HotDays
                  /\ MaxVisits \in Nat /\ MaxDay \in Nat \ {0} /\ MaxFaults \in Nat

VARIABLES today,      \* Now() as a date
          queue,      \* Service.queue
          closed,     \* Service.closed
          gaps,       \* Service.gaps: dates
          pending,    \* Service.pendingGaps: dates
          overflow,   \* Service.gapOverflow
          crowd,      \* where other projects leave this one no room
          ready,      \* Service.ready[project]
          known,      \* Service.known[project]
          job,        \* where the worker is, under the gate
          redis,      \* the project's keys
          image,      \* the last image Redis wrote to its disk
          sql,        \* the project's rows
          faults,     \* faults so far, a bound
          offered,    \* visits offered to Record
          seen,       \* visits settled since tracking began, by date
          covered,    \* what seen was when the last committed snapshot was read
          mishaps,    \* which faults have happened
          anew        \* days with a row that the worker began anew in Redis

memory == <<queue, gaps, pending, overflow, crowd, ready, known, job>>
statsVars == <<today, closed, memory, redis, image, sql, faults, offered, seen, covered, mishaps,
              anew>>

Days == 1..MaxDay
Shared == {"queue", "gaps", "pending"}
All == 0                       \* the key of the permanent HLL
NoEntries == [d \in {} |-> 0]    \* no field, no key, no row
Only(d, e) == [x \in {d} |-> e]
Over(f, g) == [x \in DOMAIN f \cup DOMAIN g |-> IF x \in DOMAIN f THEN f[x] ELSE g[x]]
Unseen == [d \in Days |-> 0]

lower == today + 1 - RetentionDays
hotFrom == today + 1 - HotDays

NoRedis == [kind |-> "none", pv |-> 0, seq |-> 0, ack |-> 0, quality |-> "ok", started |-> 0,
            days |-> NoEntries, hll |-> NoEntries, dirty |-> FALSE, listed |-> FALSE]

NoRows == [pv |-> 0, uv |-> {}, seq |-> 0, quality |-> "ok", started |-> 0, persisted |-> 0,
           days |-> NoEntries]

NoVisit == [day |-> 0, who |-> {}]

Idle == [pc |-> "idle", flush |-> FALSE, left |-> 0, visit |-> NoVisit, fresh |-> FALSE,
         seq |-> 0, held |-> {}, late |-> FALSE, now |-> 0, snap |-> NoRedis, seen |-> Unseen]

EndFlush == [Idle EXCEPT !.pc = "cleanup"]

StatsInit == /\ today = 1 /\ closed = FALSE
        /\ queue = <<>> /\ gaps = {} /\ pending = {} /\ overflow = FALSE /\ crowd = {}
        /\ ready = FALSE /\ known = FALSE /\ job = Idle
        /\ redis = NoRedis /\ image = NoRedis /\ sql = NoRows
        /\ faults = 0 /\ offered = 0 /\ seen = Unseen /\ covered = Unseen /\ mishaps = {}
             /\ anew = {}

Fault(m) == m \in Mishaps /\ faults < MaxFaults /\ faults' = faults + 1

(***************************************************************************)
(* Gaps.                                                                   *)
(***************************************************************************)
\* noteGap: one entry per project and date; a full table only remembers that it overflowed.
noteGap(d) ==
  LET full == "gaps" \in crowd \/ Cardinality(gaps) >= QueueSize
  IN  IF d \notin gaps /\ full
      THEN gaps' = gaps /\ overflow' = TRUE /\ mishaps' = mishaps \cup {"spill"}
      ELSE gaps' = gaps \cup {d} /\ UNCHANGED <<overflow, mishaps>>

NoGap == UNCHANGED <<gaps, overflow, mishaps>>

(***************************************************************************)
(* Requests.                                                               *)
(***************************************************************************)
\* A visit is queued, or dropped when the queue is full.  While other projects' visits crowd the
\* queue it has room at times.
Record(v) ==
  /\ ~closed /\ offered < MaxVisits
  /\ offered' = offered + 1
  /\ \/ /\ Len(queue) < QueueSize
        /\ queue' = Append(queue, [day |-> today, who |-> {v}]) /\ UNCHANGED seen /\ NoGap
     \/ /\ Len(queue) >= QueueSize \/ "queue" \in crowd
        /\ noteGap(today) /\ seen' = [seen EXCEPT ![today] = @ + 1] /\ UNCHANGED queue
  /\ UNCHANGED <<today, closed, crowd, pending, ready, known, job, redis, image, sql, faults, covered, anew>>

\* Close stops admission and the worker's loop; Flush may still be called.
Close == /\ ~closed /\ closed' = TRUE
         /\ UNCHANGED <<today, memory, redis, image, sql, faults, offered, seen, covered, mishaps, anew>>

(***************************************************************************)
(* Redis commands.                                                         *)
(***************************************************************************)
\* HINCRBY seq: on a missing hash it creates one that lacks every other field.
Reserved == [redis EXCEPT !.kind = IF @ = "none" THEN "part" ELSE @, !.seq = @ + 1]

\* What the transaction of writeVisit does.  A day HLL the state does not name is replaced.
Counted(v, n, fresh) ==
  LET d == v.day
      old == IF d \in DOMAIN redis.days THEN redis.days[d] ELSE [pv |-> 0, seq |-> 0, quality |-> "ok"]
      Add(k) == v.who \cup IF k \in DOMAIN redis.hll /\ ~(k = d /\ fresh) THEN redis.hll[k] ELSE {}
  IN  [redis EXCEPT !.kind = IF @ = "none" THEN "part" ELSE @, !.pv = @ + 1,
                    !.days = Over(Only(d, [pv |-> old.pv + 1, seq |-> n, quality |-> old.quality]), @),
                    !.hll = Over([k \in {All, d} |-> Add(k)], @),
                    !.dirty = TRUE, !.listed = TRUE]

\* What the transaction of markQuality does.
Marked(d, n) ==
  LET pv == IF d \in DOMAIN redis.days THEN redis.days[d].pv ELSE 0
  IN  [redis EXCEPT !.kind = IF @ = "none" THEN "part" ELSE @, !.quality = "degraded",
                    !.days = Over(Only(d, [pv |-> pv, seq |-> n, quality |-> "degraded"]), @),
                    !.hll = Over(@, Only(d, {})),
                    !.dirty = TRUE, !.listed = TRUE]

\* readRedis succeeds.
Readable == /\ redis.kind = "whole" /\ redis.ack <= redis.seq
            /\ {All} \cup DOMAIN redis.days \subseteq DOMAIN redis.hll

\* The daily rows ReadWebProjectStats returns for the retention window.
Window == {d \in DOMAIN sql.days : d >= lower /\ d <= today}

redisPVRegressed ==
  \/ redis.pv < sql.pv
  \/ \E d \in Window : IF d \in DOMAIN redis.days THEN redis.days[d].pv < sql.days[d].pv
                       ELSE d >= hotFrom

\* ensure keeps the Redis state.
Keeps == Readable /\ (sql.seq = 0 \/ (redis.seq >= sql.seq /\ ~redisPVRegressed))

\* mergeHLLBaseline, and SADD dirty when there is something to acknowledge.
Merged ==
  LET Base(k) == IF k = All THEN sql.uv
                 ELSE IF k \in Window /\ k \in DOMAIN redis.days THEN sql.days[k].uv ELSE {}
  IN  [redis EXCEPT !.hll = [k \in DOMAIN @ |-> @[k] \cup Base(k)],
                    !.dirty = @ \/ redis.seq > redis.ack]

\* Mutant: only what is left in Redis counts as a recovery.
RecoveredKeys == redis.kind # "none" \/ All \in DOMAIN redis.hll

\* There is something to recover: a row, or a key of the project in Redis.
Recovered == sql.seq > 0 \/ redis.kind # "none" \/ All \in DOMAIN redis.hll

\* The days restored from SQL; with a loss to report, those since the last snapshot are degraded.
RestoredDays(at) ==
  LET from == Max({lower, IF sql.seq > 0 THEN sql.persisted ELSE at})
      lost == IF Recovered THEN from..today ELSE {}
      Old(d) == IF d \in Window THEN sql.days[d] ELSE [pv |-> 0, uv |-> {}, seq |-> 0, quality |-> "ok"]
      Day(d) == IF d \in lost THEN [Old(d) EXCEPT !.seq = sql.seq + 1, !.quality = "degraded"]
                ELSE Old(d)
  IN  [d \in {x \in Window \cup lost : x >= hotFrom \/ Day(x).seq > sql.seq} |-> Day(d)]

\* restoreRedis: every key of the project is replaced in one transaction.
Restored(at) ==
  LET days == RestoredDays(at)
  IN  [kind |-> "whole", pv |-> sql.pv, ack |-> sql.seq,
       seq |-> IF Recovered THEN sql.seq + 1 ELSE sql.seq,
       quality |-> IF Recovered THEN "degraded" ELSE sql.quality,
       started |-> IF sql.seq > 0 THEN sql.started ELSE at,
       days |-> [d \in DOMAIN days |-> [pv |-> days[d].pv, seq |-> days[d].seq,
                                        quality |-> days[d].quality]],
       hll |-> Over(Only(All, sql.uv), [d \in DOMAIN days |-> days[d].uv]),
       dirty |-> TRUE, listed |-> TRUE]

\* What ensure leaves in Redis.
Ensured(at) == IF Keeps THEN Merged ELSE Restored(at)

\* ensure has read Redis and done its work.  Nothing to recover means that tracking begins now.
ensure(at) == /\ redis' = Ensured(at)
              /\ seen' = IF Keeps \/ Recovered THEN seen ELSE Unseen

\* ensure takes any error of readRedis for a bad state: when reading a good one fails and the
\* commands after it do not, MySQL's older state replaces it.  (Should the restore be executed and
\* its answer lost as well, a visit or a mark goes on as if its next command had failed.)
Misread(at) == /\ Fault("misread") /\ Keeps
               /\ redis' = Restored(at) /\ UNCHANGED seen
               /\ mishaps' = mishaps \cup {"misread"}

\* ensure returns an error: it did nothing, or its last command was executed.
EnsureFails(at) == /\ Fault("redis")
                   /\ ensure(at) \/ UNCHANGED <<redis, seen>>

(***************************************************************************)
(* The worker: one visit.                                                  *)
(***************************************************************************)
TakeEvent ==
  /\ queue # <<>>
  /\ \/ job.pc = "idle" /\ ~closed
     \/ job.pc = "drain" /\ job.left > 0
  /\ job' = [job EXCEPT !.pc = "visit", !.visit = Head(queue), !.left = IF job.flush THEN @ - 1 ELSE 0]
  /\ queue' = Tail(queue) /\ known' = TRUE
  /\ UNCHANGED <<today, closed, crowd, gaps, pending, overflow, ready, redis, image, sql, faults, offered,
                 seen, covered, mishaps>>

Resume == IF job.flush THEN [job EXCEPT !.pc = "drain", !.visit = NoVisit, !.fresh = FALSE, !.seq = 0]
          ELSE Idle

\* The visit in hand is settled.
Settle == [seen EXCEPT ![job.visit.day] = @ + 1]

\* The event is too old (event_expired), or the gate was not free in time (worker_busy).
ExpireVisit ==
  /\ job.pc = "visit"
  /\ job' = Resume /\ seen' = Settle
  /\ noteGap(job.visit.day)
  /\ UNCHANGED <<today, closed, crowd, queue, pending, ready, known, redis, image, sql, faults, offered, covered>>

\* An event is at most MaxQueueAge old: of today or, after midnight, of yesterday.
ProcessEnsure ==
  /\ job.pc = "visit" /\ job.visit.day >= today - 1
  /\ \/ /\ IF ready THEN UNCHANGED <<redis, seen>> ELSE ensure(job.visit.day)
        /\ ready' = TRUE /\ job' = [job EXCEPT !.pc = "reserve"]
        /\ UNCHANGED <<faults, mishaps>>
     \/ /\ ~ready /\ Misread(job.visit.day)
        /\ ready' = TRUE /\ job' = [job EXCEPT !.pc = "reserve"]
     \/ /\ ~ready /\ EnsureFails(job.visit.day) /\ UNCHANGED <<ready, mishaps>>
        /\ job' = [job EXCEPT !.pc = "failed"]
  /\ UNCHANGED <<today, closed, crowd, queue, gaps, pending, overflow, known, image, sql, offered, covered>>

\* initialization_failed
ProcessFails ==
  /\ job.pc = "failed"
  /\ job' = Resume /\ seen' = Settle /\ noteGap(job.visit.day)
  /\ UNCHANGED <<today, closed, crowd, queue, pending, ready, known, redis, image, sql, faults, offered, covered>>

\* Mutant: a visit whose write failed is tried again.
WriteReplayed == /\ ready' = FALSE /\ job' = [job EXCEPT !.pc = "visit"] /\ UNCHANGED seen /\ NoGap

\* redis_write_unknown: the event is never replayed.
WriteUnknown == /\ ready' = FALSE /\ job' = Resume /\ seen' = Settle /\ noteGap(job.visit.day)

\* The first pipeline of writeVisit: what exists, and the next sequence number.
VisitReserve ==
  LET d == job.visit.day
      evicted == \/ redis.kind = "none" \/ All \notin DOMAIN redis.hll
                 \/ d \in DOMAIN redis.days /\ d \notin DOMAIN redis.hll
  IN  /\ job.pc = "reserve"
      /\ \/ /\ redis' = Reserved /\ UNCHANGED faults
            /\ IF evicted THEN WriteUnknown
               ELSE /\ job' = [job EXCEPT !.pc = "write", !.seq = redis.seq + 1,
                                 !.fresh = d \notin DOMAIN redis.days /\ d \in DOMAIN redis.hll]
                    /\ UNCHANGED <<ready, seen>> /\ NoGap
         \/ /\ Fault("redis") /\ WriteUnknown
            /\ redis' \in {redis, Reserved}
      /\ UNCHANGED <<today, closed, crowd, queue, pending, known, image, sql, offered, covered>>

\* The transaction of writeVisit.  The client may send it twice when the first answer is lost.
VisitWrite ==
  LET once == Counted(job.visit, job.seq, job.fresh)
  IN  /\ job.pc = "write"
      /\ \/ /\ redis' = once /\ job' = Resume /\ seen' = Settle
            /\ UNCHANGED <<ready, faults>> /\ NoGap
         \/ /\ Fault("redis") /\ WriteUnknown
            /\ redis' \in {redis, once}
         \/ /\ Fault("retry")
            /\ redis' = [once EXCEPT !.pv = @ + 1, !.days[job.visit.day].pv = @ + 1]
            /\ job' = Resume /\ seen' = Settle /\ mishaps' = mishaps \cup {"retry"}
            /\ UNCHANGED <<ready, gaps, overflow>>
      /\ UNCHANGED <<today, closed, crowd, queue, pending, known, image, sql, offered, covered>>

(***************************************************************************)
(* Flush.                                                                  *)
(***************************************************************************)
BeginFlush ==
  /\ job.pc = "idle"
  /\ job' = [Idle EXCEPT !.pc = "drain", !.flush = TRUE, !.left = Len(queue)]
  /\ UNCHANGED <<today, closed, crowd, queue, gaps, pending, overflow, ready, known, redis, image, sql,
                 faults, offered, seen, covered, mishaps, anew>>

\* flushGaps takes the whole table; an overflow becomes a gap of today in every known project.
\* The marks of the other projects' gaps may then fill the table of pending ones.
SwapGaps ==
  /\ job.pc = "drain" /\ job.left = 0
  /\ job' = [job EXCEPT !.pc = "marks", !.held = gaps \cup IF overflow /\ known THEN {today} ELSE {}]
  /\ gaps' = {} /\ overflow' = FALSE
  /\ crowd' \in {crowd \ {"gaps"}} \cup IF "gaps" \in crowd THEN {(crowd \ {"gaps"}) \cup {"pending"}} ELSE {}
  /\ mishaps' = mishaps \cup IF overflow /\ ~known /\ "spill" \in mishaps THEN {"forgotten"} ELSE {}
  /\ UNCHANGED <<today, closed, queue, pending, ready, known, redis, image, sql, faults, offered,
                 seen, covered>>

\* A gap that could not be marked returns to the table.
Unmarked(d) == /\ ready' = FALSE /\ noteGap(d)
               /\ job' = [job EXCEPT !.pc = "marks", !.held = @ \ {d}, !.visit = NoVisit, !.seq = 0]
               /\ UNCHANGED <<pending, known>>

MarkEnsure(d) ==
  /\ job.pc = "marks" /\ d \in job.held
  /\ \/ /\ IF ready THEN UNCHANGED <<redis, seen>> ELSE ensure(d)
        /\ ready' = TRUE /\ job' = [job EXCEPT !.pc = "markseq", !.visit.day = d]
        /\ UNCHANGED <<pending, known, faults>> /\ NoGap
     \/ /\ ~ready /\ Misread(d)
        /\ ready' = TRUE /\ job' = [job EXCEPT !.pc = "markseq", !.visit.day = d]
        /\ UNCHANGED <<pending, known, gaps, overflow>>
     \/ ~ready /\ EnsureFails(d) /\ Unmarked(d)
  /\ UNCHANGED <<today, closed, crowd, queue, image, sql, offered, covered>>

\* markQuality failed: flushGaps puts the gap back, persistProject gives up.
MarkFails ==
  IF job.late
  THEN /\ job' = EndFlush
       /\ UNCHANGED <<ready, pending, known>> /\ NoGap
  ELSE Unmarked(job.visit.day)

MarkReserve ==
  /\ job.pc = "markseq"
  /\ \/ /\ redis' = Reserved
        /\ job' = [job EXCEPT !.pc = "mark", !.seq = redis.seq + 1]
        /\ UNCHANGED <<ready, pending, known, faults>> /\ NoGap
     \/ Fault("redis") /\ MarkFails /\ redis' \in {redis, Reserved}
  /\ UNCHANGED <<today, closed, crowd, queue, image, sql, offered, seen, covered>>

MarkWrite ==
  LET d == job.visit.day
      full == "pending" \in crowd \/ Cardinality(pending) >= QueueSize
  IN  /\ job.pc = "mark"
      /\ \/ /\ redis' = Marked(d, job.seq) /\ UNCHANGED <<ready, faults, gaps>>
            /\ job' = [job EXCEPT !.pc = IF job.late THEN "read" ELSE "marks", !.held = @ \ {d},
                                  !.visit = NoVisit, !.seq = 0]
            /\ IF job.late THEN UNCHANGED <<pending, known, overflow, mishaps>>
               ELSE /\ known' = TRUE
                    /\ pending' = IF full THEN pending ELSE pending \cup {d}
                    /\ overflow' = (overflow \/ full)
                    /\ mishaps' = mishaps \cup IF d \in pending' THEN {} ELSE {"spill"}
         \/ Fault("redis") /\ MarkFails /\ redis' \in {redis, Marked(d, job.seq)}
      /\ UNCHANGED <<today, closed, crowd, queue, image, sql, offered, seen, covered>>

\* Which projects to persist: the known ones, the dirty set and the registry.
Scan ==
  /\ job.pc = "marks" /\ job.held = {}
  /\ \/ /\ job' = IF known \/ redis.dirty \/ redis.listed THEN [job EXCEPT !.pc = "persist"] ELSE EndFlush
        /\ UNCHANGED faults
     \/ Fault("redis") /\ job' = Idle
  /\ UNCHANGED <<today, closed, crowd, queue, gaps, pending, overflow, ready, known, redis, image, sql,
                 offered, seen, covered, mishaps>>

\* persistProject reconciles with MySQL whatever ready says.
PersistEnsure ==
  /\ job.pc = "persist"
  /\ \/ /\ ready' = TRUE /\ job' = [job EXCEPT !.pc = "read"]
        /\ Misread(today) \/ (ensure(today) /\ UNCHANGED <<faults, mishaps>>)
     \/ /\ ready' = FALSE /\ job' = EndFlush
        /\ Misread(today) \/ (EnsureFails(today) /\ UNCHANGED mishaps)
  /\ UNCHANGED <<today, closed, crowd, queue, gaps, pending, overflow, known, image, sql, offered, covered>>

\* The snapshot is read.  Days that left the retention window unpersisted are marked once.
ReadSnapshot ==
  /\ job.pc = "read"
  /\ \/ /\ Readable /\ UNCHANGED <<ready, faults>> /\ NoGap
        /\ job' = IF ~job.late /\ \E d \in DOMAIN redis.days : d < lower /\ redis.days[d].seq > redis.ack
                  THEN [job EXCEPT !.pc = "markseq", !.late = TRUE, !.visit.day = today]
                  ELSE [job EXCEPT !.pc = IF redis.seq > redis.ack THEN "commit" ELSE "ack",
                                   !.snap = redis, !.now = today, !.seen = seen]
     \/ /\ \/ ~Readable /\ UNCHANGED faults
           \/ Readable /\ Fault("redis")
        /\ job' = EndFlush
        /\ IF job.late THEN UNCHANGED ready /\ NoGap ELSE ready' = FALSE /\ noteGap(today)
  /\ UNCHANGED <<today, closed, crowd, queue, pending, known, redis, image, sql, offered, seen, covered>>

\* The days of a snapshot that are persisted.
Kept(snap, now) == {d \in DOMAIN snap.days : d >= now + 1 - RetentionDays}

\* The rows a snapshot of absolute values makes.
Rows(snap, now) ==
  LET Row(d) == [pv |-> snap.days[d].pv, uv |-> snap.hll[d], seq |-> snap.days[d].seq,
                 quality |-> snap.days[d].quality]
  IN  [pv |-> snap.pv, uv |-> snap.hll[All], seq |-> snap.seq, quality |-> snap.quality,
       started |-> snap.started, persisted |-> now,
       days |-> Over([d \in Kept(snap, now) |-> Row(d)], sql.days)]

\* ErrWebProjectStatsRegression
StatsRegress(new) ==
  \/ new.pv < sql.pv \/ Cardinality(new.uv) < Cardinality(sql.uv)
  \/ \E d \in DOMAIN sql.days : \/ new.days[d].pv < sql.days[d].pv
                                \/ Cardinality(new.days[d].uv) < Cardinality(sql.days[d].uv)

\* Mutant: the sequence numbers are not compared.
PersistAlways(new) == sql' = new /\ covered' = job.seen

\* PersistWebProjectStats: an older or equal sequence number changes nothing.
PersistWebProjectStats(new) ==
  IF sql.seq >= new.seq THEN UNCHANGED <<sql, covered>>
  ELSE sql' = new /\ covered' = job.seen

Commit ==
  LET new == Rows(job.snap, job.now)
      stop == job' = EndFlush
      fails == \/ \E d \in Kept(job.snap, job.now) : job.snap.days[d].seq > new.seq
               \/ sql.seq < new.seq /\ StatsRegress(new)
  IN  /\ job.pc = "commit"
      /\ \/ /\ ~fails /\ PersistWebProjectStats(new)
            /\ pending' = {} /\ job' = [job EXCEPT !.pc = "ack"] /\ UNCHANGED faults
         \/ /\ fails /\ stop /\ UNCHANGED <<sql, covered, pending, faults>>
         \/ /\ Fault("sql") /\ stop /\ UNCHANGED pending
            /\ \/ UNCHANGED <<sql, covered>>
               \/ ~fails /\ PersistWebProjectStats(new)
      /\ UNCHANGED <<today, closed, crowd, queue, gaps, overflow, ready, known, redis, image, offered, seen, mishaps>>

\* Mutant: the acknowledgment does not advance.
AcknowledgedStill(seq, before) == [redis EXCEPT !.dirty = @ /\ redis.seq # seq]

\* acknowledge: cold days at or below the acknowledged sequence leave Redis.
Acknowledged(seq, before) ==
  LET ack == Max({seq, redis.ack})
      cold == {d \in DOMAIN redis.days : d < before /\ redis.days[d].seq <= ack}
  IN  [redis EXCEPT !.ack = ack, !.days = Restrict(@, DOMAIN @ \ cold),
                    !.hll = Restrict(@, DOMAIN @ \ cold), !.dirty = @ /\ redis.seq # seq]

Acknowledge ==
  LET next == Acknowledged(job.snap.seq, job.now + 1 - HotDays)
  IN  /\ job.pc = "ack" /\ job' = EndFlush
      /\ IF redis.kind = "whole" /\ redis.seq >= job.snap.seq
         THEN \/ redis' = next /\ UNCHANGED faults
              \/ Fault("redis") /\ redis' \in {redis, next}
         ELSE UNCHANGED <<redis, faults>>
      /\ UNCHANGED <<today, closed, crowd, queue, gaps, pending, overflow, ready, known, image, sql,
                     offered, seen, covered, mishaps>>

\* CleanupWebProjectStats, and the end of Flush, in which the other projects may have committed
\* their marks.
Cleanup ==
  /\ job.pc = "cleanup" /\ job' = Idle /\ crowd' \in {crowd, crowd \ {"pending"}}
  /\ \/ sql' = [sql EXCEPT !.days = Restrict(@, {d \in DOMAIN @ : d >= lower})] /\ UNCHANGED faults
     \/ Fault("sql") /\ UNCHANGED sql
  /\ UNCHANGED <<today, closed, queue, gaps, pending, overflow, ready, known, redis, image,
                 offered, seen, covered, mishaps>>

\* Both transactions make the day they write to.  When MySQL has its row, because the day left
\* Redis as cold, its count starts from zero again.
BeginsAnew == IF job.pc \in {"write", "mark"} THEN DOMAIN sql.days \cap (DOMAIN redis'.days \ DOMAIN redis.days)
              ELSE {}

Work == /\ \/ TakeEvent \/ ExpireVisit \/ ProcessEnsure \/ ProcessFails \/ VisitReserve \/ VisitWrite
           \/ SwapGaps \/ (\E d \in Days : MarkEnsure(d)) \/ MarkReserve \/ MarkWrite
           \/ Scan \/ PersistEnsure \/ ReadSnapshot \/ Commit \/ Acknowledge \/ Cleanup
        /\ anew' = anew \cup BeginsAnew

(***************************************************************************)
(* The world: time, other projects, Redis and the process.                 *)
(***************************************************************************)
Midnight == /\ today < MaxDay /\ today' = today + 1
            /\ UNCHANGED <<closed, memory, redis, image, sql, faults, offered, seen, covered, mishaps, anew>>

\* Visits of other projects fill the queue, and their gaps a table, which may even overflow.
Crowd ==
  /\ Fault("crowd") /\ crowd' \in {crowd \cup t : t \in SUBSET Shared}
  /\ overflow' \in {overflow, overflow \/ crowd' \cap {"gaps", "pending"} # {}}
  /\ UNCHANGED <<today, closed, queue, gaps, pending, ready, known, job, redis, image, sql, offered,
                 seen, covered, mishaps, anew>>

\* Redis evicts a key, or starts empty.
LoseKeys ==
  /\ Fault("loss") /\ mishaps' = mishaps \cup {"loss"}
  /\ redis' \in ({NoRedis,
                  [NoRedis EXCEPT !.hll = redis.hll, !.dirty = redis.dirty, !.listed = redis.listed],
                  [redis EXCEPT !.dirty = FALSE, !.listed = FALSE]}
                 \cup {[redis EXCEPT !.hll = Restrict(@, DOMAIN @ \ {k})] : k \in DOMAIN redis.hll})
                \ {redis}
  /\ UNCHANGED <<today, closed, memory, image, sql, offered, seen, covered, anew>>

SaveImage == /\ "rewind" \in Mishaps /\ image = NoRedis /\ redis.kind = "whole" /\ image' = redis
             /\ UNCHANGED <<today, closed, memory, redis, sql, faults, offered, seen, covered, mishaps, anew>>

\* Redis restarts with an older image.
Rewind == /\ Fault("rewind") /\ redis # image /\ image # NoRedis
          /\ redis' = image /\ mishaps' = mishaps \cup {"rewind"}
          /\ UNCHANGED <<today, closed, memory, image, sql, offered, seen, covered, anew>>

\* The process dies and starts again.  Something was lost if anything was only in memory.
Crash == /\ Fault("crash")
         /\ mishaps' = mishaps \cup IF queue # <<>> \/ gaps \cup pending \cup job.held # {} \/ overflow
                                       \/ job.visit # NoVisit
                                    THEN {"crash"} ELSE {}
         /\ queue' = <<>> /\ gaps' = {} /\ pending' = {} /\ overflow' = FALSE /\ crowd' = {}
         /\ ready' = FALSE /\ known' = FALSE /\ job' = Idle /\ closed' = FALSE
         /\ UNCHANGED <<today, redis, image, sql, offered, seen, covered, anew>>

StatsNext == \/ \E v \in Visitors : Record(v)
        \/ Close \/ Work \/ BeginFlush
        \/ Midnight \/ Crowd \/ LoseKeys \/ SaveImage \/ Rewind \/ Crash

StatsSpec == StatsInit /\ [][StatsNext]_statsVars

\* The worker's goroutine runs and its ticker fires again and again; nothing makes visitors come,
\* time pass or a fault happen.
FairStatsSpec == StatsSpec /\ WF_statsVars(Work) /\ WF_statsVars(BeginFlush)

(***************************************************************************)
(* What Stats reports: the committed rows, and the gaps the process knows. *)
(***************************************************************************)
ReportedGaps == gaps \cup pending

Quality == IF ReportedGaps # {} THEN "degraded" ELSE sql.quality

DayStats(d) ==
  LET row == IF d \in DOMAIN sql.days THEN [pv |-> sql.days[d].pv, quality |-> sql.days[d].quality]
             ELSE [pv |-> 0, quality |-> IF d < sql.started THEN "not_started" ELSE "ok"]
  IN  IF d \in ReportedGaps THEN [row EXCEPT !.quality = "degraded"] ELSE row

(***************************************************************************)
(* Properties.                                                             *)
(***************************************************************************)
Field == [pv : Nat, seq : Nat, quality : {"ok", "degraded"}]

StatsTypes ==
  /\ today \in Days /\ closed \in BOOLEAN /\ overflow \in BOOLEAN
  /\ ready \in BOOLEAN /\ known \in BOOLEAN
  /\ Len(queue) <= QueueSize /\ \A i \in DOMAIN queue : queue[i].day \in Days
  /\ gaps \subseteq Days /\ pending \subseteq Days
  /\ Cardinality(gaps) <= QueueSize /\ Cardinality(pending) <= QueueSize
  /\ crowd \subseteq Shared
  /\ DOMAIN redis.days \subseteq Days /\ \A d \in DOMAIN redis.days : redis.days[d] \in Field
  /\ DOMAIN redis.hll \subseteq Days \cup {All}
  /\ DOMAIN sql.days \subseteq Days
  /\ redis.kind = "whole" => redis.ack <= redis.seq

\* PersistWebProjectStats compares sequence numbers and counts under the row lock because the
\* snapshot was read earlier and Redis may since have gone back in time: no committed total or
\* daily count ever goes down, whatever Redis loses or brings back.
NeverDecreases ==
  [][/\ sql'.seq >= sql.seq /\ sql'.pv >= sql.pv /\ Cardinality(sql'.uv) >= Cardinality(sql.uv)
     /\ \A d \in DOMAIN sql.days \cap DOMAIN sql'.days :
          /\ sql'.days[d].pv >= sql.days[d].pv
          /\ Cardinality(sql'.days[d].uv) >= Cardinality(sql.days[d].uv)]_sql

\* process never replays a visit whose outcome is unknown and a snapshot is absolute: unless the
\* client library sent a transaction twice, no more visits are reported than were offered, through
\* lost answers, restores, restarts and repeated snapshots.
NoInflation == "retry" \notin mishaps => sql.pv <= offered

\* A total that Stats reports as "ok" is exact: it counts every visit settled since tracking began
\* and before its snapshot was read.  A visit that was dropped, expired, failed or was lost with
\* keys of Redis, or of Redis misread, always leaves a mark.  Not covered: what a crash takes from
\* memory, a repeated transaction, an older Redis image, gaps Flush is just moving to Redis, an
\* overflow it has yet to move, and one of a project it did not know, which it forgets.
HonestTotals ==
  (/\ mishaps \cap {"crash", "retry", "rewind", "forgotten"} = {}
   /\ job.held = {} /\ ~overflow /\ sql.seq > 0 /\ Quality = "ok")
     => sql.pv = MapThenSumSet(LAMBDA d : covered[d], Days)

\* The same for each day of the window while Redis keeps its keys, ensure never misreads them (the
\* days before the last snapshot would stay "ok" without their later visits), the tables have room
\* for each gap of the project, and no day that left Redis as cold is begun there anew (its count
\* then is below the committed one, which Redis is restored to): a day reported "ok" shows every
\* visit of that day.
HonestDays ==
  (mishaps = {} /\ anew = {} /\ job.held = {} /\ sql.seq > 0) =>
     \A d \in Days : (d \in lower..today /\ DayStats(d).quality = "ok") => DayStats(d).pv = covered[d]

\* The daily rows never add up to more than the permanent total, as both come from one snapshot
\* and a restore replaces both.
DaysWithinTotal == "rewind" \notin mishaps => MapThenSumSet(LAMBDA d : sql.days[d].pv, DOMAIN sql.days) <= sql.pv

\* No count is made up, in the totals, in the days or in the queue and tables of the service.
CountsSound == StatsTypes /\ NoInflation /\ DaysWithinTotal

\* What is reported as "ok" is complete, in total and by day.
HonestReports == HonestTotals /\ HonestDays

\* Once faults end, every known gap and every count in Redis reaches MySQL and is acknowledged,
\* unless an older image was loaded: its sequence numbers may equal those already acknowledged.
\* While other projects' marks leave no room for its own, a project is marked by every flush.
\* (A gap whose mark Redis lost before the project had a row stays pending until it gets one.)
Done == /\ queue = <<>> /\ gaps = {} /\ ~overflow /\ job.held = {} /\ (pending = {} \/ sql.seq = 0)
        /\ redis.seq = redis.ack /\ sql.pv >= redis.pv
Converges == <>[](Done \/ closed \/ "pending" \in crowd \/ "rewind" \in mishaps)
=============================================================================
