----------------------------- MODULE MCAnalytics -----------------------------
(* One project's statistics over three days, for TLC. *)
EXTENDS Analytics

\* Bounds.  Close is tried on the first day, other projects before the last.  A second fault is one
\* with other projects in the queue, where neither Redis nor the service lost anything; no pending
\* gaps of theirs, which make Flush mark for ever.  An image is only for a restart of Redis with it.
\* The last day only sees visits that came before it: it is there for what midnight does to visits,
\* snapshots and retention.
Focus == /\ closed => today = 1
         /\ crowd # {} => today < MaxDay
         /\ faults = 2 => "queue" \in crowd /\ "pending" \notin crowd /\ mishaps \subseteq {"spill", "forgotten"}
         /\ "pending" \in crowd => redis.seq <= 4
         /\ image # NoRedis => today < MaxDay /\ (faults = 0 \/ "rewind" \in mishaps)
         /\ today = MaxDay => offered = MaxVisits
=============================================================================
