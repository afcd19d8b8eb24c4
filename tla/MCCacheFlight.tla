--------------------------- MODULE MCCacheFlight ---------------------------
(* Small instances of CacheFlight for TLC. *)
EXTENDS CacheFlight, TLC

CONSTANTS c1, c2, r1, r2, k1, k2

\* Callers and runs are interchangeable; of the keys only k1 is written.
Symmetry == Permutations(Callers) \cup Permutations(Runs)

-----------------------------------------------------------------------------
(* Bounds: one kind of trouble at a time. *)

\* k2 has left no trace.
OneKey ==
  /\ store[k2] = Unset
  /\ \A c \in Callers : k2 \notin asked[c] /\ got[c][k2] = Unset /\ answer[c][k2] = Open
  /\ \A r \in Runs : loaded[r].vals[k2] = Unset /\ final[r].vals[k2] = Unset

\* The deletion of k1's row has left no trace.
Unwritten ==
  /\ source[k1] = 1 /\ evict = {} /\ store[k1] # Absent
  /\ \A c \in Callers : got[c][k1] # Absent /\ answer[c][k1].val # Absent
  /\ \A r \in Runs : loaded[r].vals[k1] # Absent /\ final[r].vals[k1] # Absent

NobodyLeaves == \A c \in Callers : ~ctxDone[c]

OneRun == \E r \in Runs : Free(r) /\ loaded[r] = Nothing /\ final[r] = Nothing

Focus ==
  \/ OneKey /\ Unwritten                     \* callers leave
  \/ OneKey /\ NobodyLeaves                  \* rows are written
  \/ OneRun /\ Unwritten /\ NobodyLeaves     \* batches overlap
=============================================================================
