---------------------------- MODULE MCCursorLists ----------------------------
(* A short list and short pages, for TLC. *)
EXTENDS CursorLists

\* Bounds.  A list has at most one kind of trouble: passwords, texts and access matter to the
\* library alone, and are left alone while another list is walked; times matter to sessions alone.
Plain == \A i \in Ids : row[i] = [NoRow EXCEPT !.status = row[i].status, !.time = row[i].time]

Focus ==
  /\ walk = NoWalk \/ walk.list = ListManuals \/ Plain
  /\ walk = NoWalk \/ walk.list.order = "time" \/ \A i \in Ids : row[i].time = 0
=============================================================================
