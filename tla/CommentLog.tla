----------------------------- MODULE CommentLog -----------------------------
(***************************************************************************)
(* What the discussions of a web project promise: each is an append-only   *)
(* log, a request is in it at most once, whoever closes, deletes, reopens  *)
(* or moves a discussion had seen all of it, and the summary shown to      *)
(* readers is the summary of the log.                                      *)
(***************************************************************************)
EXTENDS Integers, Sequences, FiniteSets, FiniteSetsExt

CONSTANTS Threads, Owner

VARIABLES log, summary

\* The kinds of events that change a discussion's status, and to what.
StatusOf == [comment |-> "open", resolve |-> "resolved", reopen |-> "open", delete |-> "deleted"]

Status(l) ==
  LET S == {i \in DOMAIN l : l[i].kind \in DOMAIN StatusOf}
  IN IF S = {} THEN "none" ELSE StatusOf[l[Max(S)].kind]

Summary(l) == [status |-> Status(l), revision |-> Len(l)]

Init == log = [t \in Threads |-> <<>>] /\ summary = [t \in Threads |-> Summary(<<>>)]

Logged == UNION {{<<log[t][i].actor, log[t][i].request>> : i \in DOMAIN log[t]} : t \in Threads}

Guarded == {"resolve", "reopen", "delete", "reanchor"}

Add(t, e) ==
  LET l == log[t]
  IN /\ <<e.actor, e.request>> \notin Logged
     /\ (e.kind = "comment") = (l = <<>>)
     /\ e.kind \in Guarded => e.seen = Len(l) /\ e.actor \in {Owner, l[1].actor}
     /\ Status(l) = "deleted" => e.kind = "reopen"
     /\ e.kind = "resolve" => Status(l) = "open"
     /\ e.kind = "reopen" => Status(l) # "open"
     /\ log' = [log EXCEPT ![t] = Append(l, e)]
     /\ summary' = [summary EXCEPT ![t] = Summary(Append(l, e))]

\* Whatever is at the new end of a log was added to it.
Next == \E t \in Threads : Len(log'[t]) > Len(log[t]) /\ Add(t, log'[t][Len(log'[t])])

Spec == Init /\ [][Next]_<<log, summary>>
=============================================================================
