---------------------------- MODULE MCWebComments ----------------------------
(* One project, its owner and one reader, for TLC. *)
EXTENDS WebComments, TLC

Alike == Permutations(Clients) \cup Permutations(Unlocks) \cup Permutations(Requests)
         \cup Permutations(Passwords)

\* Bounds.  The password is set, guessed and changed after the first release and before anybody
\* comments.  Then guessing is over and time stands still, but the password may still be changed,
\* releases come and go, and at most one thing is wrong with the project.
Guessing == (\E c \in Clients : tries[c] # NoTries) \/ (\E r \in Unlocks : unlock[r] # Idle)

Normal == [state |-> state = "enabled", mode |-> enhanced, readers |-> readers # {}]
Usual == \A b \in DOMAIN Normal : Normal[b]

Focus ==
  \/ Usual /\ ever \subseteq {1} /\ (\A k \in Calls : call[k] = NoCall)
     /\ \A t \in Threads : events[t] = <<>>
  \/ /\ ~Guessing /\ time = 0 /\ record.version <= 2 /\ secret = 1
     /\ Cardinality({b \in DOMAIN Normal : ~Normal[b]}) <= 1
=============================================================================
