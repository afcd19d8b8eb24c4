----------------------------- MODULE MCFileShare -----------------------------
(* One user's files and one share of each kind that matters, for TLC. *)
EXTENDS FileShare, TLC

CONSTANTS owner, reader

InputsDef ==
  {[access |-> "members", members |-> {reader}, secret |-> "password", life |-> 2, max |-> 1],
   [access |-> "public", members |-> {}, secret |-> "code", life |-> 0, max |-> 0]}

CONSTANT f2

Alike == Permutations(Clients) \cup Permutations(Requests)

\* Bounds.  Two uploads run side by side while there is no share, a single finished one of the owner
\* once there is one.  Then somebody is active and nothing left behind, and the search does not go past
\* a second restart or counted download, a second unlocked client, or a second one with wrong tries.
Focus ==
  \A s \in Shares :
    \/ share[s] = NoShare
    \/ /\ up[f2].pc = "idle" /\ up[share[s].file].owner = owner /\ up[share[s].file].pc = "done"
       /\ share[s].count + crashes <= 1 /\ strays \cup debris = {} /\ active # {}
       /\ Cardinality({sc \in DOMAIN jar : jar[sc] # NoCookie}) <= 1
       /\ Cardinality({sc \in DOMAIN tries : tries[sc] # NoTries}) <= 1
=============================================================================
