---------------------------- MODULE MCRegistration ----------------------------
(* Two administrators, two newcomers, for TLC. *)
EXTENDS Registration, TLC

CONSTANT Lead     \* the administrator of the third case

\* Bounds: three cases that share their first states.  Both administrators publish while the
\* process refreshes and restarts; both change accounts; or one closes and opens registration and
\* bans the inviter while people register.
Kinds == {call[a].what.kind : a \in {b \in Users : call[b].pc = "verified"}}
Imports == \A u \in Users : account[u].revision = IF u \in Admins THEN 1 ELSE 0
NoInvitations == invitation = <<>> /\ now = 0

Republishing(w) ==
  \/ w.kind = "publish" /\ w.namespace = "registration" /\ w.request = generation
     /\ w.expected = Revision("registration")
  \/ w.kind = "change" /\ w.target \in Admins \ {Lead} /\ w.action \in {"ban", "unban", "delete"}
  \/ w.kind = "revoke"

\* What happens to an invitation, of which one run has one kind.
Events == [time |-> now > 0, expiry |-> \E i \in DOMAIN invitation : invitation[i].expired,
           publication |-> generation > 1, ban |-> \E u \in Users : account[u].revision > 1]

Managed(w) ==
  \/ w.kind = "publish" /\ w.namespace = "registration" /\ w.value = "closed"
  \/ w.kind = "change" /\ w.action # "promote"

Focus ==
  /\ history["registration"][1].value = "open" /\ history["web_projects"][1].value = "large"
  /\ Len(invitation) <= 1
  /\ \/ /\ NoInvitations /\ Imports /\ Kinds \subseteq {"publish"}
        /\ faults + restarts <= 1
     \/ /\ NoInvitations /\ generation = 1 /\ faults = 0 /\ restarts = 0 /\ refresh = NoRefresh
        /\ \A u \in Users : account[u].revision <= 2 /\ (u \in Admins \/ account[u] = Absent)
        /\ \A u \in Users : call[u].pc = "verified" => Managed(call[u].what)
     \/ /\ faults = 0 /\ restarts = 0 /\ refresh.by # Ticker /\ Len(history["web_projects"]) = 1
        /\ \A u \in Users \ {Lead} : call[u] = NoCall /\ account[u].hash = 0 /\ ~account[u].must
        /\ account[Lead].revision = 1
        /\ call[Lead].pc = "verified" => Republishing(call[Lead].what)
        /\ Cardinality({b \in DOMAIN Events : Events[b]}) <= 1
=============================================================================
