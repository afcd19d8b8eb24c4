----------------------------- MODULE Registration -----------------------------
(***************************************************************************)
(* Registration by invitation, on top of the site's configuration.         *)
(*                                                                         *)
(* A user gives a bounded number of invitations a month.  Whoever holds    *)
(* the code previews it without locks, hashes a password, and registers in *)
(* a transaction that locks the runtime state, the registration switch,    *)
(* the inviter and the invitation and checks all of them again.  Meanwhile *)
(* administrators close and open registration, and ban the inviter, which  *)
(* revokes what he gave.                                                   *)
(*                                                                         *)
(* Time is counted in months, for the quota; an invitation expires at some *)
(* time of its own.  Codes are the invitations' ids, and anyone may hold   *)
(* one.                                                                    *)
(***************************************************************************)
EXTENDS SiteConfig

CONSTANTS Visitors, Requests, MonthlyLimit,
          MaxInvitations, MaxTime     \* bounds of the model

ASSUME RegistrationAssumption ==
  {MonthlyLimit, MaxInvitations, MaxTime} \subseteq Nat

VARIABLES
  now,         \* months since the import
  invitation,  \* user_invitation, in order of id; users, given, taken, bans and bansThen are
               \* history: who used it, at which revisions and after how many bans of the inviter
  visit        \* registration forms: the invitation each has previewed, or 0

invVars == <<now, invitation, visit>>
vars == <<siteVars, invVars>>

Init == SiteInit /\ now = 0 /\ invitation = <<>> /\ visit = [v \in Visitors |-> 0]

\* RequireUserTx, for a session of the account's current version.
RequireUserTx(u) == account[u].status = "active" /\ ~account[u].must

\* A slot is spent whatever became of its invitation.
Occupied(u) ==
  {invitation[i].slot : i \in {j \in DOMAIN invitation :
     invitation[j].inviter = u /\ invitation[j].month = now}}

\* A request id that is known answers with its invitation and changes nothing.
Known(u, request) ==
  \E i \in DOMAIN invitation : invitation[i].inviter = u /\ invitation[i].request = request

CreateInvitation(u, request) ==
  /\ Len(invitation) < MaxInvitations
  /\ RequireUserTx(u) /\ ~Known(u, request) /\ EnabledTx /\ now >= account[u].eligible
  /\ \E slot \in (1..MonthlyLimit) \ Occupied(u) :
       /\ \A s \in 1..(slot - 1) : s \in Occupied(u)
       /\ invitation' = Append(invitation,
            [inviter |-> u, request |-> request, month |-> now, slot |-> slot, epoch |-> epoch,
             status |-> "unused", expired |-> FALSE, users |-> {}, bans |-> account[u].bans,
             given |-> Revision("registration"), taken |-> 0, bansThen |-> 0])
  /\ UNCHANGED <<siteVars, now, visit>>

\* The state of an invitation that both checks look at.
Redeemable(i) ==
  /\ EnabledTx
  /\ invitation[i].status = "unused" /\ invitation[i].epoch = epoch /\ ~invitation[i].expired
  /\ account[invitation[i].inviter].status = "active"

\* ValidateInvitation, for a form that is then filled in.
ValidateInvitation(v, i) ==
  /\ visit[v] = 0 /\ Redeemable(i)
  /\ visit' = [visit EXCEPT ![v] = i]
  /\ UNCHANGED <<siteVars, now, invitation>>

Joined(u, must) ==
  [Absent EXCEPT !.status = "active", !.must = must, !.version = 1, !.revision = 1,
                 !.eligible = now + 1]

RecheckedEpochless(i) ==
  /\ EnabledTx /\ invitation[i].status = "unused" /\ ~invitation[i].expired
  /\ account[invitation[i].inviter].status = "active"

\* The same conditions, under the locks.
Rechecked(i) == Redeemable(i)

\* The invitation's row, once an account is made of it.
Redeemed(x, u) ==
  [x EXCEPT !.status = "used", !.users = @ \cup {u}, !.taken = Revision("registration"),
            !.bansThen = account[x.inviter].bans]

\* Register: a name that exists fails on its unique key.
Register(v, u) ==
  LET i == visit[v] IN
  /\ i > 0 /\ Rechecked(i) /\ account[u].status = "absent"
  /\ account' = [account EXCEPT ![u] = Joined(u, FALSE)]
  /\ invitation' = [invitation EXCEPT ![i] = Redeemed(@, u)]
  /\ visit' = [visit EXCEPT ![v] = 0]
  /\ UNCHANGED <<storeVars, processVars, call, faults, now>>

\* A registration that is refused, or given up.
GiveUp(v) ==
  /\ visit[v] > 0
  /\ visit' = [visit EXCEPT ![v] = 0]
  /\ UNCHANGED <<siteVars, now, invitation>>

Revoked(i) == [invitation EXCEPT ![i].status = "revoked"]

RevokeInvitation(u, i) ==
  /\ RequireUserTx(u) /\ invitation[i].inviter = u /\ invitation[i].status = "unused"
  /\ invitation' = Revoked(i)
  /\ UNCHANGED <<siteVars, now, visit>>

BeginRevoke(a, i) ==
  /\ invitation[i].status = "unused"
  /\ VerifyAdminPassword(a, [kind |-> "revoke", invitation |-> i,
                             revision |-> account[invitation[i].inviter].revision])
  /\ UNCHANGED <<account, storeVars, processVars, faults, invVars>>

AdminRevokeInvitation(a) ==
  LET w == call[a].what IN
  /\ call[a].pc = "verified" /\ w.kind = "revoke" /\ Authorize(a)
  /\ account[invitation[w.invitation].inviter].revision = w.revision
  /\ invitation[w.invitation].status = "unused"
  /\ invitation' = Revoked(w.invitation)
  /\ call' = [call EXCEPT ![a] = NoCall]
  /\ UNCHANGED <<account, storeVars, processVars, faults, now, visit>>

\* A ban or a deletion revokes what the account has given and nobody has used.
LeftInvitations(u, action) ==
  IF action \notin {"ban", "delete"} THEN invitation
  ELSE [i \in DOMAIN invitation |->
          IF invitation[i].inviter = u /\ invitation[i].status = "unused"
          THEN [invitation[i] EXCEPT !.status = "revoked"] ELSE invitation[i]]

ChangeUser(a) ==
  /\ AdminChange(a)
  /\ invitation' = LeftInvitations(call[a].what.target, call[a].what.action)
  /\ UNCHANGED <<now, visit>>

\* AdminCreate asks for no password.
AdminCreate(a, u) ==
  /\ Usable(a) /\ account[u].status = "absent"
  /\ account' = [account EXCEPT ![u] = Joined(u, TRUE)]
  /\ UNCHANGED <<storeVars, processVars, call, faults, invVars>>

\* The process takes the forms down with it; the clock does not.
RestartAll(room) ==
  /\ Restart(room)
  /\ visit' = [v \in Visitors |-> 0]
  /\ UNCHANGED <<now, invitation>>

Tick ==
  /\ now < MaxTime /\ now' = now + 1
  /\ UNCHANGED <<siteVars, invitation, visit>>

Expire(i) ==
  /\ ~invitation[i].expired
  /\ invitation' = [invitation EXCEPT ![i].expired = TRUE]
  /\ UNCHANGED <<siteVars, now, visit>>

-----------------------------------------------------------------------------
\* Requests name the current revision or the one before, and ids new or used.
Configure(a) ==
  \E ns \in Namespaces : \E expected \in {Revision(ns), Revision(ns) - 1} \ {0} :
    \E request \in 1..generation :
      \/ \E v \in Registry[ns] : BeginPublish(a, ns, v, 0, expected, request)
      \/ \E from \in 1..Revision(ns) : BeginPublish(a, ns, "old", from, expected, request)

Publishing(a) ==
  /\ Configure(a) \/ Refuse(a) \/ Replay(a) \/ Save(a) \/ Answer(a) \/ Forget(a)
  /\ UNCHANGED invVars

Managing(a) ==
  \/ \E u \in Users, action \in ChangeActions :
       BeginChange(a, u, action, account[u].revision) /\ UNCHANGED invVars
  \/ ChangeUser(a)
  \/ \E i \in DOMAIN invitation : BeginRevoke(a, i)
  \/ AdminRevokeInvitation(a)
  \/ \E u \in Users : AdminCreate(a, u)

Refreshing ==
  /\ (\E by \in Refreshers : RefreshState(by)) \/ RefreshStore \/ RefreshFail
  /\ UNCHANGED invVars

Inviting(u) ==
  \/ \E request \in Requests : CreateInvitation(u, request)
  \/ \E i \in DOMAIN invitation : RevokeInvitation(u, i)
  \/ ChangePassword(u) /\ UNCHANGED invVars

Joining(v) ==
  \/ \E i \in DOMAIN invitation : ValidateInvitation(v, i)
  \/ \E u \in Users : Register(v, u)
  \/ GiveUp(v)

Next ==
  \/ \E a \in Users : Publishing(a) \/ Managing(a) \/ Inviting(a)
  \/ \E v \in Visitors : Joining(v)
  \/ Refreshing
  \/ \E room \in BOOLEAN : RestartAll(room)
  \/ Tick
  \/ \E i \in DOMAIN invitation : Expire(i)

Spec == Init /\ [][Next]_vars

\* The ticker comes round every five seconds, and a refresh has a deadline of four.
FairSpec ==
  /\ Spec
  /\ WF_vars(RefreshState(Ticker) /\ UNCHANGED invVars)
  /\ WF_vars(RefreshStore /\ UNCHANGED invVars)
  /\ \A a \in Users : WF_vars(RefreshState(a) /\ UNCHANGED invVars)
-----------------------------------------------------------------------------
TypeOK ==
  /\ \A u \in Users : account[u].status \in {"absent", "active", "banned", "deleted"}
                      /\ account[u].revision \in 0..MaxRevision
                      /\ (account[u].status # "absent" => account[u].version > account[u].hash)
  /\ generation \in 1..MaxGeneration /\ epoch \in 1..generation
  /\ generation = Len(versions)
  /\ \A ns \in Namespaces : \A r \in DOMAIN history[ns] : history[ns][r].value \in Registry[ns]
  /\ \A i \in DOMAIN invitation : invitation[i].status \in {"unused", "used", "revoked"}

\* Administrators who change each other's accounts at the same time never leave the site without
\* one who can act.
AdminRemains == UsableAdmins # {}

\* What is published is always accepted by the running deployment, also when a rollback brings
\* back a document from before the limits were tightened: a restart can load it.
AlwaysLoadable == \A ns \in Namespaces : ValidateValues(ns, Current(ns).value)

\* The running snapshot is the whole configuration of one generation, however publications fall
\* between the reads of a refresh.
OneGeneration == loaded = versions[loaded.generation]

\* An answer names a revision that holds what its caller asked for, published over the revision
\* he had seen; a repeated or reused request id is never published twice.
AnswersTrue ==
  /\ \A a \in Users : call[a].pc \in {"committed", "refreshing", "refreshed", "answered"} =>
       history[call[a].namespace][call[a].revision] = call[a].row
  /\ \A ns \in Namespaces : \A r \in DOMAIN history[ns] :
       history[ns][r].expected = r - 1 /\ \A s \in 1..(r - 1) :
         history[ns][s].request # history[ns][r].request

\* A publication is in force when it is answered, unless the answer says the snapshot is stale:
\* a refresh that was under way cannot make it "pending".
InForceWhenAnswered == \A a \in Users : call[a].pc = "answered" => call[a].state # "pending"

\* What runs, what is stored and what was answered about the configuration agree, however
\* publications, refreshes, retries and restarts overlap.
ConfigurationSound ==
  TypeOK /\ AlwaysLoadable /\ OneGeneration /\ AnswersTrue /\ InForceWhenAnswered

\* An invitation is only used if registration stayed open since it was given, however often and by
\* whatever means it was closed and opened.
OpenThroughout ==
  \A i \in DOMAIN invitation : invitation[i].status = "used" =>
    \A r \in invitation[i].given..invitation[i].taken : history["registration"][r].value = "open"

\* An invitation is only used if its inviter was never banned since he gave it.
InviterInGoodStanding ==
  \A i \in DOMAIN invitation : invitation[i].status = "used" =>
    invitation[i].bans = invitation[i].bansThen

\* Two forms with the same code create one account.
UsedOnce == \A i \in DOMAIN invitation : Cardinality(invitation[i].users) <= 1

\* Nobody gives more than the monthly limit, also by revoking, and a repeated request gives none.
QuotaKept ==
  \A u \in Users : \A m \in 0..MaxTime :
    Cardinality({i \in DOMAIN invitation : invitation[i].inviter = u /\ invitation[i].month = m})
      <= MonthlyLimit

\* An invitation is within its giver's quota and makes at most one account, with registration open
\* and its giver in good standing from the day it was given.
InvitationsSound == OpenThroughout /\ InviterInGoodStanding /\ UsedOnce /\ QuotaKept

\* Whatever an administrator's call changes, he is one when it does, with the password he proved.
ActsOnlyAsAdmin ==
  [][\A a \in Users :
       (/\ call[a].pc = "verified" /\ call'[a].pc # "verified"
        /\ <<history, account, invitation>>' # <<history, account, invitation>>)
       => /\ account[a].status = "active" /\ account[a].admin /\ ~account[a].must
          /\ account[a].hash = call[a].hash]_vars

\* Every generation is eventually running, or a later one.
Applies == \A g \in 1..MaxGeneration : generation = g ~> loaded.generation >= g
=============================================================================
