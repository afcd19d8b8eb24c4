-------------------------- MODULE RegistrationProof --------------------------
(***************************************************************************)
(* Proofs about SiteConfig and Registration for any number of users,       *)
(* registration forms, invitations, publications and restarts.             *)
(***************************************************************************)
EXTENDS Registration, FiniteSetTheorems, SequenceTheorems, TLAPS

LEMMA Bounds ==
  /\ MaxRevision \in Nat /\ MaxRevision > 0 /\ MaxGeneration \in Nat /\ MaxGeneration > 0
  /\ MonthlyLimit \in Nat /\ MaxTime \in Nat /\ MaxInvitations \in Nat
  BY SiteAssumption, RegistrationAssumption

-----------------------------------------------------------------------------
(* Accounts *)

IsAccount(x) ==
  /\ DOMAIN x = {"status", "admin", "must", "version", "hash", "revision", "eligible", "bans"}
  /\ x.status \in {"absent", "active", "banned", "deleted"}
  /\ x.admin \in BOOLEAN /\ x.must \in BOOLEAN
  /\ x.version \in Nat /\ x.hash \in Nat /\ x.revision \in 0..MaxRevision
  /\ x.eligible \in Nat /\ x.bans \in Nat

\* An account that exists has had its version moved whenever its password was.
AccountInv ==
  /\ account = [u \in Users |-> account[u]]
  /\ \A u \in Users :
       /\ IsAccount(account[u])
       /\ account[u].status # "absent" => account[u].version > account[u].hash
  /\ now \in 0..MaxTime

\* The account adminTransition makes is well formed, and only a ban counts as one.
LEMMA ChangedAccount ==
  ASSUME NEW old, IsAccount(old), NEW action, old.revision < MaxRevision
  PROVE  /\ IsAccount(Changed(old, action))
         /\ old.version > old.hash => Changed(old, action).version > Changed(old, action).hash
         /\ Changed(old, action).status = "absent" => old.status = "absent"
         /\ action \notin {"ban", "delete"} => Changed(old, action).bans = old.bans
<1> DEFINE new == Changed(old, action)
<1>1. DOMAIN new = DOMAIN old
  BY DEF IsAccount, Changed
<1>2. new.status \in {"absent", "active", "banned", "deleted"}
  BY DEF IsAccount, Changed
<1>3. new.admin \in BOOLEAN
  BY DEF IsAccount, Changed
<1>4. new.must \in BOOLEAN
  BY DEF IsAccount, Changed
<1>5. /\ new.version \in Nat /\ new.hash \in Nat /\ new.revision \in 0..MaxRevision
      /\ new.eligible \in Nat /\ new.bans \in Nat
  BY Bounds DEF IsAccount, Changed
<1>6. IsAccount(new)
  BY <1>1, <1>2, <1>3, <1>4, <1>5 DEF IsAccount
<1>7. /\ old.version > old.hash => new.version > new.hash
      /\ new.status = "absent" => old.status = "absent"
      /\ action \notin {"ban", "delete"} => new.bans = old.bans
  BY DEF IsAccount, Changed
<1> QED
  BY <1>6, <1>7

\* An administrator may do to himself only what leaves him one.
LEMMA SelfChange ==
  ASSUME NEW a \in Users, IsAccount(account[a]), Usable(a), NEW action, MayChange(a, a, action)
  PROVE  LET new == Changed(account[a], action)
         IN  new.status = "active" /\ new.admin /\ ~new.must
  BY DEF IsAccount, Changed, MayChange, ByAnother, Usable

\* A new account is well formed.
LEMMA NewAccounts ==
  ASSUME now \in Nat, NEW u
  PROVE  /\ \A must \in BOOLEAN :
              IsAccount(Joined(u, must)) /\ Joined(u, must).version > Joined(u, must).hash
         /\ IsAccount(Imported(u)) /\ Imported(u).version > Imported(u).hash
         /\ IsAccount(Absent)
  BY Bounds DEF IsAccount, Joined, Imported, Absent

\* The ways in which a step changes accounts.
CreatesAccount ==
  \E u \in Users, must \in BOOLEAN :
    account[u].status = "absent" /\ account' = [account EXCEPT ![u] = Joined(u, must)]

LEMMA AccountMoves ==
  ASSUME [Next]_vars, now \in 0..MaxTime
  PROVE  /\ \/ UNCHANGED account
            \/ \E a \in Users : ChangeUser(a)
            \/ \E u \in Users : ChangePassword(u)
            \/ CreatesAccount
         /\ now' \in 0..MaxTime
<1> USE Bounds
<1>1. ASSUME NEW a \in Users, Publishing(a) PROVE UNCHANGED <<account, now>>
  BY <1>1 DEF Publishing, Configure, BeginPublish, Refuse, Replay, Save, Answer, Forget, invVars
<1>2. ASSUME NEW a \in Users, Managing(a), ~ChangeUser(a)
      PROVE  (UNCHANGED account \/ CreatesAccount) /\ UNCHANGED now
  BY <1>2 DEF Managing, BeginChange, BeginRevoke, AdminRevokeInvitation, AdminCreate, invVars,
              CreatesAccount
<1>3. ASSUME NEW a \in Users, Inviting(a)
      PROVE  (UNCHANGED account \/ ChangePassword(a)) /\ UNCHANGED now
  BY <1>3 DEF Inviting, CreateInvitation, RevokeInvitation, invVars, siteVars
<1>4. ASSUME NEW v \in Visitors, Joining(v)
      PROVE  (UNCHANGED account \/ CreatesAccount) /\ UNCHANGED now
  BY <1>4 DEF Joining, ValidateInvitation, Register, GiveUp, siteVars, CreatesAccount
<1>5. ASSUME Refreshing PROVE UNCHANGED <<account, now>>
  BY <1>5 DEF Refreshing, RefreshState, RefreshStore, RefreshFail, invVars
<1>6. ASSUME NEW room \in BOOLEAN, RestartAll(room) PROVE UNCHANGED <<account, now>>
  BY <1>6 DEF RestartAll, Restart
<1>7. ASSUME Tick PROVE UNCHANGED account /\ now' \in 0..MaxTime
  BY <1>7 DEF Tick, siteVars
<1>8. ASSUME NEW i \in DOMAIN invitation, Expire(i) PROVE UNCHANGED <<account, now>>
  BY <1>8 DEF Expire, siteVars
<1>9. ASSUME UNCHANGED vars PROVE UNCHANGED <<account, now>>
  BY <1>9 DEF vars, siteVars, invVars
<1>10. ASSUME NEW a \in Users, ChangeUser(a) PROVE UNCHANGED now
  BY <1>10 DEF ChangeUser
<1> QED
  BY <1>1, <1>2, <1>3, <1>4, <1>5, <1>6, <1>7, <1>8, <1>9, <1>10 DEF Next

\* The accounts stay well formed.
LEMMA AccountStep == AccountInv /\ [Next]_vars => AccountInv'
<1> SUFFICES ASSUME AccountInv, [Next]_vars PROVE AccountInv'
  OBVIOUS
<1> USE Bounds
<1>0. now \in 0..MaxTime /\ now' \in 0..MaxTime
  BY AccountMoves DEF AccountInv
<1>1. CASE UNCHANGED account
  BY <1>0, <1>1 DEF AccountInv
<1>2. ASSUME NEW a \in Users, ChangeUser(a) PROVE AccountInv'
  <2> DEFINE w == call[a].what
  <2>1. /\ account' = [account EXCEPT ![w.target] = Changed(@, w.action)]
        /\ account[w.target].revision < MaxRevision /\ account[w.target].status # "absent"
    BY <1>2 DEF ChangeUser, AdminChange, MayChange
  <2>2. account' = [u \in Users |-> account'[u]]
    BY <2>1 DEF AccountInv
  <2>3. ASSUME NEW u \in Users
        PROVE  /\ IsAccount(account'[u])
               /\ account'[u].status # "absent" => account'[u].version > account'[u].hash
    <3>1. CASE u = w.target
      <4>1. IsAccount(account[u]) /\ account[u].version > account[u].hash
        BY <3>1, <2>1 DEF AccountInv
      <4>2. account'[u] = Changed(account[u], w.action) /\ account[u].revision < MaxRevision
        BY <3>1, <2>1 DEF AccountInv
      <4> QED
        BY <4>1, <4>2, ChangedAccount
    <3>2. CASE u # w.target
      BY <3>2, <2>1 DEF AccountInv
    <3> QED
      BY <3>1, <3>2
  <2> QED
    BY <1>0, <2>2, <2>3 DEF AccountInv
<1>3. ASSUME NEW u \in Users, ChangePassword(u) PROVE AccountInv'
  <2>1. IsAccount(Repassworded(account[u]))
        /\ Repassworded(account[u]).version > Repassworded(account[u]).hash
    BY <1>3 DEF AccountInv, IsAccount, ChangePassword, Repassworded
  <2>2. ASSUME NEW x \in Users
        PROVE  /\ IsAccount(account'[x])
               /\ account'[x].status # "absent" => account'[x].version > account'[x].hash
    <3>1. CASE x = u
      BY <3>1, <1>3, <2>1 DEF AccountInv, ChangePassword
    <3>2. CASE x # u
      BY <3>2, <1>3 DEF AccountInv, ChangePassword
    <3> QED
      BY <3>1, <3>2
  <2>3. account' = [x \in Users |-> account'[x]]
    BY <1>3 DEF AccountInv, ChangePassword
  <2> QED
    BY <1>0, <2>2, <2>3 DEF AccountInv
<1>4. CASE CreatesAccount
  BY <1>0, <1>4, NewAccounts DEF CreatesAccount, AccountInv
<1> QED
  BY <1>1, <1>2, <1>3, <1>4, AccountMoves DEF AccountInv

\* No step takes the last usable administrator: whoever acts is one, and remains one.
LEMMA AdminStep == AccountInv /\ AdminRemains /\ [Next]_vars => AdminRemains'
<1> SUFFICES ASSUME AccountInv, AdminRemains, [Next]_vars PROVE \E u \in Users : Usable(u)'
  BY DEF AdminRemains, UsableAdmins
<1>1. PICK u \in Users : Usable(u)
  BY DEF AdminRemains, UsableAdmins
<1>2. CASE UNCHANGED account
  BY <1>1, <1>2 DEF Usable
<1>3. ASSUME NEW a \in Users, ChangeUser(a) PROVE Usable(a)'
  <2> DEFINE w == call[a].what
  <2>1. /\ account' = [account EXCEPT ![w.target] = Changed(@, w.action)]
        /\ Usable(a) /\ MayChange(a, w.target, w.action)
    BY <1>3 DEF ChangeUser, AdminChange, Authorize
  <2>2. CASE w.target = a
    BY <2>1, <2>2, SelfChange DEF AccountInv, Usable
  <2>3. CASE w.target # a
    BY <2>1, <2>3 DEF AccountInv, Usable
  <2> QED
    BY <2>2, <2>3
<1>4. ASSUME NEW x \in Users, ChangePassword(x) PROVE Usable(u)'
  BY <1>1, <1>4 DEF ChangePassword, Repassworded, AccountInv, IsAccount, Usable
<1>5. CASE CreatesAccount
  BY <1>1, <1>5 DEF CreatesAccount, AccountInv, Usable
<1> QED
  BY <1>2, <1>3, <1>4, <1>5, AccountMoves DEF AccountInv

LEMMA AccountInit == Init => AccountInv /\ AdminRemains
<1> SUFFICES ASSUME Init PROVE AccountInv /\ AdminRemains
  OBVIOUS
<1>1. AccountInv
  BY NewAccounts, Bounds DEF Init, SiteInit, AccountInv, Absent
<1>2. PICK a \in Admins : a \in Users
  BY SiteAssumption
<1>3. Usable(a)
  BY <1>2 DEF Init, SiteInit, Usable, Imported, Absent
<1> QED
  BY <1>1, <1>2, <1>3 DEF AdminRemains, UsableAdmins

\* Administrators who ban, demote, delete and reset each other at the same time, each with a
\* password verified before the transaction, always leave one who can act (AdminChange).
THEOREM AdminAlwaysRemains == Spec => []AdminRemains
<1>1. AccountInv /\ AdminRemains /\ [Next]_vars => (AccountInv /\ AdminRemains)'
  BY AccountStep, AdminStep
<1> QED
  BY <1>1, AccountInit, PTL DEF Spec

-----------------------------------------------------------------------------
(* The configuration *)

Documents == {"open", "closed", "small", "large"}

HistoryRow ==
  [value : Documents, request : Nat, actor : Users \cup {"import"}, expected : Nat, from : Nat]

Snapshots ==
  [generation : Nat, revision : [Namespaces -> Nat], value : [Namespaces -> Documents]]

\* The stored rows: every revision was published over the one before, under a request of its own.
HistoryInv ==
  /\ history = [ns \in Namespaces |-> history[ns]]
  /\ \A ns \in Namespaces :
       /\ history[ns] \in Seq(HistoryRow) /\ Len(history[ns]) > 0
       /\ \A r \in 1..Len(history[ns]) :
            /\ history[ns][r].value \in Registry[ns]
            /\ history[ns][r].expected = r - 1
            /\ \A s \in 1..(r - 1) : history[ns][s].request # history[ns][r].request
       /\ ValidateValues(ns, Current(ns).value)

\* A refresh that has begun sees one generation.
RuntimeInv ==
  /\ generation \in 1..MaxGeneration /\ epoch \in 1..generation
  /\ versions \in Seq(Snapshots) /\ Len(versions) = generation
  /\ versions[generation] = Snapshot(generation, history)
  /\ loaded.generation \in 1..generation /\ loaded = versions[loaded.generation]
  /\ refresh # NoRefresh =>
       /\ refresh.generation \in 1..generation
       /\ versions[refresh.generation] = Snapshot(refresh.generation, refresh.seen)
       /\ refresh.by # Ticker => refresh.by \in Users /\ call[refresh.by].pc = "refreshing"

Committed == {"committed", "refreshing", "refreshed", "answered"}

\* A publication on its way: it was checked against the deployment that still runs; the revision
\* it answers with holds what was asked; and any refresh that begins after its own sees it.
CallInv(a) ==
  LET c == call[a] IN
  /\ c.pc = "verified" /\ c.what.kind = "publish" =>
       /\ c.what.namespace \in Namespaces
       /\ c.what.request \in Nat /\ c.what.expected \in Nat /\ c.what.from \in Nat
       /\ c.what.from = 0 => ValidateValues(c.what.namespace, c.what.value)
  /\ c.pc \in Committed =>
       /\ c.namespace \in Namespaces /\ c.revision \in 1..Len(history[c.namespace])
       /\ history[c.namespace][c.revision] = c.row
  /\ c.pc \in Committed \ {"answered"} => DOMAIN c = {"pc", "row", "namespace", "revision"}
  /\ c.pc = "refreshing" => refresh # NoRefresh /\ refresh.by = a
  /\ c.pc \in {"refreshing", "refreshed"} /\ refresh # NoRefresh =>
       Len(refresh.seen[c.namespace]) >= c.revision
  /\ c.pc = "refreshed" => lastError \/ loaded.revision[c.namespace] >= c.revision
  /\ c.pc = "answered" => c.state # "pending"

ConfigInv ==
  /\ HistoryInv /\ RuntimeInv /\ lastError \in BOOLEAN /\ roomy \in BOOLEAN
  /\ call = [a \in Users |-> call[a]]
  /\ \A a \in Users : CallInv(a)

LEMMA SnapshotType ==
  ASSUME NEW h, \A ns \in Namespaces : h[ns] \in Seq(HistoryRow) /\ Len(h[ns]) > 0, NEW g \in Nat
  PROVE  Snapshot(g, h) \in Snapshots
<1>1. ASSUME NEW ns \in Namespaces
      PROVE  /\ Len(h[ns]) \in Nat
             /\ h[ns][Len(h[ns])].value \in Documents
  <2>1. h[ns] \in Seq(HistoryRow) /\ Len(h[ns]) \in 1..Len(h[ns])
    OBVIOUS
  <2>2. h[ns][Len(h[ns])] \in HistoryRow
    BY <2>1
  <2> QED
    BY <2>1, <2>2 DEF HistoryRow
<1> QED
  BY <1>1 DEF Snapshot, Snapshots

LEMMA BegunIsNotNone ==
  ASSUME NEW b, NEW g, NEW h
  PROVE  [by |-> b, generation |-> g, seen |-> h] # NoRefresh
<1>1. DOMAIN [by |-> b, generation |-> g, seen |-> h] = {"by", "generation", "seen"}
  OBVIOUS
<1>2. DOMAIN NoRefresh = {"by"}
  BY DEF NoRefresh
<1> QED
  BY <1>1, <1>2

LEMMA ConfigInit == Init => ConfigInv
<1> SUFFICES ASSUME Init PROVE ConfigInv
  OBVIOUS
<1> USE Bounds DEF Init, SiteInit
<1>1. ASSUME NEW ns \in Namespaces
      PROVE  \E v \in Registry[ns] :
               history[ns] = <<[value |-> v, request |-> 0, actor |-> "import",
                                expected |-> 0, from |-> 0]>>
  BY <1>1 DEF Namespaces, Registry
<1>2. ASSUME NEW ns \in Namespaces, NEW v \in Registry[ns]
      PROVE  /\ [value |-> v, request |-> 0, actor |-> "import", expected |-> 0, from |-> 0]
                    \in HistoryRow
             /\ ValidateValues(ns, v)
  BY <1>2 DEF Namespaces, Registry, HistoryRow, Documents, ValidateValues
<1>3. HistoryInv
  <2>1. history = [ns \in Namespaces |-> history[ns]]
    OBVIOUS
  <2>2. ASSUME NEW ns \in Namespaces
        PROVE  /\ history[ns] \in Seq(HistoryRow) /\ Len(history[ns]) = 1
               /\ history[ns][1].value \in Registry[ns] /\ history[ns][1].expected = 0
               /\ ValidateValues(ns, history[ns][1].value)
    <3>1. PICK v \in Registry[ns] :
            history[ns] = <<[value |-> v, request |-> 0, actor |-> "import",
                             expected |-> 0, from |-> 0]>>
      BY <1>1
    <3> DEFINE row == [value |-> v, request |-> 0, actor |-> "import", expected |-> 0, from |-> 0]
    <3>2. row \in HistoryRow /\ ValidateValues(ns, v) /\ row.value = v /\ row.expected = 0
      BY <1>2
    <3>3. history[ns] = <<row>>
      BY <3>1
    <3> HIDE DEF row
    <3> QED
      BY <3>2, <3>3
  <2> QED
    BY <2>1, <2>2 DEF HistoryInv, Current
<1>4. RuntimeInv
  <2>1. loaded = Snapshot(1, history) /\ loaded \in Snapshots /\ loaded.generation = 1
    BY <1>3, SnapshotType DEF HistoryInv, Snapshot
  <2>2. versions = <<loaded>> /\ versions \in Seq(Snapshots) /\ Len(versions) = 1
        /\ versions[1] = loaded
    BY <2>1
  <2> QED
    BY <2>1, <2>2 DEF RuntimeInv
<1>5. \A a \in Users : CallInv(a)
  BY DEF CallInv, NoCall, Committed
<1> QED
  BY <1>3, <1>4, <1>5 DEF ConfigInv

\* A call moves and the stored and the running configuration stay.
LEMMA CallMoves ==
  ASSUME ConfigInv, NEW a \in Users, NEW c, call' = [call EXCEPT ![a] = c],
         UNCHANGED <<storeVars, processVars>>, CallInv(a)',
         call[a].pc # "refreshing"
  PROVE  ConfigInv'
<1>1. HistoryInv'
  BY DEF ConfigInv, HistoryInv, ValidateValues, Current, storeVars, processVars
<1>2. RuntimeInv'
  BY DEF ConfigInv, RuntimeInv, storeVars, processVars
<1>3. ASSUME NEW b \in Users, b # a PROVE CallInv(b)'
  BY <1>3 DEF ConfigInv, CallInv, ValidateValues, storeVars, processVars
<1> QED
  BY <1>1, <1>2, <1>3 DEF ConfigInv, processVars

\* A call that ends, or one that has nothing to do with the configuration.
LEMMA OtherCalls ==
  ASSUME ConfigInv, NEW a \in Users, NEW c, call' = [call EXCEPT ![a] = c],
         UNCHANGED <<storeVars, processVars>>, call[a].pc # "refreshing",
         c.pc \in {"idle", "verified"}, c.pc = "verified" => c.what.kind # "publish"
  PROVE  ConfigInv'
<1>1. CallInv(a)'
  BY DEF ConfigInv, CallInv, Committed
<1> QED
  BY <1>1, CallMoves

LEMMA BeginPublishStep ==
  ASSUME ConfigInv, NEW a \in Users, Configure(a) PROVE ConfigInv'
<1>0. generation \in Nat /\ \A ns \in Namespaces : Revision(ns) \in Nat /\ Revision(ns) > 0
  BY DEF ConfigInv, HistoryInv, RuntimeInv, Revision
<1>a. PICK ns \in Namespaces, expected \in Nat, request \in Nat, from \in Nat :
        \E v : BeginPublish(a, ns, v, from, expected, request)
  <2>1. PICK ns \in Namespaces : \E expected \in {Revision(ns), Revision(ns) - 1} \ {0} :
          \E request \in 1..generation :
            \/ \E v \in Registry[ns] : BeginPublish(a, ns, v, 0, expected, request)
            \/ \E from \in 1..Revision(ns) : BeginPublish(a, ns, "old", from, expected, request)
    BY Zenon DEF Configure
  <2>2. PICK expected \in Nat, request \in Nat :
            \/ \E v \in Registry[ns] : BeginPublish(a, ns, v, 0, expected, request)
            \/ \E from \in 1..Revision(ns) : BeginPublish(a, ns, "old", from, expected, request)
    BY <1>0, <2>1
  <2>3. 1..Revision(ns) \subseteq Nat /\ 0 \in Nat
    BY <1>0
  <2> QED
    BY <2>2, <2>3, Zenon
<1>1. PICK v : BeginPublish(a, ns, v, from, expected, request)
  BY <1>a, Zenon
<1> DEFINE what == [kind |-> "publish", namespace |-> ns, value |-> v, from |-> from,
                    expected |-> expected, request |-> request]
           c == [pc |-> "verified", version |-> account[a].version, hash |-> account[a].hash,
                 what |-> what]
<1>3. /\ call' = [call EXCEPT ![a] = c]
      /\ c.pc = "verified" /\ c.what = what
  BY <1>1 DEF BeginPublish, VerifyAdminPassword
<1>2. /\ what.kind = "publish" /\ what.namespace = ns /\ what.value = v /\ what.from = from
      /\ what.expected = expected /\ what.request = request
  OBVIOUS
<1> HIDE DEF what, c
<1>4. CallInv(a)'
  <2>1. call'[a] = c
    BY <1>3 DEF ConfigInv
  <2>2. from = 0 => ValidateValues(ns, v)'
    BY <1>1 DEF BeginPublish, ValidateValues, processVars
  <2> QED
    BY <1>2, <1>3, <2>1, <2>2 DEF CallInv, Committed
<1>5. call[a].pc # "refreshing" /\ UNCHANGED <<storeVars, processVars>>
  BY <1>1 DEF BeginPublish, VerifyAdminPassword, NoCall
<1> QED
  BY <1>3, <1>4, <1>5, CallMoves

LEMMA ReplayStep ==
  ASSUME ConfigInv, NEW a \in Users, Replay(a) PROVE ConfigInv'
<1> DEFINE w == call[a].what
<1>1. PICK r \in DOMAIN history[w.namespace] :
        /\ Replayed(a, w, r)
        /\ call' = [call EXCEPT ![a] = [pc |-> "committed", row |-> Row(a, w),
                                        namespace |-> w.namespace, revision |-> r]]
  BY DEF Replay
<1>2. w.namespace \in Namespaces /\ r \in 1..Len(history[w.namespace])
  BY <1>1 DEF Replay, Ready, ConfigInv, CallInv, HistoryInv
<1>3. UNCHANGED <<storeVars, processVars>> /\ call[a].pc = "verified"
  BY DEF Replay
<1>4. CallInv(a)'
  BY <1>1, <1>2, <1>3 DEF ConfigInv, CallInv, Committed, Replayed, storeVars
<1> QED
  BY <1>1, <1>3, <1>4, CallMoves

\* What Save adds: a valid document, published over the current revision under a new request id.
LEMMA SavedRow ==
  ASSUME ConfigInv, NEW a \in Users, Save(a)
  PROVE  LET w == call[a].what
             row == Row(a, w)
         IN  /\ w.namespace \in Namespaces /\ row \in HistoryRow
             /\ row.value \in Registry[w.namespace] /\ ValidateValues(w.namespace, row.value)
             /\ row.value = Candidate(w)
             /\ row.expected = Len(history[w.namespace])
             /\ \A r \in 1..Len(history[w.namespace]) :
                  history[w.namespace][r].request # row.request
<1> DEFINE w == call[a].what
           row == Row(a, w)
<1>1. /\ w.namespace \in Namespaces /\ w.request \in Nat /\ w.expected \in Nat /\ w.from \in Nat
      /\ w.from = 0 => ValidateValues(w.namespace, w.value)
  BY DEF Save, Ready, ConfigInv, CallInv
<1>2. ValidateValues(w.namespace, Candidate(w))
  <2>1. CASE w.from = 0
    BY <1>1, <2>1 DEF Candidate
  <2>2. CASE w.from # 0
    BY <1>1, <2>2 DEF Save, Ready, CandidateChecked
  <2> QED
    BY <2>1, <2>2
<1>3. Candidate(w) \in Registry[w.namespace] /\ Candidate(w) \in Documents
  BY <1>1, <1>2 DEF ValidateValues, Registry, Namespaces, Documents
<1>4. /\ row.value = Candidate(w) /\ row.request = w.request /\ row.expected = w.expected
      /\ row \in HistoryRow
  BY <1>1, <1>3 DEF Row, HistoryRow
<1>5. DOMAIN history[w.namespace] = 1..Len(history[w.namespace])
  BY <1>1 DEF ConfigInv, HistoryInv
<1>6. /\ w.expected = Len(history[w.namespace])
      /\ \A r \in 1..Len(history[w.namespace]) : history[w.namespace][r].request # w.request
  BY <1>5 DEF Save, Fresh, Recorded, Revision
<1> QED
  BY <1>1, <1>2, <1>3, <1>4, <1>6

\* The history grows by that row, and by nothing else.
LEMMA SavedHistory ==
  ASSUME ConfigInv, NEW a \in Users, Save(a)
  PROVE  LET ns == call[a].what.namespace
             n == Len(history[ns])
         IN  /\ HistoryInv'
             /\ ns \in Namespaces /\ n \in Nat
             /\ history'[ns] = Append(history[ns], Row(a, call[a].what))
             /\ Len(history'[ns]) = n + 1 /\ history'[ns][n + 1] = Row(a, call[a].what)
             /\ \A r \in 1..n : history'[ns][r] = history[ns][r]
             /\ \A x \in Namespaces : x # ns => history'[x] = history[x]
<1> DEFINE w == call[a].what
           ns == w.namespace
           n == Len(history[ns])
           row == Row(a, w)
<1>1. /\ ns \in Namespaces /\ row \in HistoryRow /\ row.value \in Registry[ns]
      /\ ValidateValues(ns, row.value) /\ row.expected = n
      /\ \A r \in 1..n : history[ns][r].request # row.request
  BY SavedRow
<1>2. history' = [history EXCEPT ![ns] = Append(@, row)] /\ roomy' = roomy
  BY DEF Save, processVars
<1> HIDE DEF row, ns
<1>3. history[ns] \in Seq(HistoryRow) /\ n \in Nat
  BY <1>1 DEF ConfigInv, HistoryInv
<1>4. /\ history'[ns] = Append(history[ns], row)
      /\ \A x \in Namespaces : x # ns => history'[x] = history[x]
      /\ history' = [x \in Namespaces |-> history'[x]]
  BY <1>1, <1>2 DEF ConfigInv, HistoryInv
<1>5. /\ Len(history'[ns]) = n + 1 /\ history'[ns][n + 1] = row
      /\ \A r \in 1..n : history'[ns][r] = history[ns][r]
      /\ history'[ns] \in Seq(HistoryRow)
  BY <1>1, <1>3, <1>4
<1>6. ASSUME NEW x \in Namespaces
      PROVE  /\ history'[x] \in Seq(HistoryRow) /\ Len(history'[x]) > 0
             /\ \A r \in 1..Len(history'[x]) :
                  /\ history'[x][r].value \in Registry[x]
                  /\ history'[x][r].expected = r - 1
                  /\ \A q \in 1..(r - 1) : history'[x][q].request # history'[x][r].request
             /\ ValidateValues(x, Current(x).value)'
  <2>1. CASE x # ns
    BY <1>2, <1>4, <2>1 DEF ConfigInv, HistoryInv, ValidateValues, Current
  <2>2. CASE x = ns
    <3>1. ASSUME NEW r \in 1..(n + 1)
          PROVE  /\ history'[ns][r].value \in Registry[ns]
                 /\ history'[ns][r].expected = r - 1
                 /\ \A q \in 1..(r - 1) : history'[ns][q].request # history'[ns][r].request
      <4>1. CASE r = n + 1
        BY <1>1, <1>3, <1>5, <4>1
      <4>2. CASE r \in 1..n
        <5>1. \A q \in 1..(r - 1) : q \in 1..n
          BY <1>3, <4>2
        <5>2. /\ history[ns][r].value \in Registry[ns] /\ history[ns][r].expected = r - 1
              /\ \A q \in 1..(r - 1) : history[ns][q].request # history[ns][r].request
          BY <1>1, <4>2 DEF ConfigInv, HistoryInv
        <5> QED
          BY <1>5, <4>2, <5>1, <5>2
      <4> QED
        BY <1>3, <4>1, <4>2
    <3>2. row.value \in Registry[x] /\ (row.value = "large" => roomy')
      BY <1>1, <1>2, <2>2 DEF ValidateValues
    <3>3. history'[x][Len(history'[x])] = row
      BY <1>5, <2>2
    <3>4. ValidateValues(x, Current(x).value)'
      BY <3>2, <3>3 DEF ValidateValues, Current
    <3> QED
      BY <1>3, <1>5, <2>2, <3>1, <3>4
  <2> QED
    BY <2>1, <2>2
<1>7. HistoryInv'
  BY <1>4, <1>6 DEF HistoryInv
<1> QED
  BY <1>1, <1>3, <1>4, <1>5, <1>7 DEF row, ns

LEMMA SaveStep ==
  ASSUME ConfigInv, NEW a \in Users, Save(a) PROVE ConfigInv'
<1> DEFINE w == call[a].what
           ns == w.namespace
           n == Len(history[ns])
           c == [pc |-> "committed", row |-> Row(a, w), namespace |-> ns,
                 revision |-> Revision(ns) + 1]
<1>1. /\ HistoryInv' /\ ns \in Namespaces /\ n \in Nat
      /\ Len(history'[ns]) = n + 1 /\ history'[ns][n + 1] = Row(a, w)
      /\ \A r \in 1..n : history'[ns][r] = history[ns][r]
      /\ \A x \in Namespaces : x # ns => history'[x] = history[x]
  BY SavedHistory
<1>2. /\ generation' = generation + 1 /\ generation < MaxGeneration
      /\ epoch' \in {epoch, epoch + 1}
      /\ versions' = Append(versions, Snapshot(generation', history'))
      /\ call' = [call EXCEPT ![a] = c]
      /\ UNCHANGED processVars /\ call[a].pc = "verified"
  BY DEF Save, NextEpoch
<1>3. c.pc = "committed" /\ c.row = Row(a, w) /\ c.namespace = ns /\ c.revision = n + 1
      /\ DOMAIN c = {"pc", "row", "namespace", "revision"}
  BY DEF Revision
<1> HIDE DEF c, ns
<1>4. RuntimeInv'
  <2>1. generation' \in 1..MaxGeneration /\ epoch' \in 1..generation'
    BY <1>2, Bounds DEF ConfigInv, RuntimeInv
  <2>2. Snapshot(generation', history') \in Snapshots
    <3>1. \A x \in Namespaces : history'[x] \in Seq(HistoryRow) /\ Len(history'[x]) > 0
      BY <1>1 DEF HistoryInv
    <3>2. generation' \in Nat
      BY <2>1, Bounds
    <3> QED
      BY <3>1, <3>2, SnapshotType, Zenon
  <2>3. /\ versions' \in Seq(Snapshots) /\ Len(versions') = generation'
        /\ versions'[generation'] = Snapshot(generation', history')
        /\ \A g \in 1..generation : versions'[g] = versions[g]
    BY <1>2, <2>2 DEF ConfigInv, RuntimeInv
  <2>4. /\ loaded' = loaded /\ refresh' = refresh
        /\ \A b : call[b].pc = "refreshing" => call'[b] = call[b]
    BY <1>2 DEF processVars, ConfigInv
  <2> QED
    BY <1>2, <2>1, <2>3, <2>4 DEF ConfigInv, RuntimeInv
<1>5. CallInv(a)'
  <2>1. call'[a] = c
    BY <1>2 DEF ConfigInv
  <2> QED
    BY <1>1, <1>3, <2>1 DEF CallInv, Committed
<1>6. ASSUME NEW b \in Users, b # a PROVE CallInv(b)'
  <2>1. call'[b] = call[b] /\ UNCHANGED <<roomy, refresh, loaded, lastError>>
    BY <1>2, <1>6 DEF ConfigInv, processVars
  <2>2. call[b].pc \in Committed =>
          /\ call[b].revision \in 1..Len(history'[call[b].namespace])
          /\ history'[call[b].namespace][call[b].revision] = call[b].row
    BY <1>1 DEF ConfigInv, CallInv
  <2> QED
    BY <2>1, <2>2 DEF ConfigInv, CallInv, ValidateValues
<1> QED
  BY <1>1, <1>2, <1>4, <1>5, <1>6 DEF ConfigInv, processVars

LEMMA AnswerStep ==
  ASSUME ConfigInv, NEW a \in Users, Answer(a) PROVE ConfigInv'
<1> DEFINE c == [pc |-> "answered", row |-> call[a].row, namespace |-> call[a].namespace,
                 revision |-> call[a].revision,
                 state |-> ApplyState(call[a].namespace, call[a].revision)]
<1>1. /\ call' = [call EXCEPT ![a] = c] /\ call[a].pc = "refreshed"
      /\ UNCHANGED <<storeVars, processVars>>
  BY DEF Answer
<1>2. /\ c.pc = "answered" /\ c.row = call[a].row /\ c.namespace = call[a].namespace
      /\ c.revision = call[a].revision
      /\ c.state = ApplyState(call[a].namespace, call[a].revision)
  OBVIOUS
<1> HIDE DEF c
<1>3. c.state # "pending"
  BY <1>1, <1>2 DEF ConfigInv, CallInv, ApplyState
<1>4. CallInv(a)'
  <2>1. call'[a] = c /\ history' = history
    BY <1>1 DEF ConfigInv, storeVars
  <2> QED
    BY <1>1, <1>2, <1>3, <2>1 DEF ConfigInv, CallInv, Committed
<1> QED
  BY <1>1, <1>4, CallMoves

\* A refresher's call goes on; nobody else's does.
LEMMA RefresherCalls ==
  ASSUME ConfigInv, NEW by, by = Ticker \/ (by \in Users /\ call[by].pc \in Committed \ {"answered"}),
         NEW pc, call' = IF by = Ticker THEN call ELSE [call EXCEPT ![by].pc = pc]
  PROVE  /\ call' = [b \in Users |-> call'[b]]
         /\ \A b \in Users : b # by => call'[b] = call[b]
         /\ by \in Users => /\ DOMAIN call'[by] = {"pc", "row", "namespace", "revision"}
                            /\ call'[by].pc = pc /\ call'[by].row = call[by].row
                            /\ call'[by].namespace = call[by].namespace
                            /\ call'[by].revision = call[by].revision
<1>1. CASE by = Ticker
  BY <1>1, SiteAssumption DEF ConfigInv
<1>2. CASE by # Ticker
  <2>1. DOMAIN call[by] = {"pc", "row", "namespace", "revision"} /\ by \in Users
    BY <1>2 DEF ConfigInv, CallInv
  <2>2. call' = [call EXCEPT ![by] = [call[by] EXCEPT !.pc = pc]]
    BY <1>2
  <2>3. call'[by] = [call[by] EXCEPT !.pc = pc] /\ \A b \in Users : b # by => call'[b] = call[b]
    BY <2>1, <2>2 DEF ConfigInv
  <2> QED
    BY <2>1, <2>2, <2>3 DEF ConfigInv
<1> QED
  BY <1>1, <1>2

LEMMA RefreshStateStep ==
  ASSUME ConfigInv, NEW by \in Refreshers, RefreshState(by) PROVE ConfigInv'
<1> DEFINE r == [by |-> by, generation |-> generation, seen |-> history]
<1>1. /\ refresh = NoRefresh /\ refresh' = r
      /\ call' = IF by = Ticker THEN call ELSE [call EXCEPT ![by].pc = "refreshing"]
      /\ UNCHANGED <<history, generation, epoch, versions, roomy, loaded, lastError>>
  BY DEF RefreshState, storeVars
<1>2. r.by = by /\ r.generation = generation /\ r.seen = history /\ r # NoRefresh
  BY BegunIsNotNone
<1> HIDE DEF r
<1>3. by = Ticker \/ (by \in Users /\ call[by].pc = "committed")
  BY DEF Refreshers
<1>4. /\ call' = [b \in Users |-> call'[b]]
      /\ \A b \in Users : b # by => call'[b] = call[b]
      /\ by \in Users => /\ DOMAIN call'[by] = {"pc", "row", "namespace", "revision"}
                         /\ call'[by].pc = "refreshing" /\ call'[by].row = call[by].row
                         /\ call'[by].namespace = call[by].namespace
                         /\ call'[by].revision = call[by].revision
  BY <1>1, <1>3, RefresherCalls DEF Committed
<1>5. HistoryInv'
  BY <1>1 DEF ConfigInv, HistoryInv, ValidateValues, Current
<1>6. RuntimeInv'
  BY <1>1, <1>2, <1>3, <1>4 DEF ConfigInv, RuntimeInv
<1>7. ASSUME NEW b \in Users PROVE CallInv(b)'
  <2>1. CASE b = by
    <3>1. call[b].pc = "committed"
      BY <1>3, <2>1, SiteAssumption
    <3> QED
      BY <1>1, <1>2, <1>4, <2>1, <3>1 DEF ConfigInv, CallInv, Committed, HistoryInv
  <2>2. CASE b # by
    BY <1>1, <1>2, <1>4, <2>2 DEF ConfigInv, CallInv, Committed, HistoryInv, ValidateValues
  <2> QED
    BY <2>1, <2>2
<1> QED
  BY <1>1, <1>4, <1>5, <1>6, <1>7 DEF ConfigInv

\* A refresh ends, in a new snapshot of what it saw or in an error.
LEMMA RefreshedStep ==
  ASSUME ConfigInv, refresh # NoRefresh, NEW ok \in BOOLEAN, Refreshed(refresh.by, ok),
         UNCHANGED <<history, generation, epoch, versions, roomy>>,
         loaded' = IF ok THEN Snapshot(refresh.generation, refresh.seen) ELSE loaded
  PROVE  ConfigInv'
<1> DEFINE by == refresh.by
           snapshot == Snapshot(refresh.generation, refresh.seen)
<1>1. /\ refresh' = NoRefresh /\ lastError' = ~ok
      /\ call' = IF by = Ticker THEN call ELSE [call EXCEPT ![by].pc = "refreshed"]
  BY DEF Refreshed
<1>2. by = Ticker \/ (by \in Users /\ call[by].pc = "refreshing")
  BY DEF ConfigInv, RuntimeInv
<1>3. /\ snapshot.generation = refresh.generation
      /\ \A ns \in Namespaces : snapshot.revision[ns] = Len(refresh.seen[ns])
  BY DEF Snapshot
<1>4. /\ call' = [b \in Users |-> call'[b]]
      /\ \A b \in Users : b # by => call'[b] = call[b]
      /\ by \in Users => /\ DOMAIN call'[by] = {"pc", "row", "namespace", "revision"}
                         /\ call'[by].pc = "refreshed" /\ call'[by].row = call[by].row
                         /\ call'[by].namespace = call[by].namespace
                         /\ call'[by].revision = call[by].revision
  <2> HIDE DEF by
  <2> QED
    BY <1>1, <1>2, RefresherCalls DEF Committed
<1> HIDE DEF by, snapshot
<1>5. HistoryInv'
  BY DEF ConfigInv, HistoryInv, ValidateValues, Current
<1>6. RuntimeInv'
  <2>1. /\ refresh.generation \in 1..generation /\ versions[refresh.generation] = snapshot
        /\ loaded' \in {loaded, snapshot}
    BY DEF ConfigInv, RuntimeInv, snapshot
  <2> QED
    BY <1>1, <1>3, <2>1 DEF ConfigInv, RuntimeInv
<1>7. ASSUME NEW b \in Users PROVE CallInv(b)'
  <2>1. ASSUME call[b].pc \in {"refreshing", "refreshed"}
        PROVE  lastError' \/ loaded'.revision[call[b].namespace] >= call[b].revision
    <3>1. call[b].namespace \in Namespaces
          /\ Len(refresh.seen[call[b].namespace]) >= call[b].revision
      BY <2>1 DEF ConfigInv, CallInv, Committed
    <3>2. CASE ok
      BY <1>3, <3>1, <3>2 DEF snapshot
    <3>3. CASE ~ok
      BY <1>1, <3>3
    <3> QED
      BY <3>2, <3>3
  <2>2. CASE b = by
    <3>1. call[b].pc = "refreshing"
      BY <1>2, <2>2, SiteAssumption
    <3> QED
      BY <1>1, <1>4, <2>1, <2>2, <3>1 DEF ConfigInv, CallInv, Committed
  <2>3. CASE b # by
    <3>1. call[b].pc # "refreshing"
      BY <2>3 DEF ConfigInv, CallInv, by
    <3> QED
      BY <1>1, <1>4, <2>1, <2>3, <3>1 DEF ConfigInv, CallInv, Committed, ValidateValues
  <2> QED
    BY <2>2, <2>3
<1> QED
  BY <1>1, <1>4, <1>5, <1>6, <1>7 DEF ConfigInv

LEMMA RefreshingStep ==
  ASSUME ConfigInv, Refreshing PROVE ConfigInv'
<1>1. ASSUME NEW by \in Refreshers, RefreshState(by) PROVE ConfigInv'
  BY <1>1, RefreshStateStep
<1>2. CASE RefreshStore
  BY <1>2, RefreshedStep DEF RefreshStore, ReadRows, storeVars
<1>3. CASE RefreshFail
  BY <1>3, RefreshedStep DEF RefreshFail, storeVars
<1> QED
  BY <1>1, <1>2, <1>3 DEF Refreshing

\* A new process loads what is stored: all of it was valid for the old one, and is for this one.
LEMMA RestartStep ==
  ASSUME ConfigInv, NEW room \in BOOLEAN, Restart(room) PROVE ConfigInv'
<1>1. /\ UNCHANGED <<history, generation, epoch, versions>> /\ roomy' = room
      /\ \A ns \in Namespaces : Current(ns).value = "large" => room
      /\ loaded' = Snapshot(generation, history) /\ lastError' = FALSE /\ refresh' = NoRefresh
      /\ call' = [a \in Users |-> NoCall]
  BY DEF Restart, storeVars
<1>2. Snapshot(generation, history).generation = generation
  BY DEF Snapshot
<1>3. HistoryInv'
  BY <1>1 DEF ConfigInv, HistoryInv, ValidateValues, Current
<1>4. RuntimeInv'
  BY <1>1, <1>2 DEF ConfigInv, RuntimeInv
<1>5. ASSUME NEW b \in Users PROVE CallInv(b)'
  BY <1>1 DEF CallInv, NoCall, Committed
<1> QED
  BY <1>1, <1>3, <1>4, <1>5 DEF ConfigInv

LEMMA ConfigStep == ConfigInv /\ [Next]_vars => ConfigInv'
<1> SUFFICES ASSUME ConfigInv, [Next]_vars PROVE ConfigInv'
  OBVIOUS
<1>1. ASSUME UNCHANGED <<storeVars, processVars, call>> PROVE ConfigInv'
  BY <1>1 DEF ConfigInv, HistoryInv, RuntimeInv, CallInv, ValidateValues, Current, storeVars,
              processVars
<1>2. ASSUME NEW a \in Users, Publishing(a) PROVE ConfigInv'
  <2>1. CASE Refuse(a) \/ Forget(a)
    <3>1. /\ call' = [call EXCEPT ![a] = NoCall] /\ call[a].pc # "refreshing"
          /\ UNCHANGED <<storeVars, processVars>>
      BY <2>1 DEF Refuse, Forget
    <3>2. NoCall.pc = "idle"
      BY DEF NoCall
    <3> QED
      BY <3>1, <3>2, OtherCalls
  <2> QED
    BY <1>2, <2>1, BeginPublishStep, ReplayStep, SaveStep, AnswerStep DEF Publishing
<1>3. ASSUME NEW a \in Users, Managing(a) PROVE ConfigInv'
  <2>1. CASE ChangeUser(a) \/ AdminRevokeInvitation(a)
    <3>1. /\ call' = [call EXCEPT ![a] = NoCall] /\ call[a].pc # "refreshing"
          /\ UNCHANGED <<storeVars, processVars>>
      BY <2>1 DEF ChangeUser, AdminChange, AdminRevokeInvitation
    <3>2. NoCall.pc = "idle"
      BY DEF NoCall
    <3> QED
      BY <3>1, <3>2, OtherCalls
  <2>2. ASSUME NEW what, VerifyAdminPassword(a, what), what.kind # "publish",
               UNCHANGED <<storeVars, processVars>>
        PROVE  ConfigInv'
    <3> DEFINE c == [pc |-> "verified", version |-> account[a].version,
                     hash |-> account[a].hash, what |-> what]
    <3>1. call' = [call EXCEPT ![a] = c] /\ call[a].pc # "refreshing"
      BY <2>2 DEF VerifyAdminPassword, NoCall
    <3>2. c.pc = "verified" /\ c.what = what
      OBVIOUS
    <3> HIDE DEF c
    <3> QED
      BY <2>2, <3>1, <3>2, OtherCalls
  <2>3. ASSUME NEW u \in Users, NEW action, BeginChange(a, u, action, account[u].revision)
        PROVE  ConfigInv'
    <3>1. [kind |-> "change", target |-> u, action |-> action,
           revision |-> account[u].revision].kind # "publish"
      OBVIOUS
    <3> QED
      BY <2>2, <2>3, <3>1 DEF BeginChange
  <2>4. ASSUME NEW i, BeginRevoke(a, i) PROVE ConfigInv'
    <3>1. [kind |-> "revoke", invitation |-> i,
           revision |-> account[invitation[i].inviter].revision].kind # "publish"
      OBVIOUS
    <3> QED
      BY <2>2, <2>4, <3>1 DEF BeginRevoke
  <2>5. ASSUME NEW u \in Users, AdminCreate(a, u) PROVE ConfigInv'
    BY <1>1, <2>5 DEF AdminCreate
  <2> QED
    BY <1>3, <2>1, <2>3, <2>4, <2>5 DEF Managing
<1>4. ASSUME NEW u \in Users, Inviting(u) PROVE UNCHANGED <<storeVars, processVars, call>>
  BY <1>4 DEF Inviting, CreateInvitation, RevokeInvitation, ChangePassword, siteVars
<1>5. ASSUME NEW v \in Visitors, Joining(v) PROVE UNCHANGED <<storeVars, processVars, call>>
  BY <1>5 DEF Joining, ValidateInvitation, Register, GiveUp, siteVars
<1>6. ASSUME Tick \/ (\E i \in DOMAIN invitation : Expire(i)) \/ UNCHANGED vars
      PROVE  UNCHANGED <<storeVars, processVars, call>>
  BY <1>6 DEF Tick, Expire, vars, siteVars
<1> QED
  BY <1>1, <1>2, <1>3, <1>4, <1>5, <1>6, RefreshingStep, RestartStep DEF Next, RestartAll

-----------------------------------------------------------------------------
(* Invitations *)

IsInvitation(x) ==
  /\ DOMAIN x = {"inviter", "request", "month", "slot", "epoch", "status", "expired", "users",
                 "bans", "given", "taken", "bansThen"}
  /\ x.inviter \in Users /\ x.month \in Nat /\ x.slot \in 1..MonthlyLimit /\ x.epoch \in Nat
  /\ x.status \in {"unused", "used", "revoked"}
  /\ x.given \in Nat /\ x.taken \in Nat

\* What an invitation promises, given the accounts, the epoch and the registration documents.
\* One that is unused and of this epoch has only ever seen registration open, and one that is
\* unused has seen no ban of its inviter: that is what the check of Register relies on.
Standing(x, accounts, now_epoch, documents) ==
  /\ IsInvitation(x)
  /\ accounts[x.inviter].status # "absent"
  /\ x.epoch <= now_epoch /\ x.given \in 1..Len(documents)
  /\ x.status = "unused" =>
       /\ x.bans = accounts[x.inviter].bans
       /\ x.epoch = now_epoch =>
            \A r \in x.given..Len(documents) : documents[r].value = "open"
  /\ x.status # "used" => x.users = {}
  /\ x.status = "used" =>
       /\ x.bans = x.bansThen /\ x.taken <= Len(documents)
       /\ \A r \in x.given..x.taken : documents[r].value = "open"
       /\ \E u \in Users : x.users = {u}

\* No slot of a month is given twice.
SlotsDistinct ==
  \A i, j \in 1..Len(invitation) :
    i # j /\ invitation[i].inviter = invitation[j].inviter
          /\ invitation[i].month = invitation[j].month
      => invitation[i].slot # invitation[j].slot

InvitationInv ==
  /\ Len(invitation) \in Nat
  /\ invitation = [i \in 1..Len(invitation) |-> invitation[i]]
  /\ \A i \in 1..Len(invitation) :
       Standing(invitation[i], account, epoch, history["registration"])
  /\ SlotsDistinct

\* The epoch and the registration documents: the history only grows, and registration is never
\* closed without a new epoch.
LEMMA RegistrationMoves ==
  ASSUME ConfigInv, [Next]_vars
  PROVE  LET old == history["registration"]
             new == history'["registration"]
         IN  /\ epoch' \in {epoch, epoch + 1}
             /\ Len(new) >= Len(old) /\ \A r \in 1..Len(old) : new[r] = old[r]
             /\ epoch' = epoch /\ old[Len(old)].value = "open" => Len(new) = Len(old)
<1> DEFINE old == history["registration"]
           new == history'["registration"]
<1>0. epoch \in Nat /\ Len(old) \in Nat /\ Len(old) > 0 /\ "registration" \in Namespaces
  BY DEF ConfigInv, RuntimeInv, HistoryInv, Namespaces
<1>1. CASE UNCHANGED <<epoch, history>>
  BY <1>0, <1>1
<1>2. ASSUME NEW a \in Users, Save(a)
      PROVE  /\ epoch' \in {epoch, epoch + 1}
             /\ Len(new) >= Len(old) /\ \A r \in 1..Len(old) : new[r] = old[r]
             /\ epoch' = epoch /\ old[Len(old)].value = "open" => Len(new) = Len(old)
  <2> DEFINE w == call[a].what
             ns == w.namespace
             n == Len(history[ns])
  <2>1. epoch' = IF Closes(ns, Candidate(w)) THEN epoch + 1 ELSE epoch
    BY <1>2 DEF Save, NextEpoch
  <2>2. /\ ns \in Namespaces /\ n \in Nat /\ Len(history'[ns]) = n + 1
        /\ \A r \in 1..n : history'[ns][r] = history[ns][r]
        /\ \A x \in Namespaces : x # ns => history'[x] = history[x]
    BY <1>2, SavedHistory
  <2>3. Candidate(w) \in Registry[ns] /\ Candidate(w) # Current(ns).value
    BY <1>2, SavedRow DEF Save, Fresh
  <2> HIDE DEF ns
  <2>4. CASE ns # "registration"
    BY <1>0, <2>1, <2>2, <2>4
  <2>5. CASE ns = "registration"
    <3>1. old[Len(old)].value = "open" => epoch' = epoch + 1
      BY <2>1, <2>3, <2>5 DEF Closes, Current, Registry
    <3> QED
      BY <1>0, <2>1, <2>2, <2>5, <3>1
  <2> QED
    BY <2>4, <2>5
<1>3. UNCHANGED <<epoch, history>> \/ \E a \in Users : Save(a)
  <2>1. ASSUME NEW a \in Users, Publishing(a) PROVE UNCHANGED <<epoch, history>> \/ Save(a)
    BY <2>1 DEF Publishing, Configure, BeginPublish, Refuse, Replay, Answer, Forget, storeVars
  <2>2. ASSUME NEW a \in Users, Managing(a) PROVE UNCHANGED <<epoch, history>>
    BY <2>2 DEF Managing, BeginChange, BeginRevoke, AdminRevokeInvitation, AdminCreate,
                ChangeUser, AdminChange, storeVars
  <2>3. ASSUME NEW u \in Users, Inviting(u) PROVE UNCHANGED <<epoch, history>>
    BY <2>3 DEF Inviting, CreateInvitation, RevokeInvitation, ChangePassword, siteVars, storeVars
  <2>4. ASSUME NEW v \in Visitors, Joining(v) PROVE UNCHANGED <<epoch, history>>
    BY <2>4 DEF Joining, ValidateInvitation, Register, GiveUp, siteVars, storeVars
  <2>5. ASSUME Refreshing \/ (\E room \in BOOLEAN : RestartAll(room)) PROVE UNCHANGED <<epoch, history>>
    BY <2>5 DEF Refreshing, RefreshState, RefreshStore, RefreshFail, RestartAll, Restart, storeVars
  <2>6. ASSUME Tick \/ (\E i \in DOMAIN invitation : Expire(i)) \/ UNCHANGED vars
        PROVE  UNCHANGED <<epoch, history>>
    BY <2>6 DEF Tick, Expire, vars, siteVars, storeVars
  <2> QED
    BY <2>1, <2>2, <2>3, <2>4, <2>5, <2>6 DEF Next
<1> QED
  BY <1>1, <1>2, <1>3

\* The step bans or deletes this account.
Bans(u) == \E a \in Users : /\ ChangeUser(a) /\ call[a].what.target = u
                            /\ call[a].what.action \in {"ban", "delete"}

LEMMA BanMoves ==
  ASSUME AccountInv, [Next]_vars, NEW u \in Users, account[u].status # "absent"
  PROVE  account'[u].status # "absent" /\ (Bans(u) \/ account'[u].bans = account[u].bans)
<1>0. IsAccount(account[u])
  BY DEF AccountInv
<1>1. CASE UNCHANGED account
  BY <1>1
<1>2. ASSUME NEW a \in Users, ChangeUser(a)
      PROVE  account'[u].status # "absent" /\ (Bans(u) \/ account'[u].bans = account[u].bans)
  <2> DEFINE w == call[a].what
  <2>1. /\ account' = [account EXCEPT ![w.target] = Changed(@, w.action)]
        /\ account[w.target].revision < MaxRevision
    BY <1>2 DEF ChangeUser, AdminChange
  <2>2. CASE u = w.target
    <3>1. account'[u] = Changed(account[u], w.action)
      BY <2>1, <2>2 DEF AccountInv
    <3>2. w.action \in {"ban", "delete"} => Bans(u)
      BY <1>2, <2>2 DEF Bans
    <3> QED
      BY <1>0, <2>1, <2>2, <3>1, <3>2, ChangedAccount
  <2>3. CASE u # w.target
    BY <2>1, <2>3 DEF AccountInv
  <2> QED
    BY <2>2, <2>3
<1>3. ASSUME NEW x \in Users, ChangePassword(x)
      PROVE  account'[u].status # "absent" /\ account'[u].bans = account[u].bans
  BY <1>0, <1>3 DEF ChangePassword, Repassworded, AccountInv, IsAccount
<1>4. CASE CreatesAccount
  BY <1>4 DEF CreatesAccount, AccountInv
<1> QED
  BY <1>1, <1>2, <1>3, <1>4, AccountMoves DEF AccountInv

\* The world moves on, and an invitation that nobody touches keeps its promise.
LEMMA StandingKept ==
  ASSUME AccountInv, ConfigInv, [Next]_vars, NEW x,
         Standing(x, account, epoch, history["registration"]),
         x.status = "unused" => ~Bans(x.inviter)
  PROVE  Standing(x, account', epoch', history'["registration"])
<1> DEFINE old == history["registration"]
           new == history'["registration"]
<1>1. /\ epoch' \in {epoch, epoch + 1} /\ epoch \in Nat /\ Len(old) \in Nat /\ Len(old) > 0
      /\ Len(new) >= Len(old) /\ Len(new) \in Nat /\ \A r \in 1..Len(old) : new[r] = old[r]
      /\ epoch' = epoch /\ old[Len(old)].value = "open" => Len(new) = Len(old)
  <2>1. HistoryInv' /\ HistoryInv /\ epoch \in Nat
    BY ConfigStep DEF ConfigInv, RuntimeInv
  <2>2. Len(old) \in Nat /\ Len(old) > 0 /\ Len(new) \in Nat
    BY <2>1 DEF HistoryInv, Namespaces
  <2> QED
    BY <2>1, <2>2, RegistrationMoves
<1>2. /\ account'[x.inviter].status # "absent"
      /\ x.status = "unused" => account'[x.inviter].bans = account[x.inviter].bans
  BY BanMoves DEF Standing, IsInvitation
<1> HIDE DEF old, new
<1>3. /\ IsInvitation(x) /\ x.epoch <= epoch /\ x.epoch \in Nat
      /\ x.given \in 1..Len(old) /\ x.taken \in Nat
  BY DEF Standing, IsInvitation, old
<1>4. ASSUME x.status = "unused", x.epoch = epoch', NEW r \in x.given..Len(new)
      PROVE  new[r].value = "open"
  <2>1. x.epoch = epoch /\ epoch' = epoch
    BY <1>1, <1>3, <1>4
  <2>2. \A q \in x.given..Len(old) : old[q].value = "open"
    BY <1>4, <2>1 DEF Standing, old
  <2>3. Len(new) = Len(old)
    BY <1>1, <1>3, <2>1, <2>2
  <2> QED
    BY <1>1, <1>3, <1>4, <2>2, <2>3
<1>5. ASSUME x.status = "used"
      PROVE  x.taken <= Len(new) /\ \A r \in x.given..x.taken : new[r].value = "open"
  <2>1. x.taken <= Len(old) /\ \A r \in x.given..x.taken : old[r].value = "open"
    BY <1>5 DEF Standing, old
  <2> QED
    BY <1>1, <1>3, <2>1
<1>6. x.given \in 1..Len(new) /\ x.epoch <= epoch'
  BY <1>1, <1>3
<1> QED
  BY <1>2, <1>3, <1>4, <1>5, <1>6 DEF Standing, new

\* The ways in which one invitation changes, each of which leaves its giver and slot alone.
SameSlot(x, y) == y.inviter = x.inviter /\ y.month = x.month /\ y.slot = x.slot

LEMMA RevokedStanding ==
  ASSUME NEW x, NEW accounts, NEW ep, NEW documents, Standing(x, accounts, ep, documents),
         x.status = "unused"
  PROVE  LET y == [x EXCEPT !.status = "revoked"]
         IN  Standing(y, accounts, ep, documents) /\ SameSlot(x, y) /\ y.status = "revoked"
  BY DEF Standing, IsInvitation, SameSlot

LEMMA ExpiredStanding ==
  ASSUME NEW x, NEW accounts, NEW ep, NEW documents, Standing(x, accounts, ep, documents)
  PROVE  LET y == [x EXCEPT !.expired = TRUE]
         IN  Standing(y, accounts, ep, documents) /\ SameSlot(x, y) /\ y.status = x.status
  BY DEF Standing, IsInvitation, SameSlot

LEMMA UsedStanding ==
  ASSUME NEW x, NEW accounts, NEW ep, NEW documents, Standing(x, accounts, ep, documents),
         x.status = "unused", x.epoch = ep, NEW u \in Users, Len(documents) \in Nat
  PROVE  LET y == [x EXCEPT !.status = "used", !.users = @ \cup {u}, !.taken = Len(documents),
                            !.bansThen = accounts[x.inviter].bans]
         IN  Standing(y, accounts, ep, documents) /\ SameSlot(x, y) /\ y.status = "used"
<1> DEFINE y == [x EXCEPT !.status = "used", !.users = @ \cup {u}, !.taken = Len(documents),
                          !.bansThen = accounts[x.inviter].bans]
<1>1. /\ DOMAIN y = DOMAIN x /\ y.status = "used" /\ y.users = {u} /\ y.taken = Len(documents)
      /\ y.bansThen = accounts[x.inviter].bans /\ y.inviter = x.inviter /\ y.month = x.month
      /\ y.slot = x.slot /\ y.epoch = x.epoch /\ y.given = x.given /\ y.bans = x.bans
  BY DEF Standing, IsInvitation
<1> HIDE DEF y
<1>2. IsInvitation(y)
  BY <1>1 DEF Standing, IsInvitation
<1> QED
  BY <1>1, <1>2 DEF Standing, SameSlot, y

\* One entry of a sequence is replaced.
LEMMA ReplacedEntry ==
  ASSUME NEW s, NEW n \in Nat, s = [i \in 1..n |-> s[i]], NEW k, NEW x
  PROVE  LET t == [s EXCEPT ![k] = x]
         IN  /\ Len(t) = n /\ Len(s) = n /\ t = [i \in 1..n |-> t[i]]
             /\ \A i \in 1..n : t[i] = IF i = k THEN x ELSE s[i]
<1> DEFINE t == [s EXCEPT ![k] = x]
<1>1. t = [i \in 1..n |-> t[i]] /\ \A i \in 1..n : t[i] = IF i = k THEN x ELSE s[i]
  OBVIOUS
<1>2. ASSUME NEW q, q = [i \in 1..n |-> q[i]] PROVE Len(q) = n
  <2> DEFINE Q == {q[i] : i \in 1..n}
  <2>1. q \in [1..n -> Q]
    BY <1>2
  <2>2. q \in Seq(Q) /\ DOMAIN q = 1..n
    BY <2>1, SeqDef
  <2> QED
    BY <2>2
<1> QED
  BY <1>1, <1>2

LEMMA AppendedEntry ==
  ASSUME NEW s, NEW n \in Nat, s = [i \in 1..n |-> s[i]], NEW x
  PROVE  LET t == Append(s, x)
         IN  /\ Len(t) = n + 1 /\ t = [i \in 1..(n + 1) |-> t[i]] /\ t[n + 1] = x
             /\ \A i \in 1..n : t[i] = s[i]
<1> DEFINE Q == {s[i] : i \in 1..n} \cup {x}
<1>1. s \in [1..n -> Q] /\ x \in Q
  OBVIOUS
<1>2. s \in Seq(Q) /\ DOMAIN s = 1..n
  BY <1>1, SeqDef
<1> HIDE DEF Q
<1>3. Len(s) = n
  BY <1>2
<1> QED
  BY <1>1, <1>2, <1>3, AppendProperties

\* Every step that gives no invitation leaves those there are in their slots, and leaves none
\* unused that an account it bans has given.
LEMMA EntriesMove ==
  ASSUME InvitationInv, ConfigInv, [Next]_vars,
         ~ \E u \in Users, request \in Requests : CreateInvitation(u, request)
  PROVE  LET n == Len(invitation)
         IN  /\ Len(invitation') = n /\ invitation' = [i \in 1..n |-> invitation'[i]]
             /\ \A i \in 1..n :
                  /\ Standing(invitation'[i], account, epoch, history["registration"])
                  /\ SameSlot(invitation[i], invitation'[i])
                  /\ invitation'[i].status = "unused" => ~Bans(invitation[i].inviter)
<1> DEFINE n == Len(invitation)
           St(x) == Standing(x, account, epoch, history["registration"])
           Goal == /\ Len(invitation') = n /\ invitation' = [i \in 1..n |-> invitation'[i]]
                   /\ \A i \in 1..n :
                        /\ St(invitation'[i]) /\ SameSlot(invitation[i], invitation'[i])
                        /\ invitation'[i].status = "unused" => ~Bans(invitation[i].inviter)
<1>0. /\ n \in Nat /\ invitation = [i \in 1..n |-> invitation[i]]
      /\ \A i \in 1..n : St(invitation[i])
  BY DEF InvitationInv
<1> HIDE DEF n, St
<1>1. ASSUME NEW a \in Users, ChangeUser(a) PROVE Goal
  <2>1. ASSUME NEW b \in Users, ChangeUser(b)
        PROVE  invitation' = LeftInvitations(call[b].what.target, call[b].what.action)
    BY <2>1 DEF ChangeUser
  <2>2. ASSUME NEW t, NEW action
        PROVE  LET left == LeftInvitations(t, action)
               IN  /\ left = [i \in 1..n |-> left[i]]
                   /\ \A i \in 1..n :
                        \/ left[i] = invitation[i]
                        \/ /\ left[i] = [invitation[i] EXCEPT !.status = "revoked"]
                           /\ invitation[i].status = "unused"
                   /\ \A i \in 1..n :
                        /\ action \in {"ban", "delete"} /\ invitation[i].inviter = t
                        /\ invitation[i].status = "unused"
                        => left[i] = [invitation[i] EXCEPT !.status = "revoked"]
    BY <1>0 DEF LeftInvitations
  <2>3. invitation' = [i \in 1..n |-> invitation'[i]]
    BY <1>1, <2>1, <2>2
  <2>4. ASSUME NEW i \in 1..n
        PROVE  /\ St(invitation'[i]) /\ SameSlot(invitation[i], invitation'[i])
               /\ invitation'[i].status = "unused" => ~Bans(invitation[i].inviter)
    <3> DEFINE revoked == [invitation[i] EXCEPT !.status = "revoked"]
    <3>1. \/ invitation'[i] = invitation[i]
          \/ invitation'[i] = revoked /\ invitation[i].status = "unused"
      BY <1>1, <2>1, <2>2
    <3>2. Bans(invitation[i].inviter) /\ invitation[i].status = "unused" =>
            invitation'[i] = revoked
      BY <2>1, <2>2 DEF Bans
    <3>3. St(invitation[i]) /\ SameSlot(invitation[i], invitation[i])
      BY <1>0 DEF SameSlot
    <3>4. invitation[i].status = "unused" =>
            St(revoked) /\ SameSlot(invitation[i], revoked) /\ revoked.status = "revoked"
      BY <3>3, RevokedStanding DEF St
    <3> HIDE DEF revoked
    <3> QED
      BY <3>1, <3>2, <3>3, <3>4
  <2>5. Len(invitation') = n
    BY <1>0, <2>3, ReplacedEntry
  <2> QED
    BY <2>3, <2>4, <2>5
<1>2. ASSUME NEW k \in 1..n, NEW y, invitation' = [invitation EXCEPT ![k] = y],
             St(y), SameSlot(invitation[k], y), \A u : ~Bans(u)
      PROVE  Goal
  <2>1. /\ Len(invitation') = n /\ invitation' = [i \in 1..n |-> invitation'[i]]
        /\ \A i \in 1..n : invitation'[i] = IF i = k THEN y ELSE invitation[i]
    BY <1>0, <1>2, ReplacedEntry
  <2> QED
    BY <1>0, <1>2, <2>1 DEF SameSlot
<1>3. ASSUME UNCHANGED invitation, \A u : ~Bans(u) PROVE Goal
  BY <1>0, <1>3 DEF SameSlot, n
<1>4. ASSUME \A a \in Users : ~ChangeUser(a) PROVE Goal
  <2>0. \A u : ~Bans(u)
    BY <1>4 DEF Bans
  <2>1. ASSUME NEW k, invitation' = Revoked(k), invitation[k].status = "unused" PROVE Goal
    <3> DEFINE y == [invitation[k] EXCEPT !.status = "revoked"]
    <3>1. invitation' = [invitation EXCEPT ![k] = y]
      BY <2>1 DEF Revoked
    <3>2. CASE k \in 1..n
      <4>1. St(y) /\ SameSlot(invitation[k], y)
        BY <1>0, <2>1, <3>2, RevokedStanding DEF St
      <4> QED
        BY <1>2, <2>0, <3>1, <3>2, <4>1
    <3>3. CASE k \notin 1..n
      <4>1. invitation' = invitation
        BY <1>0, <3>1, <3>3
      <4> QED
        BY <1>3, <2>0, <4>1
    <3> QED
      BY <3>2, <3>3
  <2>2. ASSUME NEW k \in DOMAIN invitation, Expire(k) PROVE Goal
    <3> DEFINE y == [invitation[k] EXCEPT !.expired = TRUE]
    <3>1. invitation' = [invitation EXCEPT ![k] = y] /\ k \in 1..n
      BY <1>0, <2>2 DEF Expire
    <3>2. St(y) /\ SameSlot(invitation[k], y)
      BY <1>0, <3>1, ExpiredStanding DEF St
    <3> QED
      BY <1>2, <2>0, <3>1, <3>2
  <2>3. ASSUME NEW v \in Visitors, NEW u \in Users, Register(v, u) PROVE Goal
    <3> DEFINE k == visit[v]
               documents == history["registration"]
               y == Redeemed(invitation[k], u)
    <3>1. /\ invitation' = [invitation EXCEPT ![k] = y]
          /\ invitation[k].status = "unused" /\ invitation[k].epoch = epoch
      BY <2>3 DEF Register, Rechecked, Redeemable
    <3>2. CASE k \in 1..n
      <4>1. Len(documents) \in Nat
        BY DEF ConfigInv, HistoryInv, Namespaces
      <4>2. St(y) /\ SameSlot(invitation[k], y)
        BY <1>0, <3>1, <3>2, <4>1, UsedStanding DEF St, Redeemed, Revision
      <4> QED
        BY <1>2, <2>0, <3>1, <3>2, <4>2
    <3>3. CASE k \notin 1..n
      <4>1. invitation' = invitation
        BY <1>0, <3>1, <3>3
      <4> QED
        BY <1>3, <2>0, <4>1
    <3> QED
      BY <3>2, <3>3
  <2>4. \/ UNCHANGED invitation
        \/ \E k : invitation' = Revoked(k) /\ invitation[k].status = "unused"
        \/ \E k \in DOMAIN invitation : Expire(k)
        \/ \E v \in Visitors, u \in Users : Register(v, u)
    <3>1. ASSUME NEW a \in Users, Publishing(a) PROVE UNCHANGED invitation
      BY <3>1 DEF Publishing, invVars
    <3>2. ASSUME NEW a \in Users, Managing(a)
          PROVE  \/ UNCHANGED invitation
                 \/ \E k : invitation' = Revoked(k) /\ invitation[k].status = "unused"
      BY <1>4, <3>2 DEF Managing, BeginRevoke, AdminRevokeInvitation, AdminCreate, invVars
    <3>3. ASSUME NEW u \in Users, Inviting(u)
          PROVE  \/ UNCHANGED invitation
                 \/ \E k : invitation' = Revoked(k) /\ invitation[k].status = "unused"
      BY <3>3 DEF Inviting, RevokeInvitation, invVars
    <3>4. ASSUME NEW v \in Visitors, Joining(v)
          PROVE  UNCHANGED invitation \/ \E u \in Users : Register(v, u)
      BY <3>4 DEF Joining, ValidateInvitation, GiveUp
    <3>5. ASSUME Refreshing \/ (\E room \in BOOLEAN : RestartAll(room)) \/ Tick \/ UNCHANGED vars
          PROVE  UNCHANGED invitation
      BY <3>5 DEF Refreshing, RestartAll, Tick, vars, invVars
    <3>6. \/ \E a \in Users : Publishing(a) \/ Managing(a) \/ Inviting(a)
          \/ \E v \in Visitors : Joining(v)
          \/ Refreshing \/ (\E room \in BOOLEAN : RestartAll(room)) \/ Tick \/ UNCHANGED vars
          \/ \E k \in DOMAIN invitation : Expire(k)
      BY Zenon DEF Next
    <3> QED
      BY <3>1, <3>2, <3>3, <3>4, <3>5, <3>6, Zenon
  <2> QED
    BY <1>3, <2>0, <2>1, <2>2, <2>3, <2>4
<1>5. Goal
  BY <1>1, <1>4
<1> QED
  BY <1>5 DEF n, St

\* A new invitation takes a slot of its month that is free.
LEMMA CreateStep ==
  ASSUME AccountInv, ConfigInv, InvitationInv, NEW u \in Users, NEW request,
         CreateInvitation(u, request)
  PROVE  InvitationInv'
<1> DEFINE n == Len(invitation)
           documents == history["registration"]
<1>0. /\ n \in Nat /\ invitation = [i \in 1..n |-> invitation[i]]
      /\ \A i \in 1..n : Standing(invitation[i], account, epoch, documents)
      /\ SlotsDistinct
  BY DEF InvitationInv
<1>1. PICK slot \in (1..MonthlyLimit) \ Occupied(u) :
        invitation' = Append(invitation,
            [inviter |-> u, request |-> request, month |-> now, slot |-> slot, epoch |-> epoch,
             status |-> "unused", expired |-> FALSE, users |-> {}, bans |-> account[u].bans,
             given |-> Len(documents), taken |-> 0, bansThen |-> 0])
  BY DEF CreateInvitation, Revision
<1> DEFINE x == [inviter |-> u, request |-> request, month |-> now, slot |-> slot, epoch |-> epoch,
                 status |-> "unused", expired |-> FALSE, users |-> {}, bans |-> account[u].bans,
                 given |-> Len(documents), taken |-> 0, bansThen |-> 0]
<1>2. /\ x.inviter = u /\ x.month = now /\ x.slot = slot /\ x.epoch = epoch
      /\ x.status = "unused" /\ x.users = {} /\ x.bans = account[u].bans
      /\ x.given = Len(documents) /\ x.taken = 0
      /\ DOMAIN x = {"inviter", "request", "month", "slot", "epoch", "status", "expired", "users",
                     "bans", "given", "taken", "bansThen"}
  OBVIOUS
<1>3. /\ account[u].status # "absent" /\ documents[Len(documents)].value = "open"
      /\ UNCHANGED <<account, epoch, history>>
  BY DEF CreateInvitation, RequireUserTx, EnabledTx, Current, siteVars, storeVars
<1>4. Len(documents) \in Nat /\ Len(documents) > 0 /\ epoch \in Nat /\ now \in Nat
  BY Bounds DEF ConfigInv, HistoryInv, RuntimeInv, AccountInv, Namespaces
<1>5. invitation' = Append(invitation, x)
  BY <1>1
<1> HIDE DEF x
<1>6. Standing(x, account, epoch, documents)
  <2>1. IsInvitation(x)
    BY <1>2, <1>4 DEF IsInvitation
  <2> QED
    BY <1>2, <1>3, <1>4, <2>1 DEF Standing
<1>7. /\ Len(invitation') = n + 1 /\ invitation' = [i \in 1..(n + 1) |-> invitation'[i]]
      /\ invitation'[n + 1] = x /\ \A i \in 1..n : invitation'[i] = invitation[i]
  <2> HIDE DEF n
  <2>1. LET t == Append(invitation, x)
        IN  /\ Len(t) = n + 1 /\ t = [i \in 1..(n + 1) |-> t[i]] /\ t[n + 1] = x
            /\ \A i \in 1..n : t[i] = invitation[i]
    BY <1>0, AppendedEntry
  <2> QED
    BY <1>5, <2>1, Zenon
<1>8. ASSUME NEW i \in 1..n, invitation[i].inviter = u, invitation[i].month = now
      PROVE  invitation[i].slot # slot
  <2>1. i \in DOMAIN invitation
    BY <1>0
  <2> QED
    BY <1>1, <1>8, <2>1 DEF Occupied
<1>9. SlotsDistinct'
  <2> SUFFICES ASSUME NEW i \in 1..(n + 1), NEW j \in 1..(n + 1), i # j,
                      invitation'[i].inviter = invitation'[j].inviter,
                      invitation'[i].month = invitation'[j].month
               PROVE  invitation'[i].slot # invitation'[j].slot
    BY <1>7 DEF SlotsDistinct
  <2>1. CASE i \in 1..n /\ j \in 1..n
    BY <1>0, <1>7, <2>1 DEF SlotsDistinct
  <2>2. CASE i = n + 1 /\ j \in 1..n
    BY <1>2, <1>7, <1>8, <2>2
  <2>3. CASE j = n + 1 /\ i \in 1..n
    BY <1>2, <1>7, <1>8, <2>3
  <2> QED
    BY <1>0, <2>1, <2>2, <2>3
<1>10. ASSUME NEW i \in 1..(n + 1)
       PROVE  Standing(invitation'[i], account', epoch', history'["registration"])
  BY <1>0, <1>3, <1>6, <1>7
<1> QED
  BY <1>0, <1>7, <1>9, <1>10 DEF InvitationInv

LEMMA InvitationStep ==
  AccountInv /\ ConfigInv /\ InvitationInv /\ [Next]_vars => InvitationInv'
<1> SUFFICES ASSUME AccountInv, ConfigInv, InvitationInv, [Next]_vars PROVE InvitationInv'
  OBVIOUS
<1>1. CASE \E u \in Users, request \in Requests : CreateInvitation(u, request)
  BY <1>1, CreateStep
<1>2. CASE ~ \E u \in Users, request \in Requests : CreateInvitation(u, request)
  <2> DEFINE n == Len(invitation)
  <2>1. /\ Len(invitation') = n /\ invitation' = [i \in 1..n |-> invitation'[i]]
        /\ \A i \in 1..n :
             /\ Standing(invitation'[i], account, epoch, history["registration"])
             /\ SameSlot(invitation[i], invitation'[i])
             /\ invitation'[i].status = "unused" => ~Bans(invitation[i].inviter)
    BY <1>2, EntriesMove
  <2>2. ASSUME NEW i \in 1..n
        PROVE  Standing(invitation'[i], account', epoch', history'["registration"])
    BY <2>1, StandingKept DEF SameSlot
  <2>3. SlotsDistinct'
    BY <2>1 DEF SlotsDistinct, SameSlot, InvitationInv
  <2> QED
    BY <2>1, <2>2, <2>3 DEF InvitationInv
<1> QED
  BY <1>1, <1>2

\* The invariant of the whole: accounts, the configuration and invitations.
SiteInv == AccountInv /\ ConfigInv /\ InvitationInv

LEMMA SiteInvariance == Spec => []SiteInv
<1>1. Init => InvitationInv
  BY DEF Init, InvitationInv, SlotsDistinct
<1>2. SiteInv /\ [Next]_vars => SiteInv'
  BY AccountStep, ConfigStep, InvitationStep DEF SiteInv
<1> QED
  BY <1>1, <1>2, AccountInit, ConfigInit, PTL DEF Spec, SiteInv

\* Publications, rollbacks, retries, refreshes, faults and restarts in any order: what is published
\* can always be loaded, the process runs one whole generation, and an answer names a revision
\* that holds what was asked and is in force, or says that it is stale (Publish, Rollback,
\* Refresh).
THEOREM ConfigurationIsSound == Spec => []ConfigurationSound
<1>1. SiteInv => ConfigurationSound
  <2> SUFFICES ASSUME SiteInv PROVE ConfigurationSound
    OBVIOUS
  <2>1. \A ns \in Namespaces : DOMAIN history[ns] = 1..Len(history[ns])
    BY DEF SiteInv, ConfigInv, HistoryInv
  <2>2. TypeOK
    <3>1. ASSUME NEW u \in Users
          PROVE  /\ account[u].status \in {"absent", "active", "banned", "deleted"}
                 /\ account[u].revision \in 0..MaxRevision
                 /\ account[u].status # "absent" => account[u].version > account[u].hash
      BY DEF SiteInv, AccountInv, IsAccount
    <3>2. generation \in 1..MaxGeneration /\ epoch \in 1..generation /\ generation = Len(versions)
      BY DEF SiteInv, ConfigInv, RuntimeInv
    <3>3. \A ns \in Namespaces : \A r \in DOMAIN history[ns] : history[ns][r].value \in Registry[ns]
      BY <2>1 DEF SiteInv, ConfigInv, HistoryInv
    <3>4. \A i \in DOMAIN invitation : invitation[i].status \in {"unused", "used", "revoked"}
      <4>1. DOMAIN invitation = 1..Len(invitation)
        BY DEF SiteInv, InvitationInv
      <4> QED
        BY <4>1 DEF SiteInv, InvitationInv, Standing, IsInvitation
    <3>5. \A u \in Users : account[u].status \in {"absent", "active", "banned", "deleted"}
                           /\ account[u].revision \in 0..MaxRevision
                           /\ (account[u].status # "absent" => account[u].version > account[u].hash)
      BY <3>1, Zenon
    <3> QED
      BY <3>2, <3>3, <3>4, <3>5, Zenon DEF TypeOK
  <2>3. AlwaysLoadable /\ OneGeneration
    BY DEF SiteInv, ConfigInv, HistoryInv, RuntimeInv, AlwaysLoadable, OneGeneration
  <2>4. AnswersTrue
    BY <2>1 DEF SiteInv, ConfigInv, HistoryInv, CallInv, Committed, AnswersTrue
  <2>5. InForceWhenAnswered
    BY DEF SiteInv, ConfigInv, CallInv, InForceWhenAnswered
  <2> QED
    BY <2>2, <2>3, <2>4, <2>5 DEF ConfigurationSound
<1> QED
  BY <1>1, SiteInvariance, PTL

\* Invitations, registrations, publications and bans in any order: an invitation makes at most one
\* account, only while registration has stayed open and its giver unbanned since it was given,
\* and nobody gives more than the monthly limit (CreateInvitation, Register).
THEOREM InvitationsAreSound == Spec => []InvitationsSound
<1>1. SiteInv => InvitationsSound
  <2> SUFFICES ASSUME SiteInv PROVE InvitationsSound
    OBVIOUS
  <2> DEFINE n == Len(invitation)
  <2>1. /\ n \in Nat /\ DOMAIN invitation = 1..n /\ SlotsDistinct
        /\ \A i \in 1..n : Standing(invitation[i], account, epoch, history["registration"])
    BY DEF SiteInv, InvitationInv
  <2>2. OpenThroughout /\ InviterInGoodStanding
    BY <2>1 DEF Standing, OpenThroughout, InviterInGoodStanding
  <2>3. UsedOnce
    <3> SUFFICES ASSUME NEW i \in 1..n PROVE Cardinality(invitation[i].users) <= 1
      BY <2>1 DEF UsedOnce
    <3>1. invitation[i].users = {} \/ \E u \in Users : invitation[i].users = {u}
      BY <2>1 DEF Standing
    <3>2. Cardinality(invitation[i].users) \in {0, 1}
      BY <3>1, FS_EmptySet, FS_Singleton, Zenon
    <3> QED
      BY <3>2
  <2>4. QuotaKept
    <3> SUFFICES ASSUME NEW u \in Users, NEW m \in 0..MaxTime
                 PROVE  Cardinality({i \in DOMAIN invitation :
                          invitation[i].inviter = u /\ invitation[i].month = m}) <= MonthlyLimit
      BY DEF QuotaKept
    <3> DEFINE G == {i \in DOMAIN invitation :
                       invitation[i].inviter = u /\ invitation[i].month = m}
               f == [i \in G |-> invitation[i].slot]
    <3>1. f \in [G -> 1..MonthlyLimit]
      BY <2>1 DEF Standing, IsInvitation
    <3>2. \A i, j \in G : f[i] = f[j] => i = j
      BY <2>1 DEF SlotsDistinct
    <3>3. f \in Injection(G, 1..MonthlyLimit)
      BY <3>1, <3>2 DEF Injection, IsInjective
    <3>4. IsFiniteSet(1..MonthlyLimit) /\ Cardinality(1..MonthlyLimit) = MonthlyLimit
      BY Bounds, FS_Interval
    <3> HIDE DEF f, G
    <3>5. Cardinality(G) <= MonthlyLimit
      BY <3>3, <3>4, FS_Injection
    <3> QED
      BY <3>5 DEF G
  <2> QED
    BY <2>2, <2>3, <2>4 DEF InvitationsSound
<1> QED
  BY <1>1, SiteInvariance, PTL

\* Whatever an administrator's call stores was authorized by his account as the transaction found
\* it: an active administrator, with the password he proved before (configAuthorization,
\* AdminChange, AdminRevokeInvitation).
THEOREM OnlyAdminsAct == Spec => ActsOnlyAsAdmin
<1> DEFINE Acts(a) ==
             (/\ call[a].pc = "verified" /\ call'[a].pc # "verified"
              /\ <<history, account, invitation>>' # <<history, account, invitation>>)
             => /\ account[a].status = "active" /\ account[a].admin /\ ~account[a].must
                /\ account[a].hash = call[a].hash
<1>1. SiteInv /\ [Next]_vars => [\A a \in Users : Acts(a)]_vars
  <2> SUFFICES ASSUME SiteInv, Next, NEW a \in Users, call[a].pc = "verified",
                      call'[a].pc # "verified",
                      <<history, account, invitation>>' # <<history, account, invitation>>
               PROVE  Usable(a) /\ account[a].hash = call[a].hash
    BY DEF Usable
  <2>0. call = [b \in Users |-> call[b]]
    BY DEF SiteInv, ConfigInv
  <2>1. ASSUME NEW b \in Users, Authorize(b), call' = [call EXCEPT ![b] = call'[b]]
        PROVE  Usable(a) /\ account[a].hash = call[a].hash
    <3>1. b = a
      BY <2>0, <2>1
    <3> QED
      BY <2>1, <3>1 DEF Authorize
  <2>2. ASSUME NEW b \in Users, Publishing(b) PROVE Usable(a) /\ account[a].hash = call[a].hash
    <3>1. CASE Save(b)
      <4>1. Authorize(b) /\ call' = [call EXCEPT ![b] = call'[b]]
        BY <2>0, <3>1 DEF Save, Ready
      <4> QED
        BY <2>1, <4>1
    <3>2. CASE ~Save(b)
      <4>1. UNCHANGED <<history, account, invitation>>
        BY <2>2, <3>2 DEF Publishing, Configure, BeginPublish, Refuse, Replay, Answer, Forget,
                          storeVars, invVars
      <4> QED
        BY <4>1
    <3> QED
      BY <3>1, <3>2
  <2>3. ASSUME NEW b \in Users, Managing(b) PROVE Usable(a) /\ account[a].hash = call[a].hash
    <3>1. CASE ChangeUser(b) \/ AdminRevokeInvitation(b)
      <4>1. Authorize(b) /\ call' = [call EXCEPT ![b] = call'[b]]
        BY <2>0, <3>1 DEF ChangeUser, AdminChange, AdminRevokeInvitation
      <4> QED
        BY <2>1, <4>1
    <3>2. CASE \E u \in Users : AdminCreate(b, u)
      BY <3>2 DEF AdminCreate
    <3>3. CASE \E u \in Users, action \in ChangeActions :
                 BeginChange(b, u, action, account[u].revision) /\ UNCHANGED invVars
      BY <3>3 DEF BeginChange, storeVars, invVars
    <3>4. CASE \E i \in DOMAIN invitation : BeginRevoke(b, i)
      BY <3>4 DEF BeginRevoke, storeVars, invVars
    <3> QED
      BY <2>3, <3>1, <3>2, <3>3, <3>4 DEF Managing
  <2>4. ASSUME UNCHANGED call PROVE FALSE
    BY <2>4
  <2>5. ASSUME NEW u \in Users, Inviting(u) PROVE UNCHANGED call
    BY <2>5 DEF Inviting, CreateInvitation, RevokeInvitation, ChangePassword, siteVars
  <2>6. ASSUME NEW v \in Visitors, Joining(v) PROVE UNCHANGED call
    BY <2>6 DEF Joining, ValidateInvitation, Register, GiveUp, siteVars
  <2>7. ASSUME Refreshing \/ (\E room \in BOOLEAN : RestartAll(room))
        PROVE  UNCHANGED <<history, account, invitation>>
    BY <2>7 DEF Refreshing, RefreshState, RefreshStore, RefreshFail, RestartAll, Restart,
                storeVars, invVars
  <2>8. ASSUME Tick \/ (\E i \in DOMAIN invitation : Expire(i)) PROVE UNCHANGED call
    BY <2>8 DEF Tick, Expire, siteVars
  <2> QED
    BY <2>2, <2>3, <2>4, <2>5, <2>6, <2>7, <2>8 DEF Next
<1> QED
  BY <1>1, SiteInvariance, PTL DEF Spec, ActsOnlyAsAdmin
=============================================================================
