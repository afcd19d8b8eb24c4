------------------------------ MODULE SiteConfig ------------------------------
(***************************************************************************)
(* Publishing the site's configuration, and the administrators who may.    *)
(*                                                                         *)
(* An administrator's call first verifies his password against an account  *)
(* row read without locks.  Its transaction then locks the runtime state,  *)
(* the namespace and the accounts, and checks the account again.  A        *)
(* publication or rollback is recorded in the history under the client's   *)
(* request id, moves the namespace to its next revision and the site to    *)
(* its next generation; closing the registration also advances its epoch.  *)
(* The handler then refreshes the snapshot this process runs on and        *)
(* answers with how far the revision is applied.  A ticker refreshes it    *)
(* too; refreshMu lets one refresh run at a time.                          *)
(*                                                                         *)
(* A namespace is a document: whether registration is open, and upload     *)
(* limits that are small, or so large that only a roomy deployment         *)
(* (upload_hard_limit_bytes) accepts them.  Module Accounts has what an    *)
(* administrator's change does to sessions and applications.               *)
(***************************************************************************)
EXTENDS Naturals, Sequences, FiniteSets

CONSTANTS Users, Admins, Ticker,
          MaxGeneration, MaxRevision, MaxFaults, MaxRestarts   \* bounds of the model

ASSUME SiteAssumption ==
  /\ Admins \subseteq Users /\ Admins # {} /\ IsFiniteSet(Users) /\ Ticker \notin Users
  /\ {MaxGeneration, MaxRevision} \subseteq Nat \ {0}   \* the import is number 1 of both
  /\ {MaxFaults, MaxRestarts} \subseteq Nat

VARIABLES
  account,    \* user_account
  history,    \* site_config_history by namespace; the last entry is site_config_current
  generation, \* site_runtime_state.config_generation
  epoch,      \* site_runtime_state.registration_epoch
  roomy,      \* the deployment's hard limit admits large uploads
  loaded,     \* the runtime snapshot: its generation, and each namespace's revision and document
  lastError,  \* the last refresh failed
  refresh,    \* the refresh that holds refreshMu: who runs it, and what it has read
  call,       \* each administrator's call between its steps
  faults, restarts,   \* counters for the bounds
  versions    \* history: the snapshot of every generation

storeVars == <<history, generation, epoch, versions>>
processVars == <<roomy, loaded, lastError, refresh, restarts>>
siteVars == <<account, storeVars, processVars, call, faults>>

Namespaces == {"registration", "web_projects"}
Registry == [registration |-> {"open", "closed"}, web_projects |-> {"small", "large"}]

ValidateValues(ns, v) == v \in Registry[ns] /\ (v = "large" => roomy)

Current(ns) == history[ns][Len(history[ns])]
Revision(ns) == Len(history[ns])
EnabledTx == Current("registration").value = "open"

\* BuildRuntimeSnapshot, of what a transaction reads.
Snapshot(gen, hist) ==
  [generation |-> gen, revision |-> [ns \in Namespaces |-> Len(hist[ns])],
   value |-> [ns \in Namespaces |-> hist[ns][Len(hist[ns])].value]]

NoRefresh == [by |-> "nobody"]
NoCall == [pc |-> "idle"]
Absent == [status |-> "absent", admin |-> FALSE, must |-> FALSE, version |-> 0, hash |-> 0,
           revision |-> 0, eligible |-> 0, bans |-> 0]
Imported(u) == [Absent EXCEPT !.status = "active", !.admin = u \in Admins, !.version = 1,
                              !.revision = 1]

\* The import writes revision 1 of every namespace; Initialize loads it.
SiteInit ==
  /\ account = [u \in Users |-> IF u \in Admins THEN Imported(u) ELSE Absent]
  /\ history \in [Namespaces -> {<<[value |-> v, request |-> 0, actor |-> "import",
                                    expected |-> 0, from |-> 0]>> :
                                   v \in UNION {Registry[ns] : ns \in Namespaces}}]
  /\ \A ns \in Namespaces : history[ns][1].value \in Registry[ns]
  /\ generation = 1 /\ epoch = 1 /\ roomy = TRUE
  /\ loaded = Snapshot(1, history) /\ versions = <<loaded>>
  /\ lastError = FALSE /\ refresh = NoRefresh
  /\ call = [a \in Users |-> NoCall] /\ faults = 0 /\ restarts = 0

-----------------------------------------------------------------------------
(* Calls of an administrator *)

\* What AdminChange and the configuration handlers ask of the acting account.
Usable(u) == account[u].status = "active" /\ account[u].admin /\ ~account[u].must
UsableAdmins == {u \in Users : Usable(u)}

\* The session gives the version, VerifyAdminPassword the hash; the row is read without a lock.
VerifyAdminPassword(a, what) ==
  /\ call[a] = NoCall /\ Usable(a)
  /\ call' = [call EXCEPT ![a] = [pc |-> "verified", version |-> account[a].version,
                                  hash |-> account[a].hash, what |-> what]]

AuthorizeOnce(a) == call[a].pc = "verified"

\* configAuthorization's callback, and the check in AdminChange, under the account's lock.
Authorize(a) ==
  /\ Usable(a)
  /\ account[a].version = call[a].version /\ account[a].hash = call[a].hash

\* A transaction fails and rolls back, for any reason.
Refuse(a) ==
  /\ call[a].pc = "verified"
  /\ call' = [call EXCEPT ![a] = NoCall]
  /\ UNCHANGED <<account, storeVars, processVars, faults>>

\* Publish gives a document, Rollback the revision whose document it wants back.
BeginPublish(a, ns, v, from, expected, request) ==
  /\ generation < MaxGeneration
  /\ from = 0 => ValidateValues(ns, v)
  /\ VerifyAdminPassword(a, [kind |-> "publish", namespace |-> ns, value |-> v, from |-> from,
                             expected |-> expected, request |-> request])
  /\ UNCHANGED <<account, storeVars, processVars, faults>>

Candidate(w) == IF w.from = 0 THEN w.value ELSE history[w.namespace][w.from].value

\* checkedValues of a rollback's document, which the deployment may no longer accept.
CandidateChecked(w) ==
  w.from > 0 => w.from \in DOMAIN history[w.namespace] /\ ValidateValues(w.namespace, Candidate(w))

\* The row a publication saves, and what its request hash covers.
Row(a, w) == [value |-> Candidate(w), request |-> w.request, actor |-> a,
              expected |-> w.expected, from |-> w.from]

\* ReadSiteConfigRequest.
Recorded(w) == {r \in DOMAIN history[w.namespace] : history[w.namespace][r].request = w.request}

\* An earlier call with this request id and this content: its result is answered again.
Replayed(a, w, r) == r \in Recorded(w) /\ history[w.namespace][r] = Row(a, w)

Ready(a, w) == w.kind = "publish" /\ Authorize(a) /\ CandidateChecked(w)

Replay(a) ==
  LET w == call[a].what IN
  /\ call[a].pc = "verified" /\ Ready(a, w)
  /\ \E r \in DOMAIN history[w.namespace] :
       /\ Replayed(a, w, r)
       /\ call' = [call EXCEPT ![a] = [pc |-> "committed", row |-> Row(a, w),
                                       namespace |-> w.namespace, revision |-> r]]
  /\ UNCHANGED <<account, storeVars, processVars, faults>>

Closes(ns, v) == ns = "registration" /\ Current(ns).value = "open" /\ v = "closed"

\* The revision the administrator saw is still the current one, and something changes.
Fresh(w) ==
  /\ Recorded(w) = {} /\ Revision(w.namespace) = w.expected
  /\ Candidate(w) # Current(w.namespace).value

\* Closing registration ends every invitation given so far, by publication or by rollback.
NextEpoch(w) == IF Closes(w.namespace, Candidate(w)) THEN epoch + 1 ELSE epoch

\* SaveSiteConfig.
Save(a) ==
  LET w == call[a].what IN
  /\ call[a].pc = "verified" /\ Ready(a, w) /\ Fresh(w) /\ generation < MaxGeneration
  /\ history' = [history EXCEPT ![w.namespace] = Append(@, Row(a, w))]
  /\ generation' = generation + 1
  /\ epoch' = NextEpoch(w)
  /\ versions' = Append(versions, Snapshot(generation', history'))
  /\ call' = [call EXCEPT ![a] = [pc |-> "committed", row |-> Row(a, w),
                                  namespace |-> w.namespace, revision |-> Revision(w.namespace) + 1]]
  /\ UNCHANGED <<account, processVars, faults>>

-----------------------------------------------------------------------------
(* The snapshot this process runs on *)

\* Those who call Refresh: the ticker, and handlers that have committed.
Refreshers == {Ticker} \cup {a \in Users : call[a].pc = "committed"}

RefreshStateUnlessFailed(by) ==
  /\ refresh = NoRefresh /\ by \in Refreshers /\ (by = Ticker => ~lastError)
  /\ refresh' = [by |-> by, generation |-> generation, seen |-> history]
  /\ call' = IF by = Ticker THEN call ELSE [call EXCEPT ![by].pc = "refreshing"]
  /\ UNCHANGED <<account, storeVars, roomy, loaded, lastError, faults, restarts>>

\* The first read of the transaction fixes what it sees; a handler goes on to its refresh.
RefreshState(by) ==
  /\ refresh = NoRefresh /\ by \in Refreshers
  /\ refresh' = [by |-> by, generation |-> generation, seen |-> history]
  /\ call' = IF by = Ticker THEN call ELSE [call EXCEPT ![by].pc = "refreshing"]
  /\ UNCHANGED <<account, storeVars, roomy, loaded, lastError, faults, restarts>>

ReadRowsNow(read) == history

\* The rows of the namespaces, under repeatable read.
ReadRows(read) == read.seen

Refreshed(by, ok) ==
  /\ refresh' = NoRefresh /\ lastError' = ~ok
  /\ call' = IF by = Ticker THEN call ELSE [call EXCEPT ![by].pc = "refreshed"]

\* The snapshot is built of valid documents only, and replaces an older one or the same.
RefreshStore ==
  LET rows == ReadRows(refresh)
      snapshot == Snapshot(refresh.generation, rows)
  IN
  /\ refresh # NoRefresh
  /\ \A ns \in Namespaces : ValidateValues(ns, snapshot.value[ns])
  /\ loaded.generation <= snapshot.generation
  /\ loaded' = snapshot
  /\ Refreshed(refresh.by, TRUE)
  /\ UNCHANGED <<account, storeVars, roomy, faults, restarts>>

\* The database fails it; the last valid snapshot is retained.
RefreshFail ==
  /\ refresh # NoRefresh
  /\ faults < MaxFaults /\ faults' = faults + 1
  /\ Refreshed(refresh.by, FALSE)
  /\ UNCHANGED <<account, storeVars, roomy, loaded, restarts>>

ApplyState(ns, revision) ==
  CASE lastError -> "stale"
    [] ~lastError /\ loaded.revision[ns] >= revision -> "applied"
    [] OTHER -> "pending"

\* view(saved), once Refresh has returned.
Answer(a) ==
  /\ call[a].pc = "refreshed"
  /\ call' = [call EXCEPT ![a] = [pc |-> "answered", row |-> @.row, namespace |-> @.namespace,
                 revision |-> @.revision, state |-> ApplyState(@.namespace, @.revision)]]
  /\ UNCHANGED <<account, storeVars, processVars, faults>>

Forget(a) ==
  /\ call[a].pc = "answered"
  /\ call' = [call EXCEPT ![a] = NoCall]
  /\ UNCHANGED <<account, storeVars, processVars, faults>>

\* A new process, perhaps with another hard limit, serves once Initialize has loaded everything.
Restart(room) ==
  /\ restarts < MaxRestarts /\ restarts' = restarts + 1
  /\ roomy' = room
  /\ \A ns \in Namespaces : Current(ns).value = "large" => room
  /\ loaded' = Snapshot(generation, history) /\ lastError' = FALSE /\ refresh' = NoRefresh
  /\ call' = [a \in Users |-> NoCall]
  /\ UNCHANGED <<account, storeVars, faults>>

-----------------------------------------------------------------------------
(* Accounts *)

ChangeActions == {"ban", "unban", "delete", "promote", "demote", "reset-password", "logout-all"}

BeginChange(a, target, action, revision) ==
  /\ revision \in 1..(MaxRevision - 1)
  /\ VerifyAdminPassword(a, [kind |-> "change", target |-> target, action |-> action,
                             revision |-> revision])
  /\ UNCHANGED <<account, storeVars, processVars, faults>>

\* An administrator never does these to himself.
ByAnother == {"ban", "delete", "promote", "demote", "reset-password"}

LosesAdmin(target, action) ==
  /\ account[target].admin /\ account[target].status = "active"
  /\ action \in {"ban", "delete", "demote"}

MayChangeSelf(a, target, action) ==
  /\ account[target].status \in {"active", "banned"}
  /\ a = target => action \notin ByAnother \ {"reset-password"}
  /\ LosesAdmin(target, action) => Cardinality(UsableAdmins) > 1
  /\ action = "unban" => account[target].status = "banned"

\* adminTransition: what is refused ...
MayChange(a, target, action) ==
  /\ account[target].status \in {"active", "banned"}
  /\ a = target => action \notin ByAnother
  /\ LosesAdmin(target, action) => Cardinality(UsableAdmins) > 1
  /\ action = "unban" => account[target].status = "banned"

\* ... and the account it makes of another one.
Changed(old, action) ==
  [old EXCEPT
     !.status = CASE action = "ban" -> "banned" [] action = "delete" -> "deleted"
                  [] action = "unban" -> "active" [] OTHER -> @,
     !.admin = CASE action = "promote" -> TRUE [] action = "demote" -> FALSE [] OTHER -> @,
     !.version = IF action = "unban" THEN @ ELSE @ + 1,
     !.hash = IF action = "reset-password" THEN @ + 1 ELSE @,
     !.must = @ \/ action = "reset-password",
     !.revision = @ + 1,
     !.bans = IF action \in {"ban", "delete"} THEN @ + 1 ELSE @]

AdminChange(a) ==
  LET w == call[a].what IN
  /\ call[a].pc = "verified" /\ w.kind = "change" /\ Authorize(a)
  /\ account[w.target].revision = w.revision /\ w.revision < MaxRevision
  /\ MayChange(a, w.target, w.action)
  /\ account' = [account EXCEPT ![w.target] = Changed(@, w.action)]
  /\ call' = [call EXCEPT ![a] = NoCall]
  /\ UNCHANGED <<storeVars, processVars, faults>>

Repassworded(old) ==
  [old EXCEPT !.hash = @ + 1, !.must = FALSE, !.version = @ + 1, !.revision = @ + 1]

\* The owner of an account, also with a temporary password, sets a new one.
ChangePassword(u) ==
  /\ account[u].status = "active" /\ account[u].revision < MaxRevision
  /\ account' = [account EXCEPT ![u] = Repassworded(@)]
  /\ UNCHANGED <<storeVars, processVars, call, faults>>
=============================================================================
