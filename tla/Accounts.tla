------------------------------ MODULE Accounts ------------------------------
(***************************************************************************)
(* One account and everything that authenticates as it: its password, the  *)
(* login sessions (web and legacy entry), its applications (access key and *)
(* secret) and their access tokens, in database identity mode.             *)
(*                                                                         *)
(* Every write is a transaction that locks the account's row first, so it  *)
(* is one step.  What a request read before its transaction (the password  *)
(* check, the middleware's session check, the application row it edits, a  *)
(* token's application) is a step of its own, and anything may happen      *)
(* between the two.  Requests may be refused or lost at any point.         *)
(*                                                                         *)
(* Sessions are numbered in the order they are issued.  Both create_time   *)
(* and the id of GenInt64ID are drawn under the row lock, so this is the   *)
(* order "create_time ASC, id ASC".  0 stands for NULL and for "no number".*)
(* The auth.applications_enabled switch only refuses more requests, as     *)
(* Finish may anyway.                                                     *)
(***************************************************************************)
EXTENDS Integers, FiniteSets, FiniteSetsExt

CONSTANTS Requests, Apps, None,
          Requested,        \* scope sets owners ask for
          Grants,           \* permissions administrators grant, as scope sets
          Limits,           \* values of account_policy.max_active_sessions
          MaxApps,          \* auth.max_applications_per_user
          SessionTTL, RestrictedTTL, TemporaryTTL, TokenTTL, CredentialTTL,
          \* bounds of the model
          MaxSession, MaxToken, MaxVersion, MaxHash, MaxRevision, MaxTime

\* Scopes that depend on a permission of the account, by the permission.
Library == {"library:read", "library:write"}
WebDAV  == {"webdav:read", "webdav:write"}
Gated   == Library \cup WebDAV

ASSUME AccountsAssumption ==
  /\ {MaxApps, SessionTTL, RestrictedTTL, TemporaryTTL, TokenTTL, CredentialTTL,
      MaxSession, MaxToken, MaxVersion, MaxHash, MaxRevision, MaxTime} \subseteq Nat \ {0}
  /\ Limits \subseteq Nat \ {0} /\ Limits # {}
  /\ Grants \subseteq {Library, {"webdav:read"}, WebDAV}
  /\ None \notin Apps

Sessions == 1..MaxSession
Tokens   == 1..MaxToken

VARIABLES
  \* user_account
  status, must, pwExpires, ver, hash, granted,
  password,     \* the password itself; hash changes without it when it is upgraded
  limit,        \* max_active_sessions in force
  \* login_token
  sstate, sver, spurpose, sexpire, nextS,
  vouched,      \* history: what the session's login had verified
  app, token, nextT,   \* application, application_access_token
  \* requests between their steps
  pc, op,
  rver,         \* the auth_version a request goes on with
  proof,        \* the hash a password was checked against, that password
                \* (history) and whether to upgrade the hash
  cred,         \* the session or token presented; valid (history): it was valid
                \* when its row, or its application's, was read
  work,         \* an application as read or edited, the revision it must still
                \* have, and a time read with it
  now

accountVars == <<status, must, pwExpires, ver, hash, granted, password>>
sessionVars == <<sstate, sver, spurpose, sexpire, nextS, vouched>>
tokenVars   == <<token, nextT>>
reqVars     == <<pc, op, rver, proof, cred, work>>
vars == <<accountVars, limit, sessionVars, app, tokenVars, reqVars, now>>

NoApp   == [status |-> "none", slot |-> 0, rev |-> 0, secret |-> 0,
            scopes |-> {}, expires |-> 0]
NoToken == [app |-> None, rev |-> 0, secret |-> 0, scopes |-> {}, expires |-> 0]

NoProof == [hash |-> 0, pw |-> 0, upgrade |-> FALSE]
NoCred  == [id |-> 0, valid |-> FALSE]
NoWork  == [app |-> None, row |-> NoApp, rev |-> 0, time |-> 0]

-----------------------------------------------------------------------------
(***************************************************************************)
(* What is accepted.                                                       *)
(***************************************************************************)

\* A temporary password is good until password_expires_at.
PasswordInTime == must => pwExpires > now

\* sessionUsableAt and activeSessionQuery.
Usable(s) ==
  /\ status = "active"
  /\ sstate[s] = "live"
  /\ sver[s] = ver
  /\ sexpire[s] > now
  /\ IF spurpose[s] = "user" THEN ~must ELSE pwExpires > now

UsableSessions == {s \in Sessions : Usable(s)}

\* The routes a password-change session may use.
AllowPasswordChange(route) == route \in {"password", "logout"}

\* ValidateApplicationScopes
OwnerAllows(scopes) == status = "active" /\ ~must /\ scopes \cap Gated \subseteq granted

\* A token as AuthenticateToken would find it if all its reads were one.
TokenValid(t) ==
  LET x == token[t] IN
  /\ x.app \in Apps
  /\ x.expires > now
  /\ app[x.app].status = "enabled"
  /\ app[x.app].expires > now
  /\ app[x.app].rev = x.rev
  /\ app[x.app].secret = x.secret
  /\ app[x.app].scopes = x.scopes
  /\ OwnerAllows(x.scopes)

-----------------------------------------------------------------------------
\* An account made by AdminCreate (temporary password) or by Register.
Init ==
  /\ status = "active"
  /\ must \in BOOLEAN
  /\ pwExpires = IF must THEN TemporaryTTL ELSE 0
  /\ ver = 1 /\ hash = 1 /\ password = 1
  /\ granted = {}
  /\ limit \in Limits
  /\ sstate = [s \in Sessions |-> "none"]
  /\ sver = [s \in Sessions |-> 0]
  /\ spurpose = [s \in Sessions |-> "user"]
  /\ sexpire = [s \in Sessions |-> 0]
  /\ nextS = 1
  /\ vouched = [s \in Sessions |-> [ver |-> 0, pw |-> 0]]
  /\ app = [a \in Apps |-> NoApp]
  /\ token = [t \in Tokens |-> NoToken]
  /\ nextT = 1
  /\ pc = [r \in Requests |-> "idle"]
  /\ op = [r \in Requests |-> "none"]
  /\ rver = [r \in Requests |-> 0]
  /\ proof = [r \in Requests |-> NoProof]
  /\ cred = [r \in Requests |-> NoCred]
  /\ work = [r \in Requests |-> NoWork]
  /\ now = 0

\* What ends a request, committed or not.
End(r) ==
  /\ pc' = [pc EXCEPT ![r] = "idle"]
  /\ op' = [op EXCEPT ![r] = "none"]
  /\ rver' = [rver EXCEPT ![r] = 0]
  /\ proof' = [proof EXCEPT ![r] = NoProof]
  /\ cred' = [cred EXCEPT ![r] = NoCred]
  /\ work' = [work EXCEPT ![r] = NoWork]

\* The request ends without a commit (any error, timeout, failed check or crash),
\* or with the reply to one.
Finish(r) ==
  /\ pc[r] # "idle"
  /\ End(r)
  /\ UNCHANGED <<accountVars, limit, sessionVars, app, tokenVars, now>>

(***************************************************************************)
(* Logging in.                                                             *)
(***************************************************************************)

\* Authenticate with the right password, from Login ("login") or from the
\* legacy RSA entry ("issue").  Login also decides whether the hash is below
\* the bcrypt cost of the policy, which may change at any time.
Authenticate(r, entry, upgrade) ==
  /\ pc[r] = "idle"
  /\ status = "active" /\ PasswordInTime
  /\ upgrade => entry = "login"
  /\ pc' = [pc EXCEPT ![r] = "verified"]
  /\ op' = [op EXCEPT ![r] = entry]
  /\ rver' = [rver EXCEPT ![r] = ver]
  /\ proof' = [proof EXCEPT ![r] = [hash |-> hash, pw |-> password, upgrade |-> upgrade]]
  /\ UNCHANGED <<cred, work, accountVars, limit, sessionVars, app, tokenVars, now>>

StillVouchedIgnoringVersion(r) ==
  /\ status = "active" /\ PasswordInTime
  /\ op[r] = "login" => proof[r].hash = hash

\* The recheck behind the row lock in Login and IssueVerifiedSession.
StillVouched(r) ==
  /\ status = "active" /\ PasswordInTime
  /\ rver[r] = ver
  /\ op[r] = "login" => proof[r].hash = hash

EvictedOffByOne(active) ==
  {s \in active : Cardinality({x \in active : x <= s}) <= Cardinality(active) - limit}

\* The oldest sessions a login replaces: ids[0 .. len(active) - limit].
Evicted(active) ==
  {s \in active : Cardinality({x \in active : x <= s}) <= Cardinality(active) - limit + 1}

\* issueSessionTx and the transaction around it.
IssueSession(r) ==
  LET gone == Evicted(UsableSessions) IN
  /\ pc[r] = "verified" /\ op[r] \in {"login", "issue"}
  /\ StillVouched(r)
  /\ nextS <= MaxSession
  /\ proof[r].upgrade => hash < MaxHash
  /\ hash' = IF proof[r].upgrade THEN hash + 1 ELSE hash
  /\ sstate' = [s \in Sessions |-> IF s = nextS THEN "live"
                                   ELSE IF s \in gone THEN "revoked" ELSE sstate[s]]
  /\ sver' = [sver EXCEPT ![nextS] = ver]
  /\ spurpose' = [spurpose EXCEPT ![nextS] = IF must THEN "password_change" ELSE "user"]
  /\ sexpire' = [sexpire EXCEPT ![nextS] = now + IF must THEN RestrictedTTL ELSE SessionTTL]
  /\ vouched' = [vouched EXCEPT ![nextS] = [ver |-> rver[r], pw |-> proof[r].pw]]
  /\ nextS' = nextS + 1
  /\ End(r)
  /\ UNCHANGED <<status, must, pwExpires, ver, granted, password, limit, app, tokenVars, now>>

(***************************************************************************)
(* Requests that present a session.                                        *)
(***************************************************************************)

\* CheckSession reads the session's row ...
ReadSession(r, s, route) ==
  /\ pc[r] = "idle"
  /\ sstate[s] = "live" /\ sexpire[s] > now
  /\ pc' = [pc EXCEPT ![r] = "session"]
  /\ op' = [op EXCEPT ![r] = route]
  /\ cred' = [cred EXCEPT ![r] = [id |-> s, valid |-> Usable(s)]]
  /\ UNCHANGED <<rver, proof, work, accountVars, limit, sessionVars, app, tokenVars, now>>

\* ... and then the account; is_expired is the one read before.
SessionMatches(s, allow) ==
  /\ status = "active" /\ sexpire[s] > now
  /\ sver[s] = ver
  /\ IF must \/ spurpose[s] = "password_change"
     THEN allow /\ IF spurpose[s] = "user" THEN ~must ELSE pwExpires > now
     ELSE spurpose[s] = "user"

CheckSession(r) ==
  /\ pc[r] = "session"
  /\ SessionMatches(cred[r].id, AllowPasswordChange(op[r]))
  /\ pc' = [pc EXCEPT ![r] = "checked"]
  /\ rver' = [rver EXCEPT ![r] = ver]
  /\ UNCHANGED <<op, proof, cred, work, accountVars, limit, sessionVars, app, tokenVars, now>>

\* Logout revokes by token digest, whatever became of the session meanwhile.
Logout(r) ==
  /\ pc[r] = "checked" /\ op[r] = "logout"
  /\ sstate' = [sstate EXCEPT ![cred[r].id] = "revoked"]
  /\ End(r)
  /\ UNCHANGED <<accountVars, limit, sver, spurpose, sexpire, nextS, vouched, app,
                 tokenVars, now>>

\* actingSessionTx: the acting session is rechecked behind its row lock.
Acting(s) == Usable(s) /\ ~must /\ spurpose[s] = "user"

\* RevokeSessions: the listed sessions that are still usable.
RevokeSessions(s, S) ==
  /\ Acting(s) /\ s \notin S
  /\ \A x \in S : sstate[x] # "none"
  /\ S \cap UsableSessions # {}
  /\ sstate' = [x \in Sessions |-> IF x \in S /\ Usable(x) THEN "revoked" ELSE sstate[x]]
  /\ UNCHANGED <<accountVars, limit, sver, spurpose, sexpire, nextS, vouched, app,
                 tokenVars, reqVars, now>>

\* RevokeOtherSessions
RevokeOtherSessions(s) ==
  /\ Acting(s)
  /\ UsableSessions # {s}
  /\ sstate' = [x \in Sessions |-> IF x # s /\ Usable(x) THEN "revoked" ELSE sstate[x]]
  /\ UNCHANGED <<accountVars, limit, sver, spurpose, sexpire, nextS, vouched, app,
                 tokenVars, reqVars, now>>

-----------------------------------------------------------------------------
(***************************************************************************)
(* Changes of the account.  Each withdraws what the applications may do in *)
(* the same transaction.                                                   *)
(***************************************************************************)

\* suspendApplicationsTx on one application.
Suspend(x, revoke) ==
  IF x.status \notin {"enabled", "disabled"} THEN x
  ELSE [status |-> IF revoke THEN "revoked" ELSE "disabled",
        slot |-> IF revoke THEN 0 ELSE x.slot,
        rev |-> x.rev + 1, secret |-> x.secret, scopes |-> x.scopes, expires |-> x.expires]

\* removeScopesTx on one application, revoked ones included.
RemoveScopes(x, S) ==
  IF x.scopes \cap S = {} THEN x
  ELSE [status |-> x.status, slot |-> x.slot, rev |-> x.rev + 1, secret |-> x.secret,
        scopes |-> x.scopes \ S, expires |-> x.expires]

\* The revision bound of the model: two bumps are the most a change makes.
RevisionsLeft == \A a \in Apps : app[a].rev + 2 <= MaxRevision

\* ChangePassword: GetByID and VerifyPassword against the hash read now.
VerifyCurrent(r) ==
  /\ pc[r] = "checked" /\ op[r] = "password"
  /\ pc' = [pc EXCEPT ![r] = "verified"]
  /\ proof' = [proof EXCEPT ![r] = [hash |-> hash, pw |-> password, upgrade |-> FALSE]]
  /\ UNCHANGED <<op, rver, cred, work, accountVars, limit, sessionVars, app, tokenVars, now>>

\* ChangePassword: the transaction.
ChangePassword(r) ==
  /\ pc[r] = "verified" /\ op[r] = "password"
  /\ status = "active" /\ ver = rver[r] /\ hash = proof[r].hash /\ PasswordInTime
  /\ ver < MaxVersion /\ hash < MaxHash /\ RevisionsLeft
  /\ hash' = hash + 1 /\ password' = password + 1
  /\ must' = FALSE /\ pwExpires' = 0
  /\ ver' = ver + 1
  /\ app' = [a \in Apps |-> Suspend(app[a], FALSE)]
  /\ End(r)
  /\ UNCHANGED <<status, granted, limit, sessionVars, tokenVars, now>>

\* LogoutAll by the user.
LogoutAll(r) ==
  /\ pc[r] = "checked" /\ op[r] = "logout-all"
  /\ status = "active" /\ ~must /\ ver = rver[r]
  /\ ver < MaxVersion /\ RevisionsLeft
  /\ ver' = ver + 1
  /\ app' = [a \in Apps |-> Suspend(app[a], FALSE)]
  /\ End(r)
  /\ UNCHANGED <<status, must, pwExpires, hash, granted, password, limit, sessionVars,
                 tokenVars, now>>

\* adminTransition "ban" and "delete", by another administrator.
Ban(delete) ==
  /\ status # "deleted"
  /\ ver < MaxVersion /\ RevisionsLeft
  /\ status' = IF delete THEN "deleted" ELSE "banned"
  /\ ver' = ver + 1
  /\ granted' = {}
  /\ app' = [a \in Apps |-> RemoveScopes(Suspend(app[a], delete), Gated)]
  /\ UNCHANGED <<must, pwExpires, hash, password, limit, sessionVars, tokenVars, reqVars, now>>

\* adminTransition "unban"
Unban ==
  /\ status = "banned"
  /\ status' = "active"
  /\ UNCHANGED <<must, pwExpires, ver, hash, granted, password, limit, sessionVars, app,
                 tokenVars, reqVars, now>>

\* adminTransition "role": only the sessions end.
ChangeRole ==
  /\ status # "deleted" /\ ver < MaxVersion
  /\ ver' = ver + 1
  /\ UNCHANGED <<status, must, pwExpires, hash, granted, password, limit, sessionVars, app,
                 tokenVars, reqVars, now>>

\* "library-permission" (P = Library) and "webdav-permission" (P = WebDAV):
\* kept is what the account may do with P from now on.
SetPermission(P, kept) ==
  /\ status # "deleted" /\ RevisionsLeft
  /\ granted' = (granted \ P) \cup kept
  /\ app' = [a \in Apps |-> RemoveScopes(app[a], P \ kept)]
  /\ UNCHANGED <<status, must, pwExpires, ver, hash, password, limit, sessionVars,
                 tokenVars, reqVars, now>>

\* adminTransition "logout-all" and "reset-password".
AdminLogoutAll ==
  /\ status # "deleted" /\ ver < MaxVersion /\ RevisionsLeft
  /\ ver' = ver + 1
  /\ app' = [a \in Apps |-> Suspend(app[a], FALSE)]
  /\ UNCHANGED <<status, must, pwExpires, hash, granted, password, limit, sessionVars,
                 tokenVars, reqVars, now>>

ResetPassword ==
  /\ status # "deleted" /\ ver < MaxVersion /\ hash < MaxHash /\ RevisionsLeft
  /\ ver' = ver + 1
  /\ hash' = hash + 1 /\ password' = password + 1
  /\ must' = TRUE /\ pwExpires' = now + TemporaryTTL
  /\ granted' = {}
  /\ app' = [a \in Apps |-> RemoveScopes(Suspend(app[a], FALSE), Gated)]
  /\ UNCHANGED <<status, limit, sessionVars, tokenVars, reqVars, now>>

-----------------------------------------------------------------------------
(***************************************************************************)
(* Applications, by the owner's session.                                   *)
(***************************************************************************)

\* LockApplicationOwnerTx: the version of the request's session and the scopes
\* the row will have.
OwnerLocked(r, scopes) == rver[r] = ver /\ OwnerAllows(scopes)

SlotsInUse == {app[a].slot : a \in Apps} \ {0}

\* allocateApplicationSlot
FreeSlot == Min((1..MaxApps) \ SlotsInUse)

\* Repository.Create; the credential's lifetime is counted from now.
CreateApplication(r, a, scopes) ==
  /\ pc[r] = "checked" /\ op[r] = "application"
  /\ app[a] = NoApp
  /\ OwnerLocked(r, scopes)
  /\ Cardinality(SlotsInUse) < MaxApps
  /\ app' = [app EXCEPT ![a] = [status |-> "enabled", slot |-> FreeSlot, rev |-> 1,
                                secret |-> 1, scopes |-> scopes,
                                expires |-> now + CredentialTTL]]
  /\ End(r)
  /\ UNCHANGED <<accountVars, limit, sessionVars, tokenVars, now>>

UpdatesKeepingRevision(x) ==
  {[status |-> st, slot |-> x.slot, rev |-> x.rev, secret |-> x.secret,
    scopes |-> sc, expires |-> e] :
     st \in {"enabled", "disabled"}, sc \in Requested \cup {x.scopes},
     e \in {x.expires, now + CredentialTTL}}

\* The rows applyUpdate can make of x ...
Updates(x) ==
  {[status |-> st, slot |-> x.slot, rev |-> x.rev + 1, secret |-> x.secret,
    scopes |-> sc, expires |-> e] :
     st \in {"enabled", "disabled"}, sc \in Requested \cup {x.scopes},
     e \in {x.expires, now + CredentialTTL}}

\* ... and those of Rotate and Revoke.
Edits(x) ==
  Updates(x) \cup
  {[status |-> x.status, slot |-> x.slot, rev |-> x.rev + 1, secret |-> x.secret + 1,
    scopes |-> x.scopes, expires |-> x.expires],
   [status |-> "revoked", slot |-> 0, rev |-> x.rev + 1, secret |-> x.secret,
    scopes |-> x.scopes, expires |-> x.expires]}

\* Update, Rotate, Revoke: the row is read without a lock and the new one built.
\* Only the current revision is worth sending; an older one never matches again.
ReadApplication(r, a, row) ==
  /\ pc[r] = "checked" /\ op[r] = "application"
  /\ app[a].status \in {"enabled", "disabled"}
  /\ app[a].rev < MaxRevision
  /\ row \in Edits(app[a])
  /\ pc' = [pc EXCEPT ![r] = "edited"]
  /\ work' = [work EXCEPT ![r] = [app |-> a, row |-> row, rev |-> app[a].rev, time |-> now]]
  /\ UNCHANGED <<op, rver, proof, cred, accountVars, limit, sessionVars, app, tokenVars, now>>

CommitAnyScopes(r) == rver[r] = ver /\ status = "active" /\ ~must

\* The owner check of UpdateOwned; a revocation needs no scope.
CommitAllowed(r) ==
  OwnerLocked(r, IF work[r].row.status = "revoked" THEN {} ELSE work[r].row.scopes)

\* Repository.UpdateOwned: whole row, if its revision is still the one read.
UpdateOwned(r) ==
  LET q == work[r] IN
  /\ pc[r] = "edited"
  /\ CommitAllowed(r)
  /\ app[q.app].rev = q.rev
  /\ app' = [app EXCEPT ![q.app] = q.row]
  /\ End(r)
  /\ UNCHANGED <<accountVars, limit, sessionVars, tokenVars, now>>

(***************************************************************************)
(* Access tokens.                                                          *)
(***************************************************************************)

\* IssueToken: the application is read by its access key, the secret and the
\* owner are checked, the token's lifetime is computed.
ReadCredential(r, a) ==
  /\ pc[r] = "idle"
  /\ app[a].status = "enabled" /\ app[a].expires > now
  /\ OwnerAllows(app[a].scopes)
  /\ pc' = [pc EXCEPT ![r] = "issuing"]
  /\ work' = [work EXCEPT ![r] = [app |-> a, row |-> app[a], rev |-> app[a].rev, time |-> now]]
  /\ UNCHANGED <<op, rver, proof, cred, accountVars, limit, sessionVars, app, tokenVars, now>>

\* StoreIssuedToken rechecks behind the locks; CleanupExpiredTokens follows
\* with the clock of the first step and may fail.
StoreIssuedToken(r, clean) ==
  LET q == work[r]
      x == app[q.app]
  IN
  /\ pc[r] = "issuing"
  /\ OwnerAllows(q.row.scopes)
  /\ x.status = "enabled" /\ x.rev = q.rev /\ x.secret = q.row.secret
  /\ x.expires > q.time
  /\ nextT <= MaxToken
  /\ token' = [t \in Tokens |->
       IF t = nextT
       THEN [app |-> q.app, rev |-> q.rev, secret |-> q.row.secret,
             scopes |-> q.row.scopes, expires |-> Min({q.time + TokenTTL, q.row.expires})]
       ELSE IF clean /\ token[t].expires <= q.time THEN NoToken ELSE token[t]]
  /\ nextT' = nextT + 1
  /\ End(r)
  /\ UNCHANGED <<accountVars, limit, sessionVars, app, now>>

\* The comparison of a token's snapshot with its application.
MatchesSnapshot(x, t) ==
  /\ x.secret = t.secret /\ x.rev = t.rev /\ x.scopes = t.scopes
  /\ x.status = "enabled" /\ x.expires > now

\* AuthenticateToken reads the token (possibly from the cache: its row never
\* changes), then its application ...
ReadToken(r, t) ==
  /\ pc[r] = "idle"
  /\ token[t] # NoToken /\ token[t].expires > now
  /\ MatchesSnapshot(app[token[t].app], token[t])
  /\ pc' = [pc EXCEPT ![r] = "token"]
  /\ cred' = [cred EXCEPT ![r] = [id |-> t, valid |-> TokenValid(t)]]
  /\ work' = [work EXCEPT ![r] = [app |-> token[t].app, row |-> app[token[t].app],
                                 rev |-> token[t].rev, time |-> token[t].expires]]
  /\ UNCHANGED <<op, rver, proof, accountVars, limit, sessionVars, app, tokenVars, now>>

\* ... and then the owner.
AuthenticateToken(r) ==
  /\ pc[r] = "token"
  /\ OwnerAllows(work[r].row.scopes)
  /\ pc' = [pc EXCEPT ![r] = "authenticated"]
  /\ rver' = [rver EXCEPT ![r] = ver]
  /\ UNCHANGED <<op, proof, cred, work, accountVars, limit, sessionVars, app, tokenVars, now>>

SnapshotHoldsAnyRevision(q) ==
  LET x == app[q.app] IN
  /\ x.status = "enabled" /\ x.secret = q.row.secret
  /\ x.expires > now /\ q.time > now
  /\ "library:write" \in q.row.scopes \cap x.scopes

\* RequireApplicationSnapshotTx for library:write.
SnapshotHolds(q) ==
  LET x == app[q.app] IN
  /\ x.status = "enabled" /\ x.rev = q.rev /\ x.secret = q.row.secret
  /\ x.expires > now /\ q.time > now
  /\ "library:write" \in q.row.scopes \cap x.scopes

\* RequireLibraryWriteTx at the head of a library write's transaction.
LibraryWrite(r) ==
  /\ pc[r] = "authenticated"
  /\ status = "active" /\ ~must /\ ver = rver[r]
  /\ "library:write" \in granted
  /\ SnapshotHolds(work[r])
  /\ pc' = [pc EXCEPT ![r] = "written"]
  /\ UNCHANGED <<op, rver, proof, cred, work, accountVars, limit, sessionVars, app, tokenVars, now>>

-----------------------------------------------------------------------------
SetLimit(n) ==
  /\ n # limit
  /\ limit' = n
  /\ UNCHANGED <<accountVars, sessionVars, app, tokenVars, reqVars, now>>

Tick ==
  /\ now < MaxTime
  /\ now' = now + 1
  /\ UNCHANGED <<accountVars, limit, sessionVars, app, tokenVars, reqVars>>

SessionOps == {"password", "logout", "logout-all"} \cup
              IF Apps = {} THEN {} ELSE {"application"}

SessionNext(r) ==
  \/ \E entry \in {"login", "issue"}, upgrade \in BOOLEAN : Authenticate(r, entry, upgrade)
  \/ IssueSession(r)
  \/ \E s \in Sessions, route \in SessionOps : ReadSession(r, s, route)
  \/ CheckSession(r)
  \/ Logout(r)
  \/ VerifyCurrent(r)
  \/ ChangePassword(r)
  \/ LogoutAll(r)
  \/ Finish(r)

ApplicationNext(r) ==
  \/ \E a \in Apps, scopes \in Requested : CreateApplication(r, a, scopes)
  \/ \E a \in Apps : \E row \in Edits(app[a]) : ReadApplication(r, a, row)
  \/ UpdateOwned(r)
  \/ \E a \in Apps : ReadCredential(r, a)
  \/ \E clean \in BOOLEAN : StoreIssuedToken(r, clean)
  \/ \E t \in Tokens : ReadToken(r, t)
  \/ AuthenticateToken(r)
  \/ LibraryWrite(r)

AdminNext ==
  \/ \E delete \in BOOLEAN : Ban(delete)
  \/ Unban
  \/ ChangeRole
  \/ \E P \in {Library, WebDAV} :
       \E kept \in {{}} \cup (Grants \cap SUBSET P) : SetPermission(P, kept)
  \/ AdminLogoutAll
  \/ ResetPassword

RevokeNext ==
  \/ \E s \in Sessions, S \in SUBSET Sessions : RevokeSessions(s, S)
  \/ \E s \in Sessions : RevokeOtherSessions(s)

Next ==
  \/ \E r \in Requests : SessionNext(r) \/ ApplicationNext(r)
  \/ RevokeNext
  \/ AdminNext
  \/ \E n \in Limits : SetLimit(n)
  \/ Tick

Spec == Init /\ [][Next]_vars

-----------------------------------------------------------------------------
(***************************************************************************)
(* Properties.                                                             *)
(***************************************************************************)

AllScopes == UNION (Requested \cup {Gated})
AppRows == [status : {"none", "enabled", "disabled", "revoked"}, slot : 0..MaxApps,
            rev : 0..MaxRevision, secret : Nat, scopes : SUBSET AllScopes,
            expires : Nat]
TokenRows == {NoToken} \cup [app : Apps, rev : Nat, secret : Nat,
                             scopes : SUBSET AllScopes, expires : Nat]
AccountTypes ==
  /\ status \in {"active", "banned", "deleted"}
  /\ must \in BOOLEAN
  /\ {pwExpires, ver, hash, password, now} \subseteq Nat
  /\ granted \subseteq Gated
  /\ limit \in Limits
SessionTypes ==
  /\ sstate \in [Sessions -> {"none", "live", "revoked"}]
  /\ sver \in [Sessions -> Nat]
  /\ spurpose \in [Sessions -> {"user", "password_change"}]
  /\ sexpire \in [Sessions -> Nat]
  /\ vouched \in [Sessions -> [ver : Nat, pw : Nat]]
  /\ nextS \in 1..MaxSession + 1
TokenTypes == token \in [Tokens -> TokenRows] /\ nextT \in 1..MaxToken + 1

RequestTypes ==
  /\ pc \in [Requests -> {"idle", "verified", "session", "checked", "edited", "issuing",
                          "token", "authenticated", "written"}]
  /\ op \in [Requests -> {"none", "login", "issue", "password", "logout", "logout-all",
                          "application"}]
  /\ rver \in [Requests -> Nat]
  /\ proof \in [Requests -> [hash : Nat, pw : Nat, upgrade : BOOLEAN]]
  /\ cred \in [Requests -> [id : Nat, valid : BOOLEAN]]
  /\ work \in [Requests -> [app : Apps \cup {None}, row : AppRows, rev : Nat, time : Nat]]
  /\ \A r \in Requests :
       pc[r] \in {"edited", "issuing", "token", "authenticated", "written"} =>
       work[r].app \in Apps

\* Types of the rows and of the requests in flight.
TypeOK ==
  /\ AccountTypes
  /\ SessionTypes
  /\ app \in [Apps -> AppRows]
  /\ TokenTypes
  /\ RequestTypes

\* A session that can be used was opened with the password of today, and nothing
\* (ban, reset, change of password or role, logging out everywhere) has ended the
\* account's sessions since that password was checked: the recheck of Login and
\* IssueVerifiedSession behind the row lock leaves no login in flight to revive.
SessionsVouched ==
  \A s \in UsableSessions : vouched[s] = [ver |-> ver, pw |-> password]

\* A session that cannot be used any more never becomes usable again; restoring
\* a banned account revives none ("Restore never revives old credentials").
SessionsNeverRevive ==
  [][\A s \in Sessions : sstate[s] # "none" /\ ~Usable(s) => ~Usable(s)']_vars

\* CheckSession reads the session and the account apart, and still accepts only
\* what was usable at one instant, that of its first read.
SessionCheckSound ==
  \A r \in Requests : pc[r] = "checked" => cred[r].valid

\* A login ends with its own session usable and no more sessions than the limit
\* in force; it gives up only the oldest, and none unless the limit is reached.
LoginKeepsNewest ==
  [][nextS' # nextS =>
       LET kept == UsableSessions' \ {nextS}
           lost == UsableSessions \ kept
       IN
       /\ nextS \in UsableSessions'
       /\ kept \subseteq UsableSessions
       /\ Cardinality(UsableSessions') <= limit
       /\ lost # {} => Cardinality(UsableSessions') = limit
       /\ \A x \in lost, y \in kept : x < y]_vars

\* No application is enabled while its owner is banned, deleted or has to change
\* a temporary password, whatever its owner had in flight when that began.
SuspendedWithOwner ==
  status # "active" \/ must => \A a \in Apps : app[a].status # "enabled"

\* An application never has a scope its owner's permissions do not cover, though
\* withdrawing a permission and widening an application may be in flight together.
ScopesWithinPermissions ==
  \A a \in Apps : app[a].scopes \cap Gated \subseteq granted

\* The applications that are not revoked hold the slots 1..MaxApps, one each.
SlotsExact ==
  \A a \in Apps :
    /\ app[a].status \in {"enabled", "disabled"} <=> app[a].slot # 0
    /\ app[a].slot # 0 => \A b \in Apps \ {a} : app[b].slot # app[a].slot

\* A token that is not valid any more never becomes valid again: disabling and
\* enabling, removing and granting a scope, banning and restoring do not revive it.
TokensNeverRevive ==
  [][\A t \in Tokens : token[t] # NoToken /\ ~TokenValid(t) => ~TokenValid(t)']_vars

\* AuthenticateToken reads application and owner apart, and still accepts only a
\* token that was valid at the instant its application was read.
TokenCheckSound ==
  \A r \in Requests : pc[r] = "authenticated" => cred[r].valid

\* What is accepted as a credential was one: sessions carry the password of today, and the checks
\* of sessions and tokens, which read in several steps, accept only what held at one instant.
CredentialsSound == SessionsVouched /\ SessionCheckSound /\ TokenCheckSound

\* The applications of an account stay within what the account may do, and within its slots.
ApplicationsSound == TypeOK /\ SuspendedWithOwner /\ ScopesWithinPermissions /\ SlotsExact

\* No credential that was refused once, session or token, ever works again.
CredentialsNeverRevive == SessionsNeverRevive /\ TokensNeverRevive

\* A library write by an application commits only while the token it came with is
\* valid: nothing that happened since it was authenticated had withdrawn it.
WritesAuthorised ==
  [][\A r \in Requests :
       pc[r] = "authenticated" /\ pc'[r] = "written" => TokenValid(cred[r].id)]_vars
=============================================================================
