--------------------------- MODULE AccountsProof ---------------------------
(***************************************************************************)
(* Proofs about Accounts for any number of requests, applications, sessions*)
(* and tokens, any limits and any lifetimes.                               *)
(***************************************************************************)
EXTENDS Accounts, FiniteSetTheorems, WellFoundedInduction, TLAPS

\* The bounds are positive.
LEMMA Bounds ==
  /\ MaxApps \in Nat /\ MaxApps > 0
  /\ SessionTTL \in Nat /\ RestrictedTTL \in Nat /\ TemporaryTTL \in Nat
  /\ TokenTTL \in Nat /\ CredentialTTL \in Nat
  /\ MaxSession \in Nat /\ MaxToken \in Nat /\ MaxVersion \in Nat /\ MaxHash \in Nat
  /\ MaxRevision \in Nat /\ MaxTime \in Nat
  /\ MaxSession > 0 /\ MaxToken > 0 /\ MaxRevision > 0
  BY AccountsAssumption

\* A set of natural numbers that is not empty has a least element.
LEMMA MinExists ==
  ASSUME NEW S \in SUBSET Nat, S # {}
  PROVE  Min(S) \in S /\ \A y \in S : Min(S) <= y
<1>1. PICK x \in S : \A y \in S : <<y, x>> \notin OpToRel(<, Nat)
  BY NatLessThanWellFounded, WFMin, Zenon
<1>2. \A y \in S : ~(y < x)
  BY <1>1, Zenon DEF OpToRel
<1>3. \A y \in S : x <= y
  BY <1>2
<1> QED
  BY <1>3 DEF Min

\* A change of a row that frees its slot exactly when it revokes the application.
Holding(x) == x.status \in {"enabled", "disabled"}
SlotKept(x, y) ==
  /\ y.slot \in {0, x.slot}
  /\ (Holding(x) <=> x.slot # 0) => (Holding(y) <=> y.slot # 0)

\* suspendApplicationsTx on one row: at most one revision, never enabled after.
LEMMA SuspendRow ==
  ASSUME NEW x \in AppRows, NEW b \in BOOLEAN, x.rev + 1 <= MaxRevision
  PROVE  /\ Suspend(x, b) \in AppRows
         /\ Suspend(x, b).rev <= x.rev + 1
         /\ Suspend(x, b).status # "enabled"
         /\ Suspend(x, b).scopes = x.scopes
         /\ Suspend(x, b) = x \/ Suspend(x, b).rev = x.rev + 1
         /\ SlotKept(x, Suspend(x, b))
<1> USE DEF SlotKept, Holding
<1>1. CASE x.status \notin {"enabled", "disabled"}
  BY <1>1, Bounds DEF Suspend, AppRows
<1>2. CASE x.status \in {"enabled", "disabled"} /\ b = TRUE
  <2>1. Suspend(x, b) = [status |-> "revoked", slot |-> 0, rev |-> x.rev + 1,
                         secret |-> x.secret, scopes |-> x.scopes, expires |-> x.expires]
    BY <1>2 DEF Suspend
  <2> QED
    BY <1>2, <2>1, Bounds DEF AppRows
<1>3. CASE x.status \in {"enabled", "disabled"} /\ b = FALSE
  <2>1. Suspend(x, b) = [status |-> "disabled", slot |-> x.slot, rev |-> x.rev + 1,
                         secret |-> x.secret, scopes |-> x.scopes, expires |-> x.expires]
    BY <1>3 DEF Suspend
  <2> QED
    BY <1>3, <2>1, Bounds DEF AppRows
<1> QED
  BY <1>1, <1>2, <1>3

\* removeScopesTx on one row: the scopes go, with a revision if there were any.
LEMMA RemoveRow ==
  ASSUME NEW x \in AppRows, NEW S, x.rev + 1 <= MaxRevision
  PROVE  /\ RemoveScopes(x, S) \in AppRows
         /\ RemoveScopes(x, S).rev <= x.rev + 1
         /\ RemoveScopes(x, S).status = x.status
         /\ RemoveScopes(x, S).slot = x.slot
         /\ RemoveScopes(x, S).scopes = x.scopes \ S
         /\ RemoveScopes(x, S) = x \/ RemoveScopes(x, S).rev = x.rev + 1
<1>1. CASE x.scopes \cap S = {}
  <2>1. x.scopes \ S = x.scopes
    BY <1>1
  <2> QED
    BY <1>1, <2>1, Bounds DEF RemoveScopes, AppRows
<1>2. CASE x.scopes \cap S # {}
  BY <1>2, Bounds DEF RemoveScopes, AppRows
<1> QED
  BY <1>1, <1>2

\* The rows Update, Rotate and Revoke can ask for.
LEMMA EditRows ==
  ASSUME NEW x \in AppRows, x.rev < MaxRevision, NEW row \in Edits(x), now \in Nat
  PROVE  /\ row \in AppRows
         /\ row.rev = x.rev + 1
         /\ \/ row.status = "revoked" /\ row.slot = 0 /\ row.scopes = x.scopes
            \/ row.status \in {"enabled", "disabled"} /\ row.slot = x.slot
            \/ row.status = x.status /\ row.slot = x.slot
<1>1. CASE row \in Updates(x)
  <2>1. PICK st \in {"enabled", "disabled"}, sc \in Requested \cup {x.scopes},
             e \in {x.expires, now + CredentialTTL} :
          row = [status |-> st, slot |-> x.slot, rev |-> x.rev + 1, secret |-> x.secret,
                 scopes |-> sc, expires |-> e]
    BY <1>1 DEF Updates
  <2>2. sc \in SUBSET AllScopes /\ e \in Nat
    BY Bounds DEF AllScopes, AppRows
  <2> QED
    BY <2>1, <2>2, Bounds DEF AppRows
<1>2. CASE row = [status |-> x.status, slot |-> x.slot, rev |-> x.rev + 1,
                  secret |-> x.secret + 1, scopes |-> x.scopes, expires |-> x.expires]
  BY <1>2, Bounds DEF AppRows
<1>3. CASE row = [status |-> "revoked", slot |-> 0, rev |-> x.rev + 1,
                  secret |-> x.secret, scopes |-> x.scopes, expires |-> x.expires]
  BY <1>3, Bounds DEF AppRows
<1> QED
  BY <1>1, <1>2, <1>3 DEF Edits

\* allocateApplicationSlot finds a slot when fewer than MaxApps are in use.
LEMMA FreeSlotIsFree ==
  ASSUME app \in [Apps -> AppRows], Cardinality(SlotsInUse) < MaxApps
  PROVE  FreeSlot \in 1..MaxApps /\ FreeSlot \notin SlotsInUse
<1>1. SlotsInUse \subseteq 1..MaxApps
  BY Bounds DEF SlotsInUse, AppRows
<1>2. IsFiniteSet(1..MaxApps) /\ Cardinality(1..MaxApps) = MaxApps
  BY Bounds, FS_Interval
<1>3. (1..MaxApps) \ SlotsInUse # {}
  <2>1. SUFFICES ASSUME (1..MaxApps) \ SlotsInUse = {}  PROVE FALSE
    OBVIOUS
  <2>2. SlotsInUse = 1..MaxApps
    BY <1>1, <2>1
  <2> QED
    BY <1>2, <2>2, Bounds
<1>4. (1..MaxApps) \ SlotsInUse \in SUBSET Nat
  BY Bounds
<1> QED
  BY <1>3, <1>4, MinExists DEF FreeSlot

\* What ends a request leaves it well typed.
LEMMA EndTypes ==
  ASSUME RequestTypes, NEW r \in Requests, End(r)
  PROVE  RequestTypes'
<1>1. NoApp \in AppRows
  BY Bounds DEF NoApp, AppRows
<1> QED
  BY <1>1 DEF RequestTypes, End, NoProof, NoCred, NoWork

\* What the changes of the account do to all applications at once.
LEMMA SuspendAll ==
  ASSUME app \in [Apps -> AppRows], RevisionsLeft, NEW b \in BOOLEAN, NEW a \in Apps
  PROVE  /\ Suspend(app[a], b) \in AppRows
         /\ Suspend(app[a], b).status # "enabled"
         /\ Suspend(app[a], b).scopes = app[a].scopes
         /\ Suspend(app[a], b) = app[a] \/ Suspend(app[a], b).rev = app[a].rev + 1
         /\ Suspend(app[a], b) = app[a] \/ Suspend(app[a], b).rev > app[a].rev
         /\ SlotKept(app[a], Suspend(app[a], b))
         /\ {Suspend(app[a], b).rev, app[a].rev} \subseteq Nat
         /\ Suspend(app[a], b).rev + 1 <= MaxRevision
         /\ app[a].rev + 1 <= MaxRevision
<1>1. app[a] \in AppRows /\ app[a].rev \in Nat /\ app[a].rev + 2 <= MaxRevision
  BY Bounds DEF RevisionsLeft, AppRows
<1>2. app[a].rev + 1 <= MaxRevision
  BY <1>1, Bounds
<1>3. /\ Suspend(app[a], b) \in AppRows
      /\ Suspend(app[a], b).rev <= app[a].rev + 1
      /\ Suspend(app[a], b).status # "enabled"
      /\ Suspend(app[a], b).scopes = app[a].scopes
      /\ Suspend(app[a], b) = app[a] \/ Suspend(app[a], b).rev = app[a].rev + 1
      /\ SlotKept(app[a], Suspend(app[a], b))
  BY <1>1, <1>2, SuspendRow
<1>4. Suspend(app[a], b).rev \in Nat
  BY <1>3, Bounds DEF AppRows
<1> QED
  BY <1>1, <1>2, <1>3, <1>4, Bounds

LEMMA RemoveAll ==
  ASSUME app \in [Apps -> AppRows], RevisionsLeft, NEW S, NEW a \in Apps
  PROVE  /\ RemoveScopes(app[a], S) \in AppRows
         /\ RemoveScopes(app[a], S).status = app[a].status
         /\ RemoveScopes(app[a], S).scopes = app[a].scopes \ S
         /\ RemoveScopes(app[a], S) = app[a] \/ RemoveScopes(app[a], S).rev > app[a].rev
         /\ SlotKept(app[a], RemoveScopes(app[a], S))
<1>1. app[a] \in AppRows /\ app[a].rev \in Nat /\ app[a].rev + 1 <= MaxRevision
  BY Bounds DEF RevisionsLeft, AppRows
<1>2. /\ RemoveScopes(app[a], S) \in AppRows
      /\ RemoveScopes(app[a], S).status = app[a].status
      /\ RemoveScopes(app[a], S).slot = app[a].slot
      /\ RemoveScopes(app[a], S).scopes = app[a].scopes \ S
      /\ RemoveScopes(app[a], S) = app[a] \/ RemoveScopes(app[a], S).rev = app[a].rev + 1
  BY <1>1, RemoveRow
<1> QED
  BY <1>1, <1>2 DEF SlotKept, Holding

LEMMA StripAll ==
  ASSUME app \in [Apps -> AppRows], RevisionsLeft, NEW b \in BOOLEAN, NEW S, NEW a \in Apps
  PROVE  /\ RemoveScopes(Suspend(app[a], b), S) \in AppRows
         /\ RemoveScopes(Suspend(app[a], b), S).status # "enabled"
         /\ RemoveScopes(Suspend(app[a], b), S).scopes = app[a].scopes \ S
         /\ \/ RemoveScopes(Suspend(app[a], b), S) = app[a]
            \/ RemoveScopes(Suspend(app[a], b), S).rev > app[a].rev
         /\ SlotKept(app[a], RemoveScopes(Suspend(app[a], b), S))
<1> DEFINE x == app[a]
           y == Suspend(x, b)
<1>1. /\ y \in AppRows /\ y.status # "enabled" /\ y.scopes = x.scopes
      /\ y = x \/ y.rev = x.rev + 1
      /\ SlotKept(x, y)
      /\ x.rev \in Nat /\ y.rev \in Nat /\ y.rev + 1 <= MaxRevision
  BY SuspendAll
<1> HIDE DEF x, y
<1>2. /\ RemoveScopes(y, S) \in AppRows
      /\ RemoveScopes(y, S).status = y.status
      /\ RemoveScopes(y, S).slot = y.slot
      /\ RemoveScopes(y, S).scopes = y.scopes \ S
      /\ RemoveScopes(y, S) = y \/ RemoveScopes(y, S).rev = y.rev + 1
  BY <1>1, RemoveRow
<1>3. RemoveScopes(y, S) = x \/ RemoveScopes(y, S).rev > x.rev
  BY <1>1, <1>2
<1>4. SlotKept(x, RemoveScopes(y, S))
  BY <1>1, <1>2 DEF SlotKept, Holding
<1> QED
  BY <1>1, <1>2, <1>3, <1>4 DEF x, y

\* Types hold initially.
LEMMA TypeInit == Init => TypeOK
<1>1. NoApp \in AppRows /\ NoToken \in TokenRows
  BY Bounds DEF NoApp, AppRows, NoToken, TokenRows
<1> QED
  BY <1>1, Bounds DEF Init, TypeOK, AccountTypes, SessionTypes, TokenTypes, RequestTypes,
                      NoProof, NoCred, NoWork

\* What the steps between a request's reads and its transaction leave alone.
Still == UNCHANGED <<accountVars, limit, sessionVars, app, tokenVars, now>>

\* Such a step, by the request that takes it.
Reads(r) ==
  \/ \E entry \in {"login", "issue"}, upgrade \in BOOLEAN : Authenticate(r, entry, upgrade)
  \/ \E s \in Sessions, route \in SessionOps : ReadSession(r, s, route)
  \/ CheckSession(r) \/ VerifyCurrent(r) \/ Finish(r)
  \/ \E a \in Apps : \E row \in Edits(app[a]) : ReadApplication(r, a, row)
  \/ \E a \in Apps : ReadCredential(r, a)
  \/ \E t \in Tokens : ReadToken(r, t)
  \/ AuthenticateToken(r) \/ LibraryWrite(r)

LEMMA ReadsStill ==
  ASSUME NEW r, Reads(r)
  PROVE  Still
BY DEF Reads, Still, Authenticate, ReadSession, CheckSession, VerifyCurrent, Finish, ReadApplication,
       ReadCredential, ReadToken, AuthenticateToken, LibraryWrite

\* The transactions of a request.
Writes(r) ==
  \/ IssueSession(r) \/ Logout(r) \/ ChangePassword(r) \/ LogoutAll(r)
  \/ \E a \in Apps, scopes \in Requested : CreateApplication(r, a, scopes)
  \/ UpdateOwned(r)
  \/ \E clean \in BOOLEAN : StoreIssuedToken(r, clean)

\* The steps that are not a request's.
Others == RevokeNext \/ AdminNext \/ (\E n \in Limits : SetLimit(n)) \/ Tick

LEMMA WritesEnd ==
  ASSUME NEW r, Writes(r)
  PROVE  End(r)
BY DEF Writes, IssueSession, Logout, ChangePassword, LogoutAll, CreateApplication, UpdateOwned,
       StoreIssuedToken

LEMMA OthersKeepRequests == Others => UNCHANGED reqVars
BY DEF Others, RevokeNext, RevokeSessions, RevokeOtherSessions, AdminNext, Ban, Unban, ChangeRole,
       SetPermission, AdminLogoutAll, ResetPassword, SetLimit, Tick

\* The three kinds are all there is.
LEMMA Kinds ==
  ASSUME [Next]_vars
  PROVE  (\E r \in Requests : Reads(r) \/ Writes(r)) \/ Others \/ UNCHANGED vars
BY Zenon DEF Next, SessionNext, ApplicationNext, Reads, Writes, Others

\* Steps that only move a request leave the rest well typed.
LEMMA StillTypes ==
  ASSUME TypeOK, Still, RequestTypes'
  PROVE  TypeOK'
BY DEF TypeOK, Still, AccountTypes, SessionTypes, TokenTypes, accountVars, sessionVars, tokenVars

\* The steps of a request around its transaction keep the types.
LEMMA TypeReads ==
  ASSUME TypeOK, NEW r \in Requests, Reads(r)
  PROVE  TypeOK'
<1> USE DEF TypeOK
<1>1. \A entry \in {"login", "issue"}, upgrade \in BOOLEAN :
        Authenticate(r, entry, upgrade) => RequestTypes'
  BY DEF AccountTypes, RequestTypes, Authenticate
<1>2. \A s \in Sessions, route \in SessionOps : ReadSession(r, s, route) => RequestTypes'
  <2>1. SUFFICES ASSUME NEW s \in Sessions, NEW route \in SessionOps, ReadSession(r, s, route)
                 PROVE  RequestTypes'
    OBVIOUS
  <2>2. Usable(s) \in BOOLEAN
    BY Zenon DEF Usable
  <2>3. s \in Nat /\ route \in {"password", "logout", "logout-all", "application"}
    BY Bounds DEF Sessions, SessionOps
  <2> QED
    BY <2>1, <2>2, <2>3 DEF RequestTypes, ReadSession
<1>3. CheckSession(r) => RequestTypes'
  BY DEF AccountTypes, RequestTypes, CheckSession
<1>4. VerifyCurrent(r) => RequestTypes'
  BY DEF AccountTypes, RequestTypes, VerifyCurrent
<1>5. \A a \in Apps : \A row \in Edits(app[a]) : ReadApplication(r, a, row) => RequestTypes'
  <2>1. SUFFICES ASSUME NEW a \in Apps, NEW row \in Edits(app[a]), ReadApplication(r, a, row)
                 PROVE  RequestTypes'
    OBVIOUS
  <2>2. row \in AppRows /\ app[a].rev \in Nat
    BY <2>1, EditRows, Bounds DEF ReadApplication, AppRows, AccountTypes
  <2> QED
    BY <2>1, <2>2 DEF AccountTypes, RequestTypes, ReadApplication
<1>6. \A a \in Apps : ReadCredential(r, a) => RequestTypes'
  <2>1. \A a \in Apps : app[a].rev \in Nat
    BY Bounds DEF AppRows
  <2> QED
    BY <2>1 DEF AccountTypes, RequestTypes, ReadCredential
<1>7. \A t \in Tokens : ReadToken(r, t) => RequestTypes'
  <2>1. SUFFICES ASSUME NEW t \in Tokens, ReadToken(r, t)
                 PROVE  RequestTypes'
    OBVIOUS
  <2>2. token[t] \in [app : Apps, rev : Nat, secret : Nat, scopes : SUBSET AllScopes,
                      expires : Nat]
    BY <2>1 DEF ReadToken, TokenTypes, TokenRows
  <2>3. TokenValid(t) \in BOOLEAN
    BY Zenon DEF TokenValid, OwnerAllows
  <2>4. /\ token[t].app \in Apps /\ token[t].rev \in Nat /\ token[t].expires \in Nat
        /\ app[token[t].app] \in AppRows
    BY <2>2
  <2>5. t \in Nat
    BY Bounds DEF Tokens
  <2> QED
    BY <2>1, <2>3, <2>4, <2>5 DEF RequestTypes, ReadToken
<1>8. AuthenticateToken(r) => RequestTypes'
  BY DEF AccountTypes, RequestTypes, AuthenticateToken
<1>9. LibraryWrite(r) => RequestTypes'
  BY DEF AccountTypes, RequestTypes, LibraryWrite
<1>10. Finish(r) => RequestTypes'
  BY EndTypes DEF Finish
<1>11. RequestTypes'
  BY <1>1, <1>2, <1>3, <1>4, <1>5, <1>6, <1>7, <1>8, <1>9, <1>10 DEF Reads
<1> QED
  BY <1>11, ReadsStill, StillTypes

\* The transactions keep the types.
LEMMA TypeRequestWrites ==
  ASSUME TypeOK, NEW r \in Requests, Writes(r)
  PROVE  TypeOK'
<1> USE DEF TypeOK, accountVars, sessionVars, tokenVars, reqVars
<1>1. IssueSession(r) => TypeOK'
  <2> SUFFICES ASSUME IssueSession(r)  PROVE TypeOK'
    OBVIOUS
  <2>1. AccountTypes'
    BY DEF IssueSession, AccountTypes
  <2>2. nextS \in Sessions /\ nextS' \in 1..MaxSession + 1
    <3>1. nextS \in 1..MaxSession + 1
      BY DEF SessionTypes
    <3>2. nextS <= MaxSession /\ nextS' = nextS + 1
      BY DEF IssueSession
    <3> HIDE DEF TypeOK
    <3> QED
      BY <3>1, <3>2, Bounds DEF Sessions
  <2>3. sstate' \in [Sessions -> {"none", "live", "revoked"}]
    BY DEF IssueSession, SessionTypes
  <2>4. [ver |-> rver[r], pw |-> proof[r].pw] \in [ver : Nat, pw : Nat]
    BY DEF RequestTypes
  <2>5. now + (IF must THEN RestrictedTTL ELSE SessionTTL) \in Nat /\ ver \in Nat
    BY Bounds DEF AccountTypes
  <2>6. SessionTypes'
    BY <2>2, <2>3, <2>4, <2>5 DEF IssueSession, SessionTypes
  <2> QED
    BY <2>1, <2>6, EndTypes DEF IssueSession, TokenTypes
<1>2. Logout(r) => TypeOK'
  BY EndTypes DEF Logout, AccountTypes, SessionTypes, TokenTypes
<1>3. ChangePassword(r) => TypeOK'
  <2> SUFFICES ASSUME ChangePassword(r)  PROVE TypeOK'
    OBVIOUS
  <2>1. app' \in [Apps -> AppRows]
    BY SuspendAll DEF ChangePassword
  <2>2. AccountTypes'
    <3>1. must' = FALSE /\ status' = status /\ granted' = granted /\ limit' = limit
      BY DEF ChangePassword
    <3>2. must' \in BOOLEAN
      BY <3>1, Zenon
    <3>3. {pwExpires', ver', hash', password', now'} \subseteq Nat
      BY DEF ChangePassword, AccountTypes
    <3> HIDE DEF TypeOK
    <3>4. status \in {"active", "banned", "deleted"} /\ granted \subseteq Gated /\ limit \in Limits
      BY DEF TypeOK, AccountTypes
    <3> QED
      BY <3>1, <3>2, <3>3, <3>4, Zenon DEF AccountTypes
  <2> QED
    BY <2>1, <2>2, EndTypes DEF ChangePassword, SessionTypes, TokenTypes
<1>4. LogoutAll(r) => TypeOK'
  <2> SUFFICES ASSUME LogoutAll(r)  PROVE TypeOK'
    OBVIOUS
  <2>1. app' \in [Apps -> AppRows]
    BY SuspendAll DEF LogoutAll
  <2>2. AccountTypes'
    BY Bounds DEF LogoutAll, AccountTypes
  <2> QED
    BY <2>1, <2>2, EndTypes DEF LogoutAll, SessionTypes, TokenTypes
<1>5. \A a \in Apps, scopes \in Requested : CreateApplication(r, a, scopes) => TypeOK'
  <2>1. SUFFICES ASSUME NEW a \in Apps, NEW scopes \in Requested, CreateApplication(r, a, scopes)
                 PROVE  TypeOK'
    OBVIOUS
  <2>2. FreeSlot \in 1..MaxApps /\ scopes \in SUBSET AllScopes /\ now + CredentialTTL \in Nat
    BY <2>1, FreeSlotIsFree, Bounds DEF CreateApplication, AllScopes, AccountTypes
  <2>3. app' \in [Apps -> AppRows]
    BY <2>1, <2>2, Bounds DEF CreateApplication, AppRows
  <2> QED
    BY <2>1, <2>3, EndTypes DEF CreateApplication, AccountTypes, SessionTypes, TokenTypes
<1>6. UpdateOwned(r) => TypeOK'
  BY EndTypes DEF UpdateOwned, AccountTypes, SessionTypes, TokenTypes, RequestTypes
<1>7. \A clean \in BOOLEAN : StoreIssuedToken(r, clean) => TypeOK'
  <2>1. SUFFICES ASSUME NEW clean \in BOOLEAN, StoreIssuedToken(r, clean)
                 PROVE  TypeOK'
    OBVIOUS
  <2> DEFINE q == work[r]
  <2>2. /\ q.app \in Apps /\ q.rev \in Nat /\ q.time \in Nat /\ q.row.secret \in Nat
        /\ q.row.scopes \in SUBSET AllScopes /\ q.row.expires \in Nat
    BY <2>1 DEF StoreIssuedToken, RequestTypes, AppRows
  <2>3. Min({q.time + TokenTTL, q.row.expires}) \in Nat
    <3>1. {q.time + TokenTTL, q.row.expires} \in SUBSET Nat
      BY <2>2, Bounds
    <3> QED
      BY <3>1, MinExists
  <2> DEFINE new == [app |-> q.app, rev |-> q.rev, secret |-> q.row.secret,
                     scopes |-> q.row.scopes,
                     expires |-> Min({q.time + TokenTTL, q.row.expires})]
  <2>4. new \in TokenRows /\ NoToken \in TokenRows
    BY <2>2, <2>3 DEF TokenRows
  <2>5. \A t \in Tokens : token'[t] \in {new, NoToken, token[t]}
    BY <2>1 DEF StoreIssuedToken
  <2>6. token' \in [Tokens -> TokenRows] /\ nextT' \in 1..MaxToken + 1
    BY <2>1, <2>4, <2>5, Bounds DEF StoreIssuedToken, TokenTypes
  <2> QED
    BY <2>1, <2>6, EndTypes DEF StoreIssuedToken, AccountTypes, SessionTypes, TokenTypes
<1> QED
  BY <1>1, <1>2, <1>3, <1>4, <1>5, <1>6, <1>7 DEF Writes

LEMMA TypeOtherWrites ==
  ASSUME TypeOK, Others
  PROVE  TypeOK'
<1> USE DEF TypeOK, accountVars, sessionVars, tokenVars, reqVars
<1>1. RevokeNext => TypeOK'
  BY DEF RevokeNext, RevokeSessions, RevokeOtherSessions, AccountTypes, SessionTypes, TokenTypes,
         RequestTypes
<1>2. \A delete \in BOOLEAN : Ban(delete) => TypeOK'
  BY StripAll DEF Ban, AccountTypes, SessionTypes, TokenTypes, RequestTypes
<1>3. Unban => TypeOK'
  BY DEF Unban, AccountTypes, SessionTypes, TokenTypes, RequestTypes
<1>4. ChangeRole => TypeOK'
  BY DEF ChangeRole, AccountTypes, SessionTypes, TokenTypes, RequestTypes
<1>5. \A P \in {Library, WebDAV} : \A kept \in {{}} \cup (Grants \cap SUBSET P) :
        SetPermission(P, kept) => TypeOK'
  <2>1. SUFFICES ASSUME NEW P \in {Library, WebDAV}, NEW kept \in {{}} \cup (Grants \cap SUBSET P),
                        SetPermission(P, kept)
                 PROVE  TypeOK'
    OBVIOUS
  <2>2. granted' \subseteq Gated
    BY <2>1 DEF SetPermission, AccountTypes, Gated
  <2>3. app' \in [Apps -> AppRows]
    BY <2>1, RemoveAll DEF SetPermission
  <2> QED
    BY <2>1, <2>2, <2>3 DEF SetPermission, AccountTypes, SessionTypes, TokenTypes, RequestTypes
<1>6. AdminLogoutAll => TypeOK'
  <2> SUFFICES ASSUME AdminLogoutAll  PROVE TypeOK'
    OBVIOUS
  <2>1. app' \in [Apps -> AppRows]
    BY SuspendAll DEF AdminLogoutAll
  <2>2. AccountTypes'
    BY Bounds DEF AdminLogoutAll, AccountTypes
  <2> QED
    BY <2>1, <2>2 DEF AdminLogoutAll, SessionTypes, TokenTypes, RequestTypes
<1>7. ResetPassword => TypeOK'
  <2> SUFFICES ASSUME ResetPassword  PROVE TypeOK'
    OBVIOUS
  <2>1. app' \in [Apps -> AppRows]
    BY StripAll DEF ResetPassword
  <2>2. AccountTypes'
    BY Bounds DEF ResetPassword, AccountTypes
  <2> QED
    BY <2>1, <2>2 DEF ResetPassword, SessionTypes, TokenTypes, RequestTypes
<1>8. \A n \in Limits : SetLimit(n) => TypeOK'
  BY DEF SetLimit, AccountTypes, SessionTypes, TokenTypes, RequestTypes
<1>9. Tick => TypeOK'
  BY DEF Tick, AccountTypes, SessionTypes, TokenTypes, RequestTypes
<1> QED
  BY <1>1, <1>2, <1>3, <1>4, <1>5, <1>6, <1>7, <1>8, <1>9 DEF Others, AdminNext

\* Every step keeps the types.
LEMMA TypeStep == TypeOK /\ [Next]_vars => TypeOK'
<1> SUFFICES ASSUME TypeOK, [Next]_vars  PROVE TypeOK'
  OBVIOUS
<1>1. CASE UNCHANGED vars
  BY <1>1 DEF vars, accountVars, sessionVars, tokenVars, reqVars, TypeOK, AccountTypes,
              SessionTypes, TokenTypes, RequestTypes
<1> QED
  BY <1>1, Kinds, TypeReads, TypeRequestWrites, TypeOtherWrites

\* Types of the account, its sessions, applications, tokens and requests hold in
\* every behaviour of Authenticate ... LibraryWrite and the administrators' changes.
THEOREM TypeCorrect == Spec => []TypeOK
<1> QED
  BY TypeInit, TypeStep, PTL DEF Spec

-----------------------------------------------------------------------------
(***************************************************************************)
(* Sessions.  The number auth_version carries the argument: it only grows, *)
(* and nothing that a session depends on changes unless it grows.          *)
(***************************************************************************)

\* What a step may do to the account.
Aged ==
  /\ ver <= ver' /\ now <= now'
  /\ ver' = ver => /\ must' = must /\ pwExpires' = pwExpires /\ password' = password
                   /\ status = "active" => status' = "active"

\* What a step may do to a session that exists.
Kept(s) ==
  /\ sver'[s] = sver[s] /\ spurpose'[s] = spurpose[s] /\ sexpire'[s] = sexpire[s]
  /\ vouched'[s] = vouched[s]
  /\ sstate'[s] # "none" /\ (sstate'[s] = "live" => sstate[s] = "live")

LEMMA AccountStep == TypeOK /\ [Next]_vars => Aged
<1> SUFFICES ASSUME TypeOK, [Next]_vars  PROVE Aged
  OBVIOUS
<1> USE DEF Aged
<1>1. ver \in Nat /\ now \in Nat
  BY DEF TypeOK, AccountTypes
<1>2. ASSUME NEW r \in Requests, Reads(r)  PROVE Aged
  BY <1>1, <1>2, ReadsStill DEF Still, accountVars
<1>3. ASSUME NEW r \in Requests, Writes(r)  PROVE Aged
  <2>1. CASE ChangePassword(r) \/ LogoutAll(r)
    <3>1. ver' = ver + 1 /\ now' = now
      BY <2>1 DEF ChangePassword, LogoutAll
    <3>2. ver <= ver' /\ ver' # ver /\ now <= now'
      BY <1>1, <3>1
    <3> QED
      BY <3>2, Zenon
  <2>2. CASE IssueSession(r) \/ Logout(r)
    BY <1>1, <2>2 DEF IssueSession, Logout, accountVars
  <2>3. CASE \E a \in Apps, scopes \in Requested : CreateApplication(r, a, scopes)
    BY <1>1, <2>3 DEF CreateApplication, accountVars
  <2>4. CASE UpdateOwned(r) \/ \E clean \in BOOLEAN : StoreIssuedToken(r, clean)
    BY <1>1, <2>4 DEF UpdateOwned, StoreIssuedToken, accountVars
  <2> QED
    BY <1>3, <2>1, <2>2, <2>3, <2>4 DEF Writes
<1>4. CASE Others
  <2>1. CASE RevokeNext
    BY <1>1, <2>1 DEF RevokeNext, RevokeSessions, RevokeOtherSessions, accountVars
  <2>2. CASE \E delete \in BOOLEAN : Ban(delete)
    BY <1>1, <2>2 DEF Ban
  <2>3. CASE Unban \/ ChangeRole
    BY <1>1, <2>3 DEF Unban, ChangeRole
  <2>7. CASE AdminLogoutAll
    BY <1>1, <2>7 DEF AdminLogoutAll
  <2>4. CASE \E P \in {Library, WebDAV} :
               \E kept \in {{}} \cup (Grants \cap SUBSET P) : SetPermission(P, kept)
    BY <1>1, <2>4 DEF SetPermission
  <2>5. CASE Tick \/ \E n \in Limits : SetLimit(n)
    BY <1>1, <2>5 DEF SetLimit, Tick, accountVars
  <2>6. CASE ResetPassword
    <3>1. ver' = ver + 1 /\ now' = now
      BY <2>6 DEF ResetPassword
    <3>2. ver <= ver' /\ ver' # ver /\ now <= now'
      BY <1>1, <3>1
    <3> QED
      BY <3>2, Zenon
  <2> QED
    BY <1>4, <2>1, <2>2, <2>3, <2>4, <2>5, <2>6, <2>7 DEF Others, AdminNext
<1>5. CASE UNCHANGED vars
  BY <1>1, <1>5 DEF vars, accountVars
<1> QED
  BY <1>2, <1>3, <1>4, <1>5, Kinds

\* Numbers are given in order.
NumberedInOrder == \A s \in Sessions : sstate[s] = "none" <=> s >= nextS

\* The session a request presents exists.
PresentedExists ==
  \A r \in Requests : pc[r] \in {"session", "checked"} =>
     cred[r].id \in Sessions /\ sstate[cred[r].id] # "none"

LEMMA SessionStep ==
  ASSUME TypeOK, NumberedInOrder, PresentedExists, [Next]_vars
  PROVE  /\ \A s \in Sessions : sstate[s] # "none" => Kept(s)
         /\ \/ \E r \in Requests : IssueSession(r)
            \/ nextS' = nextS /\ \A s \in Sessions : sstate[s] = "none" =>
                  sstate'[s] = "none" /\ sver'[s] = sver[s]
<1> USE DEF Kept, sessionVars
<1>1. /\ sstate \in [Sessions -> {"none", "live", "revoked"}] /\ sver \in [Sessions -> Nat]
      /\ spurpose \in [Sessions -> {"user", "password_change"}] /\ sexpire \in [Sessions -> Nat]
      /\ vouched \in [Sessions -> [ver : Nat, pw : Nat]] /\ nextS \in Nat
      /\ Sessions \subseteq Nat
  BY Bounds DEF TypeOK, SessionTypes, Sessions
<1>2. ASSUME NEW r \in Requests, IssueSession(r)
      PROVE  \A s \in Sessions : sstate[s] # "none" => Kept(s)
  <2>1. \A s \in Sessions : sstate[s] # "none" => s # nextS
    BY <1>1 DEF NumberedInOrder
  <2> QED
    BY <1>1, <1>2, <2>1 DEF IssueSession
<1> DEFINE Same ==
  /\ UNCHANGED <<sver, spurpose, sexpire, vouched, nextS>>
  /\ \A s \in Sessions : sstate'[s] \in {sstate[s], "revoked"} /\
                         (sstate[s] = "none" => sstate'[s] = "none")
<1>3. ASSUME NEW r \in Requests, Reads(r)  PROVE Same
  BY <1>1, <1>3, ReadsStill DEF Still
<1>4. ASSUME NEW r \in Requests, Writes(r), ~IssueSession(r), ~Logout(r)  PROVE Same
  BY <1>1, <1>4 DEF Writes, ChangePassword, LogoutAll, CreateApplication, UpdateOwned,
                    StoreIssuedToken
<1>5. ASSUME NEW r \in Requests, Logout(r)  PROVE Same
  BY <1>1, <1>5 DEF Logout, PresentedExists
<1>6. CASE UNCHANGED vars
  BY <1>1, <1>6 DEF vars
<1>7. CASE Others
  BY <1>1, <1>7 DEF Others, RevokeNext, RevokeSessions, RevokeOtherSessions, Usable, AdminNext, Ban,
                    Unban, ChangeRole, SetPermission, AdminLogoutAll, ResetPassword, SetLimit, Tick
<1> QED
  BY <1>1, <1>2, <1>3, <1>4, <1>5, <1>6, <1>7, Kinds

\* sessionUsableAt but for is_expired, which CheckSession read earlier.
Fit(s) ==
  /\ status = "active" /\ sver[s] = ver /\ sexpire[s] > now
  /\ IF spurpose[s] = "user" THEN ~must ELSE pwExpires > now

LEMMA UsableFit == \A s \in Sessions : Usable(s) <=> Fit(s) /\ sstate[s] = "live"
BY Zenon DEF Usable, Fit

\* No session is of a later version, and those of today's were vouched for by
\* today's password.
CurrentVouched ==
  /\ ver >= 1
  /\ \A s \in Sessions :
       /\ sver[s] <= ver
       /\ sstate[s] = "none" => sver[s] = 0
       /\ sver[s] = ver => status = "active" /\ vouched[s] = [ver |-> ver, pw |-> password]

\* A login in flight verified the password of its version.
LoginsVouched ==
  \A r \in Requests : pc[r] = "verified" /\ op[r] \in {"login", "issue"} =>
     rver[r] <= ver /\ (rver[r] = ver => proof[r].pw = password)

\* A session presented was usable when it was read, or no check can pass.
PresentedSound ==
  \A r \in Requests : pc[r] = "session" => cred[r].valid \/ ~Fit(cred[r].id)

SessionInv ==
  /\ NumberedInOrder /\ PresentedExists /\ CurrentVouched /\ LoginsVouched
  /\ PresentedSound /\ SessionCheckSound

\* Where a request in one of these positions comes from.
LEMMA RequestStep ==
  ASSUME TypeOK, [Next]_vars, NEW r \in Requests
  PROVE  /\ pc'[r] = "verified" /\ op'[r] \in {"login", "issue"} =>
              \/ pc[r] = "verified" /\ op[r] = op'[r] /\ rver'[r] = rver[r] /\ proof'[r] = proof[r]
              \/ Still /\ rver'[r] = ver /\ proof'[r].pw = password
         /\ pc'[r] = "session" =>
              \/ pc[r] = "session" /\ cred'[r] = cred[r]
              \/ Still /\ \E s \in Sessions : sstate[s] = "live" /\
                              cred'[r] = [id |-> s, valid |-> Usable(s)]
         /\ pc'[r] = "checked" =>
              \/ pc[r] = "checked" /\ cred'[r] = cred[r]
              \/ Still /\ pc[r] = "session" /\ cred'[r] = cred[r]
                 /\ SessionMatches(cred[r].id, AllowPasswordChange(op[r]))
<1> DEFINE Goal ==
  /\ pc'[r] = "verified" /\ op'[r] \in {"login", "issue"} =>
       \/ pc[r] = "verified" /\ op[r] = op'[r] /\ rver'[r] = rver[r] /\ proof'[r] = proof[r]
       \/ Still /\ rver'[r] = ver /\ proof'[r].pw = password
  /\ pc'[r] = "session" =>
       \/ pc[r] = "session" /\ cred'[r] = cred[r]
       \/ Still /\ \E s \in Sessions : sstate[s] = "live" /\
                       cred'[r] = [id |-> s, valid |-> Usable(s)]
  /\ pc'[r] = "checked" =>
       \/ pc[r] = "checked" /\ cred'[r] = cred[r]
       \/ Still /\ pc[r] = "session" /\ cred'[r] = cred[r]
          /\ SessionMatches(cred[r].id, AllowPasswordChange(op[r]))
<1>0. RequestTypes
  BY DEF TypeOK
<1>1. ASSUME NEW q \in Requests, Reads(q)  PROVE Goal
  <2>0. Still
    BY <1>1, ReadsStill
  <2>1. CASE \E entry \in {"login", "issue"}, upgrade \in BOOLEAN : Authenticate(q, entry, upgrade)
    BY <1>0, <2>0, <2>1 DEF Authenticate, RequestTypes
  <2>2. CASE \E s \in Sessions, route \in SessionOps : ReadSession(q, s, route)
    BY <1>0, <2>0, <2>2 DEF ReadSession, RequestTypes
  <2>3. CASE CheckSession(q)
    BY <1>0, <2>0, <2>3 DEF CheckSession, RequestTypes
  <2>4. CASE VerifyCurrent(q)
    BY <1>0, <2>0, <2>4 DEF VerifyCurrent, RequestTypes
  <2>5. CASE Finish(q)
    BY <1>0, <2>0, <2>5 DEF Finish, End, RequestTypes
  <2>6. CASE \/ \E a \in Apps : \E row \in Edits(app[a]) : ReadApplication(q, a, row)
             \/ \E a \in Apps : ReadCredential(q, a)
    BY <1>0, <2>0, <2>6 DEF ReadApplication, ReadCredential, RequestTypes
  <2>7. CASE \E t \in Tokens : ReadToken(q, t)
    BY <1>0, <2>0, <2>7 DEF ReadToken, RequestTypes
  <2>8. CASE AuthenticateToken(q) \/ LibraryWrite(q)
    BY <1>0, <2>0, <2>8 DEF AuthenticateToken, LibraryWrite, RequestTypes
  <2> QED
    BY <1>1, <2>1, <2>2, <2>3, <2>4, <2>5, <2>6, <2>7, <2>8 DEF Reads
<1>2. ASSUME NEW q \in Requests, Writes(q)  PROVE Goal
  BY <1>0, <1>2, WritesEnd DEF End, RequestTypes
<1>3. CASE Others
  BY <1>3, OthersKeepRequests DEF reqVars
<1>4. CASE UNCHANGED vars
  BY <1>4 DEF vars, reqVars
<1> QED
  BY <1>1, <1>2, <1>3, <1>4, Kinds

\* A session of an earlier version, past its time or of the wrong purpose stays so.
LEMMA FitStep ==
  ASSUME TypeOK, SessionInv, [Next]_vars, NEW s \in Sessions, sstate[s] # "none", Fit(s)'
  PROVE  Fit(s)
<1>1. Kept(s) /\ Aged
  BY SessionStep, AccountStep DEF SessionInv
<1>2. /\ ver \in Nat /\ ver' \in Nat /\ now \in Nat /\ now' \in Nat /\ sver[s] \in Nat
      /\ sexpire[s] \in Nat /\ pwExpires \in Nat
  BY TypeStep DEF TypeOK, AccountTypes, SessionTypes
<1>3. sver[s] = ver' /\ sver[s] <= ver /\ ver <= ver'
  BY <1>1 DEF Fit, Kept, Aged, SessionInv, CurrentVouched
<1>4. ver' = ver /\ sver[s] = ver
  BY <1>2, <1>3
<1>5. status = "active" /\ pwExpires' = pwExpires
  BY <1>1, <1>4 DEF Aged, SessionInv, CurrentVouched
<1>6. must' = must
  BY <1>1, <1>4, Zenon DEF Aged
<1>7. sexpire[s] > now' /\ now <= now' /\ spurpose'[s] = spurpose[s]
  BY <1>1 DEF Fit, Kept, Aged
<1>8. sexpire[s] > now
  BY <1>2, <1>7
<1>9. IF spurpose[s] = "user" THEN ~must ELSE pwExpires > now
  <2>1. CASE spurpose[s] = "user"
    BY <1>6, <1>7, <2>1, Zenon DEF Fit
  <2>2. CASE spurpose[s] # "user"
    <3>1. pwExpires > now'
      BY <1>5, <1>7, <2>2 DEF Fit
    <3>2. pwExpires > now
      BY <1>2, <1>7, <3>1
    <3> QED
      BY <2>2, <3>2
  <2> QED
    BY <2>1, <2>2
<1> QED
  BY <1>4, <1>5, <1>8, <1>9, Zenon DEF Fit

LEMMA SessionInit == Init => SessionInv
<1> SUFFICES ASSUME Init  PROVE SessionInv
  OBVIOUS
<1>1. \A s \in Sessions : s >= 1 /\ s \in Nat
  BY Bounds DEF Sessions
<1> QED
  BY <1>1 DEF Init, SessionInv, NumberedInOrder, PresentedExists, CurrentVouched, LoginsVouched,
              PresentedSound, SessionCheckSound

\* The invariant is inductive.
LEMMA SessionInvStep == TypeOK /\ SessionInv /\ [Next]_vars => SessionInv'
<1> SUFFICES ASSUME TypeOK, SessionInv, [Next]_vars  PROVE SessionInv'
  OBVIOUS
<1>1. Aged /\ \A s \in Sessions : sstate[s] # "none" => Kept(s)
  BY SessionStep, AccountStep DEF SessionInv
<1>2. /\ ver \in Nat /\ ver' \in Nat /\ nextS \in Nat /\ nextS' \in Nat
      /\ \A s \in Sessions : s \in Nat /\ sver[s] \in Nat
  <2>1. TypeOK'
    BY TypeStep
  <2>2. ver \in Nat /\ ver' \in Nat
    BY <2>1 DEF TypeOK, AccountTypes
  <2>3. nextS \in Nat /\ nextS' \in Nat
    BY <2>1, Bounds DEF TypeOK, SessionTypes
  <2>4. \A s \in Sessions : s \in Nat /\ sver[s] \in Nat
    BY Bounds DEF TypeOK, SessionTypes, Sessions
  <2> QED
    BY <2>2, <2>3, <2>4
<1> DEFINE Quiet == nextS' = nextS /\ \A s \in Sessions : sstate[s] = "none" =>
                      sstate'[s] = "none" /\ sver'[s] = sver[s]
<1>3. (\E r \in Requests : IssueSession(r)) \/ Quiet
  BY SessionStep DEF SessionInv
<1>4. ASSUME NEW r \in Requests, IssueSession(r)
      PROVE  /\ nextS \in Sessions /\ nextS' = nextS + 1 /\ sstate'[nextS] = "live"
             /\ sver'[nextS] = ver /\ ver' = ver /\ password' = password
             /\ status = "active" /\ status' = status /\ rver[r] = ver
             /\ vouched'[nextS] = [ver |-> rver[r], pw |-> proof[r].pw]
             /\ proof[r].pw = password
             /\ \A s \in Sessions \ {nextS} : sstate[s] = "none" =>
                    sstate'[s] = "none" /\ sver'[s] = sver[s]
  <2>1. nextS \in Sessions /\ rver[r] = ver /\ status = "active"
    BY <1>4, Bounds DEF IssueSession, StillVouched, TypeOK, SessionTypes, Sessions
  <2>2. proof[r].pw = password
    BY <1>4, <2>1 DEF SessionInv, LoginsVouched, IssueSession
  <2>3. \A s \in Sessions : sstate[s] = "none" => ~Usable(s)
    BY Zenon DEF Usable
  <2>4. \A s \in Sessions \ {nextS} : sstate[s] = "none" =>
           sstate'[s] = "none" /\ sver'[s] = sver[s]
    BY <1>4, <2>3 DEF IssueSession, Evicted, UsableSessions, TypeOK, SessionTypes
  <2> QED
    BY <1>4, <2>1, <2>2, <2>4 DEF IssueSession, TypeOK, SessionTypes
<1>5. NumberedInOrder'
  <2>1. CASE Quiet
    BY <1>1, <2>1 DEF SessionInv, NumberedInOrder, Kept
  <2>2. ASSUME NEW r \in Requests, IssueSession(r)  PROVE NumberedInOrder'
    <3>1. /\ nextS \in Sessions /\ nextS' = nextS + 1 /\ sstate'[nextS] = "live"
          /\ \A s \in Sessions \ {nextS} : sstate[s] = "none" => sstate'[s] = "none"
      BY <1>4, <2>2
    <3>2. \A s \in Sessions : sstate[s] # "none" => sstate'[s] # "none"
      BY <1>1 DEF Kept
    <3> QED
      BY <1>2, <3>1, <3>2 DEF SessionInv, NumberedInOrder
  <2> QED
    BY <1>3, <2>1, <2>2
<1>6. CurrentVouched'
  <2>1. ver' >= 1
    BY <1>1, <1>2 DEF Aged, SessionInv, CurrentVouched
  <2>2. ASSUME NEW s \in Sessions, sstate[s] # "none"
        PROVE  /\ sver'[s] <= ver' /\ sstate'[s] # "none"
               /\ sver'[s] = ver' =>
                    status' = "active" /\ vouched'[s] = [ver |-> ver', pw |-> password']
    <3>1. sver'[s] = sver[s] /\ vouched'[s] = vouched[s] /\ sstate'[s] # "none"
      BY <1>1, <2>2 DEF Kept
    <3>2. sver[s] <= ver /\ ver <= ver'
      BY <1>1 DEF Aged, SessionInv, CurrentVouched
    <3>3. sver'[s] = ver' => ver' = ver /\ sver[s] = ver
      BY <1>2, <3>1, <3>2
    <3>4. sver'[s] <= ver'
      BY <1>2, <3>1, <3>2
    <3>5. ver' = ver => password' = password /\ (status = "active" => status' = "active")
      BY <1>1 DEF Aged
    <3>6. sver[s] = ver => status = "active" /\ vouched[s] = [ver |-> ver, pw |-> password]
      BY DEF SessionInv, CurrentVouched
    <3> QED
      BY <3>1, <3>3, <3>4, <3>5, <3>6
  <2>3. ASSUME NEW s \in Sessions, sstate[s] = "none", sstate'[s] = "none", sver'[s] = sver[s]
        PROVE  sver'[s] <= ver' /\ sver'[s] = 0 /\ sver'[s] # ver'
    BY <1>2, <2>1, <2>3 DEF SessionInv, CurrentVouched
  <2>4. CASE Quiet
    BY <2>1, <2>2, <2>3, <2>4 DEF CurrentVouched
  <2>5. ASSUME NEW r \in Requests, IssueSession(r)  PROVE CurrentVouched'
    <3>1. /\ nextS \in Sessions /\ sstate'[nextS] = "live" /\ sver'[nextS] = ver
          /\ ver' = ver /\ password' = password /\ status' = "active"
          /\ vouched'[nextS] = [ver |-> ver, pw |-> password]
      BY <1>4, <2>5
    <3>2. \A s \in Sessions \ {nextS} : sstate[s] = "none" =>
             sstate'[s] = "none" /\ sver'[s] = sver[s]
      BY <1>4, <2>5
    <3> QED
      BY <1>2, <2>1, <2>2, <2>3, <3>1, <3>2 DEF CurrentVouched
  <2> QED
    BY <1>3, <2>4, <2>5
<1>7. LoginsVouched'
  <2> SUFFICES ASSUME NEW r \in Requests, pc'[r] = "verified", op'[r] \in {"login", "issue"}
               PROVE  rver'[r] <= ver' /\ (rver'[r] = ver' => proof'[r].pw = password')
    BY DEF LoginsVouched
  <2>1. CASE pc[r] = "verified" /\ op[r] = op'[r] /\ rver'[r] = rver[r] /\ proof'[r] = proof[r]
    <3>1. rver[r] \in Nat /\ rver[r] <= ver /\ (rver[r] = ver => proof[r].pw = password)
      BY <2>1 DEF SessionInv, LoginsVouched, TypeOK, RequestTypes
    <3>2. ver <= ver' /\ (ver' = ver => password' = password)
      BY <1>1 DEF Aged
    <3> QED
      BY <1>2, <2>1, <3>1, <3>2
  <2>2. CASE Still /\ rver'[r] = ver /\ proof'[r].pw = password
    BY <1>2, <2>2 DEF Still, accountVars
  <2> QED
    BY <2>1, <2>2, RequestStep
<1>8. PresentedExists'
  <2> SUFFICES ASSUME NEW r \in Requests, pc'[r] \in {"session", "checked"}
               PROVE  cred'[r].id \in Sessions /\ sstate'[cred'[r].id] # "none"
    BY DEF PresentedExists
  <2>1. CASE pc[r] \in {"session", "checked"} /\ cred'[r] = cred[r]
    BY <1>1, <2>1 DEF SessionInv, PresentedExists, Kept
  <2>2. ASSUME NEW s \in Sessions, sstate[s] = "live", cred'[r] = [id |-> s, valid |-> Usable(s)]
        PROVE  cred'[r].id \in Sessions /\ sstate'[cred'[r].id] # "none"
    BY <1>1, <2>2 DEF Kept
  <2> QED
    BY <2>1, <2>2, RequestStep
<1>9. PresentedSound'
  <2> SUFFICES ASSUME NEW r \in Requests, pc'[r] = "session", Fit(cred[r].id)'
               PROVE  cred'[r].valid
    BY Zenon DEF PresentedSound
  <2>1. CASE pc[r] = "session" /\ cred'[r] = cred[r]
    <3>1. PICK s \in Sessions : s = cred[r].id /\ sstate[s] # "none"
      BY <2>1 DEF SessionInv, PresentedExists
    <3>2. cred'[r].id = s
      BY <2>1, <3>1
    <3>3. Fit(s)'
      BY <3>2, Zenon DEF Fit
    <3>4. Fit(s)
      BY <3>1, <3>3, FitStep
    <3> QED
      BY <2>1, <3>1, <3>4, Zenon DEF SessionInv, PresentedSound
  <2>2. ASSUME Still, NEW s \in Sessions, sstate[s] = "live",
               cred'[r] = [id |-> s, valid |-> Usable(s)]
        PROVE  cred'[r].valid
    <3>1. cred'[r].id = s /\ cred'[r].valid = Usable(s)
      BY <2>2
    <3>2. Fit(s)'
      BY <3>1, Zenon DEF Fit
    <3>3. Fit(s)
      BY <2>2, <3>2, FitStep
    <3>4. Usable(s)
      BY <2>2, <3>3, UsableFit
    <3> QED
      BY <3>1, <3>4, Zenon
  <2> QED
    BY <2>1, <2>2, RequestStep
<1>10. SessionCheckSound'
  <2> SUFFICES ASSUME NEW r \in Requests, pc'[r] = "checked"  PROVE cred'[r].valid
    BY DEF SessionCheckSound
  <2>1. CASE pc[r] = "checked" /\ cred'[r] = cred[r]
    BY <2>1 DEF SessionInv, SessionCheckSound
  <2>2. CASE pc[r] = "session" /\ cred'[r] = cred[r]
             /\ SessionMatches(cred[r].id, AllowPasswordChange(op[r]))
    <3>1. cred[r].id \in Sessions
      BY <2>2 DEF SessionInv, PresentedExists
    <3>2. spurpose[cred[r].id] \in {"user", "password_change"}
      BY <3>1 DEF TypeOK, SessionTypes
    <3>3. Fit(cred[r].id)
      BY <2>2, <3>2, Zenon DEF SessionMatches, Fit
    <3> QED
      BY <2>2, <3>3, Zenon DEF SessionInv, PresentedSound
  <2> QED
    BY <2>1, <2>2, RequestStep
<1> QED
  BY <1>5, <1>6, <1>7, <1>8, <1>9, <1>10 DEF SessionInv

LEMMA SessionsInvariant == Spec => [](TypeOK /\ SessionInv)
<1> QED
  BY TypeInit, TypeStep, SessionInit, SessionInvStep, PTL DEF Spec

\* The recheck behind the row lock leaves no login in flight that could open a
\* session for a password, or past a ban or a reset, that is history.
THEOREM EverySessionVouched == Spec => []SessionsVouched
<1>1. SessionInv => SessionsVouched
  <2> SUFFICES ASSUME SessionInv, NEW s \in Sessions, Usable(s)
               PROVE  vouched[s] = [ver |-> ver, pw |-> password]
    BY DEF SessionsVouched, UsableSessions
  <2> QED
    BY DEF SessionInv, CurrentVouched, Usable
<1> QED
  BY <1>1, SessionsInvariant, PTL

\* No sequence of bans, restorations, logins and password changes makes an ended
\* session usable again.
THEOREM NoSessionRevives == Spec => SessionsNeverRevive
<1>1. TypeOK /\ SessionInv /\ [Next]_vars =>
        [\A s \in Sessions : sstate[s] # "none" /\ ~Usable(s) => ~Usable(s)']_vars
  <2> SUFFICES ASSUME TypeOK, SessionInv, [Next]_vars,
                      NEW s \in Sessions, sstate[s] # "none", Usable(s)'
               PROVE  Usable(s)
    OBVIOUS
  <2>1. Fit(s)' /\ sstate'[s] = "live"
    BY Zenon DEF Usable, Fit
  <2>2. Fit(s)
    BY <2>1, FitStep
  <2>3. sstate[s] = "live"
    BY <2>1, SessionStep DEF SessionInv, Kept
  <2> QED
    BY <2>2, <2>3, UsableFit
<1> QED
  BY <1>1, SessionsInvariant, PTL DEF Spec, SessionsNeverRevive

\* CheckSession's two reads accept only what one read would have accepted.
THEOREM SessionChecksSound == Spec => []SessionCheckSound
<1> QED
  BY SessionsInvariant, PTL DEF SessionInv

-----------------------------------------------------------------------------
(***************************************************************************)
(* Applications.  Here the revision of the row carries the argument: no    *)
(* row changes without it, so a row found at the revision that was read is *)
(* the row that was read.                                                  *)
(***************************************************************************)

\* A row changes only with its revision.
RowsGrow == \A a \in Apps : app'[a] = app[a] \/ app'[a].rev > app[a].rev

\* What an edit in flight would do to the row it was built from.
EditsFresh ==
  \A r \in Requests : pc[r] = "edited" =>
    LET q == work[r]
        x == app[q.app]
    IN  /\ q.row.rev = q.rev + 1 /\ q.rev <= x.rev
        /\ x.rev = q.rev =>
             /\ Holding(x)
             /\ \/ q.row.status = "revoked" /\ q.row.slot = 0 /\ q.row.scopes = x.scopes
                \/ Holding(q.row) /\ q.row.slot = x.slot

AppInv == SuspendedWithOwner /\ ScopesWithinPermissions /\ SlotsExact /\ EditsFresh

\* The goal of every case below.
AppGoal == SuspendedWithOwner' /\ ScopesWithinPermissions' /\ SlotsExact' /\ RowsGrow

LEMMA SlotsStep ==
  ASSUME SlotsExact, \A a \in Apps : SlotKept(app[a], app'[a])
  PROVE  SlotsExact'
BY DEF SlotsExact, SlotKept, Holding

\* Steps that touch neither the applications nor what allows them.
LEMMA AppQuiet ==
  ASSUME AppInv, UNCHANGED <<app, granted, status, must>>
  PROVE  AppGoal
<1>1. ScopesWithinPermissions' /\ SlotsExact' /\ RowsGrow
  BY DEF AppInv, ScopesWithinPermissions, SlotsExact, RowsGrow
<1>2. SuspendedWithOwner'
  BY Zenon DEF AppInv, SuspendedWithOwner
<1> QED
  BY <1>1, <1>2 DEF AppGoal

\* Steps that suspend every application, and those that also remove scopes.
LEMMA AppSuspended ==
  ASSUME TypeOK, AppInv, RevisionsLeft, granted' = granted,
         app' = [a \in Apps |-> Suspend(app[a], FALSE)]
  PROVE  AppGoal
<1>1. app \in [Apps -> AppRows]
  BY DEF TypeOK
<1>2. \A a \in Apps : /\ app'[a].status # "enabled" /\ app'[a].scopes = app[a].scopes
                      /\ app'[a] = app[a] \/ app'[a].rev > app[a].rev
                      /\ SlotKept(app[a], app'[a])
  BY <1>1, SuspendAll
<1>3. SuspendedWithOwner'
  BY <1>2, Zenon DEF SuspendedWithOwner
<1>4. ScopesWithinPermissions'
  BY <1>2 DEF AppInv, ScopesWithinPermissions
<1>5. RowsGrow
  BY <1>2, Zenon DEF RowsGrow
<1> QED
  BY <1>2, <1>3, <1>4, <1>5, SlotsStep DEF AppGoal, AppInv

LEMMA AppStripped ==
  ASSUME TypeOK, AppInv, RevisionsLeft, NEW b \in BOOLEAN,
         app' = [a \in Apps |-> RemoveScopes(Suspend(app[a], b), Gated)]
  PROVE  AppGoal
<1>1. app \in [Apps -> AppRows]
  BY DEF TypeOK
<1>2. \A a \in Apps : /\ app'[a].status # "enabled" /\ app'[a].scopes = app[a].scopes \ Gated
                      /\ app'[a] = app[a] \/ app'[a].rev > app[a].rev
                      /\ SlotKept(app[a], app'[a])
  BY <1>1, StripAll
<1>3. SuspendedWithOwner'
  BY <1>2, Zenon DEF SuspendedWithOwner
<1>4. ScopesWithinPermissions' /\ RowsGrow
  BY <1>2 DEF ScopesWithinPermissions, RowsGrow
<1> QED
  BY <1>2, <1>3, <1>4, SlotsStep DEF AppGoal, AppInv

LEMMA AppPermission ==
  ASSUME TypeOK, AppInv, NEW P, NEW kept, SetPermission(P, kept)
  PROVE  AppGoal
<1>1. app \in [Apps -> AppRows] /\ RevisionsLeft
  BY DEF TypeOK, SetPermission
<1>2. app' = [a \in Apps |-> RemoveScopes(app[a], P \ kept)]
  BY DEF SetPermission
<1>3. \A a \in Apps : /\ app'[a].status = app[a].status
                      /\ app'[a].scopes = app[a].scopes \ (P \ kept)
                      /\ app'[a] = app[a] \/ app'[a].rev > app[a].rev
                      /\ SlotKept(app[a], app'[a])
  <2> SUFFICES ASSUME NEW a \in Apps
               PROVE  /\ app'[a].status = app[a].status
                      /\ app'[a].scopes = app[a].scopes \ (P \ kept)
                      /\ app'[a] = app[a] \/ app'[a].rev > app[a].rev
                      /\ SlotKept(app[a], app'[a])
    OBVIOUS
  <2>1. app'[a] = RemoveScopes(app[a], P \ kept)
    BY <1>2
  <2> QED
    BY <1>1, <2>1, RemoveAll
<1>4. status' = status /\ must' = must /\ granted' = (granted \ P) \cup kept
  BY DEF SetPermission
<1>5. SuspendedWithOwner'
  BY <1>3, <1>4, Zenon DEF SuspendedWithOwner, AppInv
<1>6. ScopesWithinPermissions' /\ RowsGrow
  BY <1>3, <1>4 DEF AppInv, ScopesWithinPermissions, RowsGrow
<1> QED
  BY <1>3, <1>5, <1>6, SlotsStep DEF AppGoal, AppInv

LEMMA AppCreated ==
  ASSUME TypeOK, AppInv, NEW r \in Requests, NEW a \in Apps, NEW scopes \in Requested,
         CreateApplication(r, a, scopes)
  PROVE  AppGoal
<1>1. FreeSlot \in 1..MaxApps /\ FreeSlot \notin SlotsInUse
  BY FreeSlotIsFree DEF TypeOK, CreateApplication
<1>2. app[a] = NoApp /\ app \in [Apps -> AppRows]
  BY DEF CreateApplication, TypeOK
<1>3. /\ app'[a].status = "enabled" /\ app'[a].slot = FreeSlot /\ app'[a].rev = 1
      /\ app'[a].scopes = scopes
      /\ \A b \in Apps \ {a} : app'[b] = app[b]
  BY <1>2 DEF CreateApplication
<1>4. status = "active" /\ status' = status /\ granted' = granted /\ scopes \cap Gated \subseteq granted
  BY DEF CreateApplication, OwnerLocked, OwnerAllows, accountVars
<1>5. ~must /\ must' = must
  BY Zenon DEF CreateApplication, OwnerLocked, OwnerAllows, accountVars
<1>6. SuspendedWithOwner'
  BY <1>4, <1>5, Zenon DEF SuspendedWithOwner
<1>7. ScopesWithinPermissions'
  BY <1>3, <1>4 DEF ScopesWithinPermissions, AppInv
<1>8. RowsGrow
  BY <1>2, <1>3 DEF RowsGrow, NoApp
<1>9. SlotsExact'
  <2>1. \A b \in Apps : app[b].slot # FreeSlot
    BY <1>1, Bounds DEF SlotsInUse
  <2>2. FreeSlot # 0
    BY <1>1, Bounds
  <2> QED
    BY <1>3, <2>1, <2>2 DEF SlotsExact, AppInv
<1> QED
  BY <1>6, <1>7, <1>8, <1>9 DEF AppGoal

LEMMA AppUpdated ==
  ASSUME TypeOK, AppInv, NEW r \in Requests, UpdateOwned(r)
  PROVE  AppGoal
<1> DEFINE q == work[r]
           x == app[q.app]
<1>1. q.app \in Apps /\ app \in [Apps -> AppRows] /\ q.rev \in Nat /\ x.rev \in Nat
  BY Bounds DEF TypeOK, RequestTypes, UpdateOwned, AppRows
<1>2. app'[q.app] = q.row /\ \A b \in Apps \ {q.app} : app'[b] = app[b]
  BY <1>1 DEF UpdateOwned
<1>3. /\ q.row.rev = q.rev + 1 /\ Holding(x)
      /\ \/ q.row.status = "revoked" /\ q.row.slot = 0 /\ q.row.scopes = x.scopes
         \/ Holding(q.row) /\ q.row.slot = x.slot
  BY DEF AppInv, EditsFresh, UpdateOwned
<1>4. x.rev = q.rev
  BY DEF UpdateOwned
<1>5. status = "active" /\ status' = status /\ granted' = granted
  BY DEF UpdateOwned, CommitAllowed, OwnerLocked, OwnerAllows, accountVars
<1>6. ~must /\ must' = must
  BY Zenon DEF UpdateOwned, CommitAllowed, OwnerLocked, OwnerAllows, accountVars
<1>7. q.row.status # "revoked" => q.row.scopes \cap Gated \subseteq granted
  BY DEF UpdateOwned, CommitAllowed, OwnerLocked, OwnerAllows
<1> HIDE DEF q
<1>8. SuspendedWithOwner'
  BY <1>5, <1>6, Zenon DEF SuspendedWithOwner
<1>9. ScopesWithinPermissions'
  BY <1>1, <1>2, <1>3, <1>5, <1>7 DEF ScopesWithinPermissions, AppInv, Holding
<1>10. RowsGrow
  BY <1>1, <1>2, <1>3, <1>4 DEF RowsGrow
<1>11. \A a \in Apps : SlotKept(app[a], app'[a])
  BY <1>1, <1>2, <1>3 DEF SlotKept, Holding
<1> QED
  BY <1>8, <1>9, <1>10, <1>11, SlotsStep DEF AppGoal, AppInv

\* Every step.
LEMMA AppStep ==
  ASSUME TypeOK, AppInv, [Next]_vars
  PROVE  AppGoal
<1>1. ASSUME NEW r \in Requests, Reads(r)  PROVE AppGoal
  BY <1>1, ReadsStill, AppQuiet DEF Still, accountVars
<1>2. ASSUME NEW r \in Requests, Writes(r)  PROVE AppGoal
  <2>1. CASE IssueSession(r) \/ Logout(r) \/ \E clean \in BOOLEAN : StoreIssuedToken(r, clean)
    BY <2>1, AppQuiet DEF IssueSession, Logout, StoreIssuedToken, accountVars
  <2>2. CASE ChangePassword(r) \/ LogoutAll(r)
    BY <2>2, AppSuspended DEF ChangePassword, LogoutAll
  <2>3. CASE \E a \in Apps, scopes \in Requested : CreateApplication(r, a, scopes)
    BY <2>3, AppCreated
  <2>4. CASE UpdateOwned(r)
    BY <2>4, AppUpdated
  <2> QED
    BY <1>2, <2>1, <2>2, <2>3, <2>4 DEF Writes
<1>3. CASE Others
  <2>1. CASE RevokeNext \/ ChangeRole \/ Tick \/ \E n \in Limits : SetLimit(n)
    BY <2>1, AppQuiet DEF RevokeNext, RevokeSessions, RevokeOtherSessions, ChangeRole, Tick, SetLimit,
                          accountVars
  <2>2. ASSUME NEW delete \in BOOLEAN, Ban(delete)  PROVE AppGoal
    BY <2>2, AppStripped DEF Ban
  <2>3. CASE ResetPassword
    BY <2>3, AppStripped DEF ResetPassword
  <2>4. CASE AdminLogoutAll
    BY <2>4, AppSuspended DEF AdminLogoutAll
  <2>5. CASE Unban
    <3>1. ScopesWithinPermissions' /\ SlotsExact' /\ RowsGrow
      BY <2>5 DEF Unban, AppInv, ScopesWithinPermissions, SlotsExact, RowsGrow
    <3>2. SuspendedWithOwner'
      <4>1. status = "banned" /\ must' = must /\ app' = app
        BY <2>5 DEF Unban
      <4> QED
        BY <4>1 DEF AppInv, SuspendedWithOwner
    <3> QED
      BY <3>1, <3>2 DEF AppGoal
  <2>6. ASSUME NEW P, NEW kept, SetPermission(P, kept)  PROVE AppGoal
    BY <2>6, AppPermission
  <2> QED
    BY <1>3, <2>1, <2>2, <2>3, <2>4, <2>5, <2>6 DEF Others, AdminNext
<1>4. CASE UNCHANGED vars
  BY <1>4, AppQuiet DEF vars, accountVars
<1> QED
  BY <1>1, <1>2, <1>3, <1>4, Kinds

\* Where a request with an application in hand comes from.
Built(r) ==
  \E a \in Apps : \E row \in Edits(app[a]) : ReadApplication(r, a, row)
Fetched(r) ==
  (\E a \in Apps : ReadCredential(r, a)) \/ \E t \in Tokens : ReadToken(r, t)

LEMMA WorkStep ==
  ASSUME TypeOK, [Next]_vars, NEW r \in Requests
  PROVE  /\ pc'[r] = "edited" => Built(r) \/ (pc[r] = "edited" /\ work'[r] = work[r])
         /\ pc'[r] \in {"issuing", "token", "authenticated"} =>
              \/ Fetched(r)
              \/ /\ work'[r] = work[r] /\ cred'[r] = cred[r]
                 /\ pc'[r] = pc[r] \/ (Still /\ pc[r] = "token" /\ pc'[r] = "authenticated")
         /\ pc'[r] = "written" => pc[r] = "written" \/ LibraryWrite(r)
<1> DEFINE Goal ==
  /\ pc'[r] = "edited" => Built(r) \/ (pc[r] = "edited" /\ work'[r] = work[r])
  /\ pc'[r] \in {"issuing", "token", "authenticated"} =>
       \/ Fetched(r)
       \/ /\ work'[r] = work[r] /\ cred'[r] = cred[r]
          /\ pc'[r] = pc[r] \/ (Still /\ pc[r] = "token" /\ pc'[r] = "authenticated")
  /\ pc'[r] = "written" => pc[r] = "written" \/ LibraryWrite(r)
<1>0. RequestTypes
  BY DEF TypeOK
<1>1. ASSUME NEW q \in Requests, Reads(q)  PROVE Goal
  <2>0. Still
    BY <1>1, ReadsStill
  <2>1. CASE \E entry \in {"login", "issue"}, upgrade \in BOOLEAN : Authenticate(q, entry, upgrade)
    BY <1>0, <2>1 DEF Authenticate, RequestTypes
  <2>2. CASE \E s \in Sessions, route \in SessionOps : ReadSession(q, s, route)
    BY <1>0, <2>2 DEF ReadSession, RequestTypes
  <2>3. CASE CheckSession(q) \/ VerifyCurrent(q)
    BY <1>0, <2>3 DEF CheckSession, VerifyCurrent, RequestTypes
  <2>4. CASE Finish(q)
    BY <1>0, <2>4 DEF Finish, End, RequestTypes
  <2>5. CASE Built(q)
    BY <1>0, <2>5 DEF Built, ReadApplication, RequestTypes
  <2>6. CASE Fetched(q)
    BY <1>0, <2>6 DEF Fetched, ReadCredential, ReadToken, RequestTypes
  <2>7. CASE AuthenticateToken(q)
    BY <1>0, <2>0, <2>7 DEF AuthenticateToken, RequestTypes
  <2>8. CASE LibraryWrite(q)
    BY <1>0, <2>8 DEF LibraryWrite, RequestTypes
  <2> QED
    BY <1>1, <2>1, <2>2, <2>3, <2>4, <2>5, <2>6, <2>7, <2>8 DEF Reads, Built, Fetched
<1>2. ASSUME NEW q \in Requests, Writes(q)  PROVE Goal
  BY <1>0, <1>2, WritesEnd DEF End, RequestTypes
<1>3. CASE Others
  BY <1>3, OthersKeepRequests DEF reqVars
<1>4. CASE UNCHANGED vars
  BY <1>4 DEF vars, reqVars
<1> QED
  BY <1>1, <1>2, <1>3, <1>4, Kinds

LEMMA AppInvStep == TypeOK /\ AppInv /\ [Next]_vars => AppInv'
<1> SUFFICES ASSUME TypeOK, AppInv, [Next]_vars  PROVE AppInv'
  OBVIOUS
<1>1. AppGoal /\ TypeOK'
  BY AppStep, TypeStep
<1>2. app \in [Apps -> AppRows] /\ app' \in [Apps -> AppRows]
  BY <1>1 DEF TypeOK
<1>3. EditsFresh'
  <2> SUFFICES ASSUME NEW r \in Requests, pc'[r] = "edited"
               PROVE  LET q == work'[r]
                          x == app'[q.app]
                      IN  /\ q.row.rev = q.rev + 1 /\ q.rev <= x.rev
                          /\ x.rev = q.rev =>
                               /\ Holding(x)
                               /\ \/ /\ q.row.status = "revoked" /\ q.row.slot = 0
                                     /\ q.row.scopes = x.scopes
                                  \/ Holding(q.row) /\ q.row.slot = x.slot
    BY DEF EditsFresh, Holding
  <2>1. CASE pc[r] = "edited" /\ work'[r] = work[r]
    <3> DEFINE q == work[r]
               x == app[q.app]
               y == app'[q.app]
    <3>1. /\ q.row.rev = q.rev + 1 /\ q.rev <= x.rev
          /\ x.rev = q.rev =>
               /\ Holding(x)
               /\ \/ q.row.status = "revoked" /\ q.row.slot = 0 /\ q.row.scopes = x.scopes
                  \/ Holding(q.row) /\ q.row.slot = x.slot
      BY <2>1 DEF AppInv, EditsFresh
    <3>2. q.app \in Apps /\ q.rev \in Nat
      BY <2>1 DEF TypeOK, RequestTypes
    <3>3. y = x \/ y.rev > x.rev
      BY <1>1, <3>2 DEF AppGoal, RowsGrow
    <3>4. x.rev \in Nat /\ y.rev \in Nat
      BY <1>2, <3>2, Bounds DEF AppRows
    <3> HIDE DEF x, y, q
    <3>5. q.rev <= y.rev /\ (y.rev = q.rev => y = x)
      BY <3>1, <3>2, <3>3, <3>4
    <3> QED
      BY <2>1, <3>1, <3>5 DEF x, y, q
  <2>2. ASSUME NEW a \in Apps, NEW row \in Edits(app[a]), ReadApplication(r, a, row)
        PROVE  /\ work'[r].row.rev = work'[r].rev + 1
               /\ work'[r].rev <= app'[work'[r].app].rev
               /\ Holding(app'[work'[r].app])
               /\ \/ /\ work'[r].row.status = "revoked" /\ work'[r].row.slot = 0
                     /\ work'[r].row.scopes = app'[work'[r].app].scopes
                  \/ Holding(work'[r].row) /\ work'[r].row.slot = app'[work'[r].app].slot
    <3>1. work'[r] = [app |-> a, row |-> row, rev |-> app[a].rev, time |-> now] /\ app' = app
          /\ Holding(app[a]) /\ app[a].rev < MaxRevision
      BY <2>2 DEF ReadApplication, TypeOK, RequestTypes, Holding
    <3>2. app[a] \in AppRows /\ app[a].rev \in Nat /\ now \in Nat
      BY <1>2, Bounds DEF AppRows, TypeOK, AccountTypes
    <3>3. /\ row.rev = app[a].rev + 1
          /\ \/ row.status = "revoked" /\ row.slot = 0 /\ row.scopes = app[a].scopes
             \/ row.status \in {"enabled", "disabled"} /\ row.slot = app[a].slot
             \/ row.status = app[a].status /\ row.slot = app[a].slot
      BY <3>1, <3>2, EditRows
    <3> QED
      BY <3>1, <3>2, <3>3 DEF Holding
  <2> QED
    BY <2>1, <2>2, WorkStep DEF Built
<1> QED
  BY <1>1, <1>3 DEF AppGoal, AppInv

LEMMA AppInit == Init => AppInv
BY DEF Init, AppInv, SuspendedWithOwner, ScopesWithinPermissions, SlotsExact, EditsFresh, NoApp

LEMMA AppsInvariant == Spec => [](TypeOK /\ AppInv)
<1> QED
  BY TypeInit, TypeStep, AppInit, AppInvStep, PTL DEF Spec

\* Whatever edits are in flight when an owner is banned or reset, no application of
\* the account stays or becomes enabled.
THEOREM OwnersSuspend == Spec => []SuspendedWithOwner
<1> QED
  BY AppsInvariant, PTL DEF AppInv

\* Withdrawing a permission and widening an application never leave a scope the
\* owner may not use.
THEOREM ScopesCovered == Spec => []ScopesWithinPermissions
<1> QED
  BY AppsInvariant, PTL DEF AppInv

\* allocateApplicationSlot never gives one slot to two applications, and a revoked
\* application holds none, so no account has more than MaxApps.
THEOREM SlotsAreExact == Spec => []SlotsExact
<1> QED
  BY AppsInvariant, PTL DEF AppInv

-----------------------------------------------------------------------------
(***************************************************************************)
(* Tokens.  By the two invariants above a token whose snapshot is still    *)
(* its application's row is covered by its owner; and a row never returns  *)
(* to a revision it has left.                                              *)
(***************************************************************************)

\* A token's snapshot is of the past of its application, or its present.
TokensPast ==
  /\ \A t \in Tokens : t >= nextT => token[t] = NoToken
  /\ \A t \in Tokens : token[t].app \in Apps => token[t].rev <= app[token[t].app].rev

\* An application row in hand is the present one if the revision still matches.
RowsInHand ==
  \A r \in Requests :
    /\ pc[r] \in {"issuing", "token", "authenticated"} =>
         /\ work[r].rev <= app[work[r].app].rev
         /\ app[work[r].app].rev = work[r].rev => app[work[r].app] = work[r].row
    /\ pc[r] = "issuing" => work[r].time <= now

\* A token presented was valid when it was read, and is still there until it expires.
Snapshot(q) == [app |-> q.app, rev |-> q.rev, secret |-> q.row.secret,
                scopes |-> q.row.scopes, expires |-> q.time]
TokensInHand ==
  \A r \in Requests : pc[r] \in {"token", "authenticated"} =>
    /\ cred[r].valid
    /\ cred[r].id \in Tokens /\ cred[r].id < nextT
    /\ token[cred[r].id] = Snapshot(work[r]) \/ work[r].time <= now

TokenInv == TokensPast /\ RowsInHand /\ TokensInHand

\* The one operation that writes tokens.
LEMMA TokenWrites ==
  ASSUME [Next]_vars
  PROVE  (\E r \in Requests, clean \in BOOLEAN : StoreIssuedToken(r, clean)) \/ UNCHANGED tokenVars
<1>1. ASSUME NEW r \in Requests, Reads(r)  PROVE UNCHANGED tokenVars
  BY <1>1, ReadsStill DEF Still
<1>2. ASSUME NEW r \in Requests, Writes(r), ~\E clean \in BOOLEAN : StoreIssuedToken(r, clean)
      PROVE  UNCHANGED tokenVars
  BY <1>2 DEF Writes, IssueSession, Logout, ChangePassword, LogoutAll, CreateApplication, UpdateOwned
<1>3. CASE Others
  BY <1>3 DEF Others, RevokeNext, RevokeSessions, RevokeOtherSessions, AdminNext, Ban, Unban,
              ChangeRole, SetPermission, AdminLogoutAll, ResetPassword, SetLimit, Tick
<1>4. CASE UNCHANGED vars
  BY <1>4 DEF vars
<1> QED
  BY <1>1, <1>2, <1>3, <1>4, Kinds

\* What a step may do to a token.
LEMMA TokenStep ==
  ASSUME TypeOK, TokenInv, [Next]_vars, NEW t \in Tokens
  PROVE  /\ t < nextT => /\ t < nextT'
                         /\ \/ token'[t] = token[t]
                            \/ token'[t] = NoToken /\ token[t].expires <= now
         /\ t >= nextT =>
              \/ t >= nextT' /\ token'[t] = NoToken
              \/ \E r \in Requests :
                   /\ app' = app /\ work[r].app \in Apps
                   /\ token'[t].app = work[r].app /\ token'[t].rev = work[r].rev
                   /\ app[work[r].app].rev = work[r].rev
                   /\ t < nextT'
<1>1. nextT \in Nat /\ t \in Nat /\ now \in Nat /\ token[t] \in TokenRows
  <2>1. now \in Nat
    BY DEF TypeOK, AccountTypes
  <2>2. nextT \in Nat /\ t \in Nat /\ token[t] \in TokenRows
    BY Bounds DEF TypeOK, TokenTypes, Tokens
  <2> QED
    BY <2>1, <2>2
<1>2. t >= nextT => token[t] = NoToken
  BY DEF TokenInv, TokensPast
<1>3. CASE UNCHANGED tokenVars
  BY <1>1, <1>2, <1>3 DEF tokenVars
<1>4. ASSUME NEW r \in Requests, NEW clean \in BOOLEAN, StoreIssuedToken(r, clean)
      PROVE  /\ nextT' = nextT + 1 /\ app' = app /\ work[r].app \in Apps
             /\ app[work[r].app].rev = work[r].rev
             /\ t = nextT => token'[t].app = work[r].app /\ token'[t].rev = work[r].rev
             /\ t # nextT => \/ token'[t] = token[t]
                             \/ token'[t] = NoToken /\ token[t].expires <= work[r].time
             /\ work[r].time <= now /\ work[r].time \in Nat
  BY <1>4 DEF StoreIssuedToken, TypeOK, RequestTypes, TokenInv, RowsInHand
<1>5. token[t].expires \in Nat
  BY <1>1 DEF TokenRows, NoToken
<1> QED
  BY <1>1, <1>2, <1>3, <1>4, <1>5, TokenWrites

\* A token whose snapshot matches is valid: its owner need not be asked.
LEMMA MatchingValid ==
  ASSUME TypeOK, AppInv, NEW t \in Tokens, token[t].app \in Apps, token[t].expires > now,
         MatchesSnapshot(app[token[t].app], token[t])
  PROVE  TokenValid(t)
<1>1. app[token[t].app].status = "enabled" /\ token[t].scopes = app[token[t].app].scopes
  BY DEF MatchesSnapshot
<1>2. status = "active" /\ ~must
  BY <1>1, Zenon DEF AppInv, SuspendedWithOwner
<1>3. token[t].scopes \cap Gated \subseteq granted
  BY <1>1 DEF AppInv, ScopesWithinPermissions
<1>4. OwnerAllows(token[t].scopes)
  BY <1>2, <1>3, Zenon DEF OwnerAllows
<1> QED
  BY <1>4, Zenon DEF TokenValid, MatchesSnapshot

LEMMA TokenInit == Init => TokenInv
BY AccountsAssumption DEF Init, TokenInv, TokensPast, RowsInHand, TokensInHand, NoToken

LEMMA TokenInvStep == TypeOK /\ AppInv /\ TokenInv /\ [Next]_vars => TokenInv'
<1> SUFFICES ASSUME TypeOK, AppInv, TokenInv, [Next]_vars  PROVE TokenInv'
  OBVIOUS
<1>1. RowsGrow /\ TypeOK' /\ now <= now'
  BY AppStep, TypeStep, AccountStep DEF AppGoal, Aged
<1>2. /\ \A a \in Apps : app[a].rev \in Nat /\ app'[a].rev \in Nat
      /\ now \in Nat /\ now' \in Nat /\ nextT \in Nat /\ nextT' \in Nat
      /\ \A t \in Tokens : t \in Nat
  <2>1. \A a \in Apps : app[a].rev \in Nat /\ app'[a].rev \in Nat
    BY <1>1, Bounds DEF TypeOK, AppRows
  <2>2. now \in Nat /\ now' \in Nat
    BY <1>1 DEF TypeOK, AccountTypes
  <2>3. nextT \in Nat /\ nextT' \in Nat /\ \A t \in Tokens : t \in Nat
    BY <1>1, Bounds DEF TypeOK, TokenTypes, Tokens
  <2> QED
    BY <2>1, <2>2, <2>3
<1>3. NoToken.app \notin Apps
  BY AccountsAssumption DEF NoToken
<1>4. TokensPast'
  <2> SUFFICES ASSUME NEW t \in Tokens
               PROVE  /\ t >= nextT' => token'[t] = NoToken
                      /\ token'[t].app \in Apps => token'[t].rev <= app'[token'[t].app].rev
    BY DEF TokensPast
  <2>1. CASE t < nextT
    <3>1. t < nextT' /\ (token'[t] = token[t] \/ token'[t] = NoToken)
      BY <2>1, TokenStep
    <3>2. token[t].app \in Apps => token[t].rev <= app[token[t].app].rev
      BY DEF TokenInv, TokensPast
    <3>3. token[t].app \in Apps => token[t].rev \in Nat
      BY <1>3 DEF TypeOK, TokenTypes, TokenRows
    <3>4. token[t].app \in Apps => token[t].rev <= app'[token[t].app].rev
      BY <1>1, <1>2, <3>2, <3>3 DEF RowsGrow
    <3> QED
      BY <1>2, <1>3, <3>1, <3>4
  <2>2. CASE t >= nextT
    <3>1. CASE t >= nextT' /\ token'[t] = NoToken
      BY <1>3, <3>1
    <3>2. ASSUME NEW r \in Requests, app' = app, work[r].app \in Apps,
                 token'[t].app = work[r].app, token'[t].rev = work[r].rev,
                 app[work[r].app].rev = work[r].rev, t < nextT'
          PROVE  /\ t >= nextT' => token'[t] = NoToken
                 /\ token'[t].app \in Apps => token'[t].rev <= app'[token'[t].app].rev
      BY <1>2, <3>2
    <3> QED
      BY <2>2, <3>1, <3>2, TokenStep
  <2> QED
    BY <1>2, <2>1, <2>2
<1>5. RowsInHand'
  <2> SUFFICES ASSUME NEW r \in Requests, pc'[r] \in {"issuing", "token", "authenticated"}
               PROVE  /\ work'[r].rev <= app'[work'[r].app].rev
                      /\ app'[work'[r].app].rev = work'[r].rev => app'[work'[r].app] = work'[r].row
                      /\ pc'[r] = "issuing" => work'[r].time <= now'
    BY DEF RowsInHand
  <2>1. CASE Fetched(r)
    <3>1. ASSUME NEW a \in Apps, ReadCredential(r, a)
          PROVE  /\ work'[r] = [app |-> a, row |-> app[a], rev |-> app[a].rev, time |-> now]
                 /\ app' = app /\ now' = now
      BY <3>1 DEF ReadCredential, TypeOK, RequestTypes
    <3>2. ASSUME NEW t \in Tokens, ReadToken(r, t)
          PROVE  /\ work'[r] = [app |-> token[t].app, row |-> app[token[t].app],
                                rev |-> token[t].rev, time |-> token[t].expires]
                 /\ app' = app /\ pc'[r] = "token" /\ token[t].app \in Apps
                 /\ app[token[t].app].rev = token[t].rev
      BY <3>2 DEF ReadToken, MatchesSnapshot, TypeOK, TokenTypes, TokenRows, RequestTypes
    <3>3. CASE \E a \in Apps : ReadCredential(r, a)
      <4>1. PICK a \in Apps : ReadCredential(r, a)
        BY <3>3
      <4>2. /\ work'[r] = [app |-> a, row |-> app[a], rev |-> app[a].rev, time |-> now]
            /\ app' = app /\ now' = now
        BY <3>1, <4>1
      <4> QED
        BY <1>2, <4>2
    <3>4. CASE \E t \in Tokens : ReadToken(r, t)
      <4>1. PICK t \in Tokens : ReadToken(r, t)
        BY <3>4
      <4>2. /\ work'[r] = [app |-> token[t].app, row |-> app[token[t].app],
                           rev |-> token[t].rev, time |-> token[t].expires]
            /\ app' = app /\ pc'[r] = "token" /\ token[t].app \in Apps
            /\ app[token[t].app].rev = token[t].rev
        BY <3>2, <4>1
      <4> QED
        BY <1>2, <4>2
    <3> QED
      BY <2>1, <3>3, <3>4 DEF Fetched
  <2>2. CASE work'[r] = work[r] /\ pc[r] \in {"issuing", "token", "authenticated"}
             /\ (pc'[r] = "issuing" => pc[r] = "issuing")
    <3>1. work[r].app \in Apps /\ work[r].rev \in Nat /\ work[r].time \in Nat
      BY <2>2 DEF TypeOK, RequestTypes
    <3>2. /\ work[r].rev <= app[work[r].app].rev
          /\ app[work[r].app].rev = work[r].rev => app[work[r].app] = work[r].row
          /\ pc[r] = "issuing" => work[r].time <= now
      BY <2>2 DEF TokenInv, RowsInHand
    <3>3. app'[work[r].app] = app[work[r].app] \/ app'[work[r].app].rev > app[work[r].app].rev
      BY <1>1, <3>1 DEF RowsGrow
    <3>4. /\ work[r].rev <= app'[work[r].app].rev
          /\ app'[work[r].app].rev = work[r].rev => app'[work[r].app] = work[r].row
      BY <1>2, <3>1, <3>2, <3>3
    <3>5. pc[r] = "issuing" => work[r].time <= now'
      BY <1>1, <1>2, <3>1, <3>2
    <3> QED
      BY <2>2, <3>4, <3>5
  <2> QED
    BY <2>1, <2>2, WorkStep
<1>6. TokensInHand'
  <2> SUFFICES ASSUME NEW r \in Requests, pc'[r] \in {"token", "authenticated"}
               PROVE  /\ cred'[r].valid /\ cred'[r].id \in Tokens /\ cred'[r].id < nextT'
                      /\ token'[cred'[r].id] = Snapshot(work'[r]) \/ work'[r].time <= now'
    BY DEF TokensInHand, Snapshot
  <2>1. ASSUME NEW t \in Tokens, ReadToken(r, t)
        PROVE  /\ cred'[r].valid /\ cred'[r].id \in Tokens /\ cred'[r].id < nextT'
               /\ token'[cred'[r].id] = Snapshot(work'[r])
    <3>1. /\ work'[r] = [app |-> token[t].app, row |-> app[token[t].app],
                         rev |-> token[t].rev, time |-> token[t].expires]
          /\ cred'[r] = [id |-> t, valid |-> TokenValid(t)]
          /\ token' = token /\ nextT' = nextT
      BY <2>1 DEF ReadToken, TypeOK, RequestTypes, tokenVars
    <3>2. /\ token[t] # NoToken /\ token[t].expires > now
          /\ MatchesSnapshot(app[token[t].app], token[t])
      BY <2>1 DEF ReadToken
    <3>3. token[t] \in [app : Apps, rev : Nat, secret : Nat, scopes : SUBSET AllScopes, expires : Nat]
      BY <3>2 DEF TypeOK, TokenTypes, TokenRows
    <3>4. TokenValid(t)
      BY <3>2, <3>3, MatchingValid
    <3>5. t < nextT
      BY <1>2, <3>2 DEF TokenInv, TokensPast
    <3>6. token[t] = Snapshot(work'[r])
      BY <3>1, <3>2, <3>3 DEF Snapshot, MatchesSnapshot
    <3>7. cred'[r].valid
      BY <3>1, <3>4
    <3>8. cred'[r].id = t
      BY <3>1
    <3>9. token' = token /\ nextT' = nextT
      BY <3>1
    <3> QED
      BY <3>5, <3>6, <3>7, <3>8, <3>9, Zenon
  <2>2. CASE work'[r] = work[r] /\ cred'[r] = cred[r] /\ pc[r] \in {"token", "authenticated"}
    <3>1. /\ cred[r].valid /\ cred[r].id \in Tokens /\ cred[r].id < nextT
          /\ token[cred[r].id] = Snapshot(work[r]) \/ work[r].time <= now
      BY <2>2 DEF TokenInv, TokensInHand
    <3>2. /\ cred[r].id < nextT'
          /\ \/ token'[cred[r].id] = token[cred[r].id]
             \/ token[cred[r].id].expires <= now
      BY <3>1, TokenStep
    <3>3. token[cred[r].id] = Snapshot(work[r]) => token[cred[r].id].expires = work[r].time
      BY DEF Snapshot
    <3>4. work[r].time \in Nat
      BY DEF TypeOK, RequestTypes
    <3>5. work[r].time <= now => work[r].time <= now'
      BY <1>1, <1>2, <3>4
    <3> QED
      BY <2>2, <3>1, <3>2, <3>3, <3>5
  <2>3. ~\E a \in Apps : ReadCredential(r, a)
    BY DEF ReadCredential, TypeOK, RequestTypes
  <2> QED
    BY <2>1, <2>2, <2>3, WorkStep DEF Fetched
<1> QED
  BY <1>4, <1>5, <1>6 DEF TokenInv

LEMMA TokensInvariant == Spec => [](TypeOK /\ AppInv /\ TokenInv)
<1> QED
  BY TypeInit, TypeStep, AppInit, AppInvStep, TokenInit, TokenInvStep, PTL DEF Spec

\* No disabling and enabling, narrowing and widening, banning and restoring makes a
\* token that was refused once good again.
THEOREM NoTokenRevives == Spec => TokensNeverRevive
<1>1. TypeOK /\ AppInv /\ TokenInv /\ [Next]_vars =>
        [\A t \in Tokens : token[t] # NoToken /\ ~TokenValid(t) => ~TokenValid(t)']_vars
  <2> SUFFICES ASSUME TypeOK, AppInv, TokenInv, [Next]_vars,
                      NEW t \in Tokens, token[t] # NoToken, TokenValid(t)'
               PROVE  TokenValid(t)
    OBVIOUS
  <2>1. RowsGrow /\ now <= now' /\ TypeOK'
    BY AppStep, AccountStep, TypeStep DEF AppGoal, Aged
  <2>2. now \in Nat /\ now' \in Nat /\ nextT \in Nat /\ t \in Nat
    BY <2>1, Bounds DEF TypeOK, AccountTypes, TokenTypes, Tokens
  <2>3. token[t] \in [app : Apps, rev : Nat, secret : Nat, scopes : SUBSET AllScopes, expires : Nat]
    BY DEF TypeOK, TokenTypes, TokenRows
  <2> DEFINE a == token[t].app
             x == app[a]
             y == app'[a]
  <2>4. a \in Apps /\ x.rev \in Nat /\ y.rev \in Nat /\ x.expires \in Nat
    BY <2>1, <2>3, Bounds DEF TypeOK, AppRows
  <2>5. token'[t].app \in Apps
    BY DEF TokenValid
  <2>6. token'[t] = token[t]
    <3>1. t < nextT
      BY <2>2 DEF TokenInv, TokensPast
    <3>2. token'[t] # NoToken
      BY <2>5, AccountsAssumption DEF NoToken
    <3> QED
      BY <3>1, <3>2, TokenStep
  <2>7. /\ token[t].expires > now' /\ y.status = "enabled" /\ y.expires > now'
        /\ y.rev = token[t].rev /\ y.secret = token[t].secret /\ y.scopes = token[t].scopes
    BY <2>6 DEF TokenValid
  <2>8. token[t].rev <= x.rev /\ (y = x \/ y.rev > x.rev)
    BY <2>1, <2>4 DEF TokenInv, TokensPast, RowsGrow
  <2>9. y = x
    BY <2>3, <2>4, <2>7, <2>8
  <2>10. token[t].expires > now /\ x.expires > now
    BY <2>1, <2>2, <2>3, <2>4, <2>7, <2>9
  <2>11. MatchesSnapshot(x, token[t])
    BY <2>7, <2>9, <2>10 DEF MatchesSnapshot
  <2> QED
    BY <2>4, <2>10, <2>11, MatchingValid
<1> QED
  BY <1>1, TokensInvariant, PTL DEF Spec, TokensNeverRevive

\* AuthenticateToken accepts only a token that was valid when its application was
\* read, though it reads the owner later.
THEOREM TokenChecksSound == Spec => []TokenCheckSound
<1>1. TokenInv => TokenCheckSound
  BY DEF TokenInv, TokensInHand, TokenCheckSound
<1> QED
  BY <1>1, TokensInvariant, PTL

\* RequireLibraryWriteTx lets a write through only while its token is valid, however
\* long ago the token was authenticated.
THEOREM WritesAreAuthorised == Spec => WritesAuthorised
<1>1. TypeOK /\ AppInv /\ TokenInv /\ [Next]_vars =>
        [\A r \in Requests :
           pc[r] = "authenticated" /\ pc'[r] = "written" => TokenValid(cred[r].id)]_vars
  <2> SUFFICES ASSUME TypeOK, AppInv, TokenInv, [Next]_vars,
                      NEW r \in Requests, pc[r] = "authenticated", pc'[r] = "written"
               PROVE  TokenValid(cred[r].id)
    OBVIOUS
  <2> DEFINE q == work[r]
             t == cred[r].id
             x == app[q.app]
  <2>1. LibraryWrite(r)
    BY WorkStep
  <2>2. /\ x.status = "enabled" /\ x.rev = q.rev /\ x.expires > now /\ q.time > now
    BY <2>1 DEF LibraryWrite, SnapshotHolds
  <2>3. q.app \in Apps /\ q.time \in Nat /\ now \in Nat
    BY DEF TypeOK, RequestTypes, AccountTypes
  <2>4. x = q.row
    BY <2>2 DEF TokenInv, RowsInHand
  <2>5. t \in Tokens /\ (token[t] = Snapshot(q) \/ q.time <= now)
    BY DEF TokenInv, TokensInHand
  <2>6. token[t] = Snapshot(q)
    BY <2>2, <2>3, <2>5
  <2>7. /\ token[t].app = q.app /\ token[t].rev = q.rev /\ token[t].secret = q.row.secret
        /\ token[t].scopes = q.row.scopes /\ token[t].expires = q.time
    BY <2>6 DEF Snapshot
  <2>8. MatchesSnapshot(app[token[t].app], token[t])
    BY <2>2, <2>4, <2>7 DEF MatchesSnapshot
  <2> QED
    BY <2>2, <2>3, <2>5, <2>7, <2>8, MatchingValid
<1> QED
  BY <1>1, TokensInvariant, PTL DEF Spec, WritesAuthorised

-----------------------------------------------------------------------------
(* The session limit: counting the oldest sessions. *)

\* The place of a number among those of a set.
Rank(U, s) == Cardinality({x \in U : x <= s})

\* Places go from 1 to the size of the set, in the order of the numbers.
LEMMA RankOrder ==
  ASSUME NEW U \in SUBSET Nat, IsFiniteSet(U)
  PROVE  /\ \A s \in U : Rank(U, s) \in 1..Cardinality(U)
         /\ \A s, t \in U : s < t => Rank(U, s) < Rank(U, t)
<1> DEFINE Upto(s) == {x \in U : x <= s}
<1>1. ASSUME NEW s \in U
      PROVE  IsFiniteSet(Upto(s)) /\ Cardinality(Upto(s)) \in 1..Cardinality(U)
  <2>1. IsFiniteSet(Upto(s)) /\ Cardinality(Upto(s)) <= Cardinality(U)
    <3>1. Upto(s) \in SUBSET U
      OBVIOUS
    <3> QED
      BY <3>1, FS_Subset, Zenon
  <2>2. Cardinality(Upto(s)) \in Nat /\ Cardinality(U) \in Nat
    BY <2>1, FS_CardinalityType
  <2>3. s \in Upto(s)
    BY SMT
  <2>4. Cardinality(Upto(s)) # 0
    BY <2>1, <2>3, FS_EmptySet
  <2> QED
    BY <2>1, <2>2, <2>4
<1>2. ASSUME NEW s \in U, NEW t \in U, s < t
      PROVE  Rank(U, s) < Rank(U, t)
  <2>0. s \in Nat /\ t \in Nat /\ \A x \in U : x \in Nat
    OBVIOUS
  <2>1. \A x \in U : x <= s => x <= t
    BY <1>2, <2>0
  <2>2. Upto(s) \in SUBSET Upto(t)
    BY <2>1
  <2>3. t \in Upto(t) /\ t \notin Upto(s)
    BY <1>2, <2>0
  <2>4. /\ Cardinality(Upto(s)) <= Cardinality(Upto(t))
        /\ Cardinality(Upto(s)) # Cardinality(Upto(t))
    BY <1>1, <2>2, <2>3, FS_Subset
  <2>5. Cardinality(Upto(s)) \in Nat /\ Cardinality(Upto(t)) \in Nat
    BY <1>1, FS_CardinalityType
  <2> QED
    BY <2>4, <2>5 DEF Rank
<1> QED
  BY <1>1, <1>2 DEF Rank

\* As many numbers as one asks for have one of the first places.
LEMMA OldestCount ==
  ASSUME NEW U \in SUBSET Nat, IsFiniteSet(U), NEW k \in 1..Cardinality(U)
  PROVE  Cardinality({s \in U : Rank(U, s) <= k}) = k
<1> DEFINE n == Cardinality(U)
           f == [s \in U |-> Rank(U, s)]
           First == {s \in U : Rank(U, s) <= k}
           g == [s \in First |-> Rank(U, s)]
<1>1. n \in Nat /\ k \in Nat /\ k >= 1 /\ k <= n
  BY FS_CardinalityType
<1>2. IsFiniteSet(1..n) /\ Cardinality(1..n) = n /\ IsFiniteSet(1..k) /\ Cardinality(1..k) = k
  BY <1>1, FS_Interval
<1>3. \A s \in U : Rank(U, s) \in 1..n
  BY RankOrder
<1>4. \A s, t \in U : Rank(U, s) = Rank(U, t) => s = t
  <2> SUFFICES ASSUME NEW s \in U, NEW t \in U, Rank(U, s) = Rank(U, t), s # t PROVE FALSE
    OBVIOUS
  <2>1. s \in Nat /\ t \in Nat
    OBVIOUS
  <2>2. s < t \/ t < s
    BY <2>1
  <2>3. Rank(U, s) < Rank(U, t) \/ Rank(U, t) < Rank(U, s)
    BY <2>2, RankOrder
  <2>4. Rank(U, s) \in Nat /\ Rank(U, t) \in Nat
    BY <1>1, <1>3
  <2> QED
    BY <2>3, <2>4
<1>5. f \in Injection(U, 1..n)
  BY <1>3, <1>4 DEF Injection, IsInjective
<1>6. f \in Surjection(U, 1..n)
  BY <1>2, <1>5, FS_Injection
<1>7. \A i \in 1..n : \E s \in U : Rank(U, s) = i
  BY <1>6 DEF Surjection
<1>8. IsFiniteSet(First) /\ First \subseteq U
  BY FS_Subset
<1>9. g \in Bijection(First, 1..k)
  <2>1. \A s \in First : Rank(U, s) \in 1..k
    BY <1>1, <1>3
  <2>2. g \in Injection(First, 1..k)
    BY <1>4, <1>8, <2>1 DEF Injection, IsInjective
  <2>3. ASSUME NEW i \in 1..k PROVE \E s \in First : g[s] = i
    <3>1. i \in 1..n /\ i <= k
      BY <1>1
    <3>2. PICK s \in U : Rank(U, s) = i
      BY <1>7, <3>1
    <3> QED
      BY <3>1, <3>2
  <2>4. g \in Surjection(First, 1..k)
    BY <2>1, <2>3 DEF Surjection
  <2> QED
    BY <2>2, <2>4 DEF Bijection
<1>10. Cardinality(1..k) = Cardinality(First)
  BY <1>8, <1>9, FS_Bijection DEF ExistsBijection
<1> QED
  BY <1>2, <1>10

\* What a login leaves of a set of sessions: together with its own one the limit is
\* kept, reached if any had to go, and those that go are older than those that stay.
LEMMA EvictionKeepsLimit ==
  ASSUME NEW U \in SUBSET Nat, IsFiniteSet(U), limit \in Nat, limit > 0
  PROVE  /\ Evicted(U) \subseteq U
         /\ Cardinality(U \ Evicted(U)) + 1 <= limit
         /\ Evicted(U) # {} => Cardinality(U \ Evicted(U)) + 1 = limit
         /\ \A x \in Evicted(U), y \in U \ Evicted(U) : x < y
<1> DEFINE n == Cardinality(U)
           k == n - limit + 1
           gone == {s \in U : Rank(U, s) <= k}
<1>1. Evicted(U) = gone
  BY DEF Evicted, Rank
<1>2. n \in Nat /\ k \in Int /\ k <= n
  BY FS_CardinalityType
<1>3. \A s \in U : Rank(U, s) \in 1..n
  BY RankOrder
<1>4. U \cap gone = gone
  OBVIOUS
<1>5. Cardinality(U \ gone) = n - Cardinality(gone)
  <2>1. Cardinality(U \ gone) = Cardinality(U) - Cardinality(U \cap gone)
    BY FS_Difference, Zenon
  <2> QED
    BY <1>4, <2>1
<1>6. ASSUME NEW x \in gone, NEW y \in U \ gone PROVE x < y
  <2>1. x \in Nat /\ y \in Nat /\ Rank(U, x) \in Nat /\ Rank(U, y) \in Nat
    BY <1>2, <1>3
  <2>2. Rank(U, x) < Rank(U, y)
    BY <1>2, <2>1
  <2>3. CASE y < x
    <3>1. Rank(U, y) < Rank(U, x)
      BY <2>3, RankOrder
    <3> QED
      BY <2>1, <2>2, <3>1
  <2>4. CASE y = x
    BY <2>1, <2>2, <2>4
  <2> QED
    BY <2>1, <2>3, <2>4
<1>7. CASE k >= 1
  <2>1. k \in 1..n
    BY <1>2, <1>7
  <2>2. Cardinality(gone) = k
    BY <2>1, OldestCount
  <2>3. Cardinality(U \ gone) + 1 = limit
    <3> HIDE DEF gone
    <3> QED
      BY <1>2, <1>5, <2>2
  <2>4. gone \subseteq U
    OBVIOUS
  <2>5. Cardinality(U \ gone) + 1 <= limit
    BY <2>3
  <2> HIDE DEF gone
  <2> QED
    BY <1>1, <1>6, <2>3, <2>4, <2>5, Zenon
<1>8. CASE k < 1
  <2>1. gone = {}
    <3> SUFFICES ASSUME NEW s \in U, Rank(U, s) <= k PROVE FALSE
      OBVIOUS
    <3>1. Rank(U, s) >= 1 /\ Rank(U, s) \in Nat
      BY <1>2, <1>3
    <3> QED
      BY <1>2, <1>8, <3>1
  <2>2. Cardinality(U \ gone) = n
    BY <2>1
  <2>3. n + 1 <= limit
    BY <1>2, <1>8
  <2> QED
    BY <1>1, <2>1, <2>2, <2>3
<1> QED
  BY <1>2, <1>7, <1>8

\* What issueSessionTx does to the usable sessions: the oldest go, its own one is added.
LEMMA LoginEffect ==
  ASSUME TypeOK, SessionInv, NEW r \in Requests, IssueSession(r)
  PROVE  /\ nextS \in Sessions /\ nextS \notin UsableSessions
         /\ UsableSessions' = (UsableSessions \ Evicted(UsableSessions)) \cup {nextS}
<1> DEFINE gone == Evicted(UsableSessions)
<1>1. /\ sstate \in [Sessions -> {"none", "live", "revoked"}] /\ sver \in [Sessions -> Nat]
      /\ spurpose \in [Sessions -> {"user", "password_change"}] /\ sexpire \in [Sessions -> Nat]
      /\ now \in Nat /\ must \in BOOLEAN /\ SessionTTL \in Nat /\ RestrictedTTL \in Nat
      /\ SessionTTL > 0 /\ RestrictedTTL > 0
  BY Bounds, AccountsAssumption DEF TypeOK, SessionTypes, AccountTypes
<1>2. nextS \in Sessions
  BY <1>1, Bounds DEF IssueSession, TypeOK, SessionTypes, Sessions
<1>3. sstate[nextS] = "none"
  <2>1. nextS \in Nat
    BY <1>2, Bounds DEF Sessions
  <2> QED
    BY <1>2, <2>1 DEF SessionInv, NumberedInOrder
<1>4. nextS \notin UsableSessions
  BY <1>3 DEF UsableSessions, Usable
<1>5. /\ sstate' = [s \in Sessions |-> IF s = nextS THEN "live"
                                       ELSE IF s \in gone THEN "revoked" ELSE sstate[s]]
      /\ sver' = [sver EXCEPT ![nextS] = ver]
      /\ spurpose' = [spurpose EXCEPT ![nextS] = IF must THEN "password_change" ELSE "user"]
      /\ sexpire' = [sexpire EXCEPT ![nextS] = now + IF must THEN RestrictedTTL ELSE SessionTTL]
      /\ UNCHANGED <<status, must, pwExpires, ver, now>>
      /\ status = "active" /\ (must => pwExpires > now)
  BY DEF IssueSession, StillVouched, PasswordInTime
<1>6. ASSUME NEW s \in Sessions, s = nextS PROVE Usable(s)'
  <2>1. sstate'[s] = "live" /\ sver'[s] = ver
    BY <1>1, <1>5, <1>6
  <2>2. sexpire'[s] > now
    BY <1>1, <1>5, <1>6
  <2>3. spurpose'[s] = IF must THEN "password_change" ELSE "user"
    BY <1>1, <1>5, <1>6
  <2>4. /\ status' = "active" /\ sver'[s] = ver' /\ sexpire'[s] > now'
        /\ must' = must /\ pwExpires' = pwExpires /\ now' = now
    BY <1>5, <2>1, <2>2, Zenon
  <2>5. CASE must
    <3>1. spurpose'[s] # "user"
      BY <2>3, <2>5
    <3>2. pwExpires > now
      BY <1>5, <2>5
    <3> QED
      BY <2>1, <2>4, <3>1, <3>2, Zenon DEF Usable
  <2>6. CASE ~must
    <3>1. spurpose'[s] = "user"
      BY <2>3, <2>6
    <3> QED
      BY <2>1, <2>4, <2>6, <3>1, Zenon DEF Usable
  <2> QED
    BY <2>5, <2>6
<1>7. ASSUME NEW s \in Sessions, s # nextS PROVE Usable(s)' <=> Usable(s) /\ s \notin gone
  <2>1. /\ sver'[s] = sver[s] /\ spurpose'[s] = spurpose[s] /\ sexpire'[s] = sexpire[s]
        /\ sstate'[s] = IF s \in gone THEN "revoked" ELSE sstate[s]
    BY <1>1, <1>5, <1>7
  <2>2. /\ status' = status /\ ver' = ver /\ must' = must /\ pwExpires' = pwExpires
        /\ now' = now
    BY <1>5, Zenon
  <2> HIDE DEF gone
  <2>3. CASE s \in gone
    <3>1. sstate'[s] # "live"
      BY <2>1, <2>3
    <3> QED
      BY <2>3, <3>1, Zenon DEF Usable
  <2>4. CASE s \notin gone
    <3>1. sstate'[s] = sstate[s]
      BY <2>1, <2>4
    <3> QED
      BY <2>1, <2>2, <2>4, <3>1, Zenon DEF Usable
  <2> QED
    BY <2>3, <2>4
<1> QED
  BY <1>2, <1>4, <1>6, <1>7 DEF UsableSessions

\* A login ends with its own session usable, gives up only the oldest sessions, and
\* none unless the limit is reached, whatever the limit and the number of sessions.
THEOREM LoginsKeepNewest == Spec => LoginKeepsNewest
<1> DEFINE kept == UsableSessions' \ {nextS}
           lost == UsableSessions \ kept
           A == nextS' # nextS =>
                  /\ nextS \in UsableSessions'
                  /\ kept \subseteq UsableSessions
                  /\ Cardinality(UsableSessions') <= limit
                  /\ lost # {} => Cardinality(UsableSessions') = limit
                  /\ \A x \in lost, y \in kept : x < y
<1>1. TypeOK /\ SessionInv /\ [Next]_vars => A
  <2> SUFFICES ASSUME TypeOK, SessionInv, [Next]_vars, nextS' # nextS PROVE A
    OBVIOUS
  <2> DEFINE U == UsableSessions
             gone == Evicted(U)
  <2>1. PICK r \in Requests : IssueSession(r)
    BY SessionStep DEF SessionInv
  <2>2. nextS \in Sessions /\ nextS \notin U /\ UsableSessions' = (U \ gone) \cup {nextS}
    BY <2>1, LoginEffect
  <2>3. U \in SUBSET Nat /\ IsFiniteSet(U)
    <3>1. IsFiniteSet(Sessions) /\ Sessions \subseteq Nat
      BY Bounds, FS_Interval DEF Sessions
    <3>2. U \in SUBSET Sessions
      BY DEF UsableSessions
    <3> QED
      BY <3>1, <3>2, FS_Subset
  <2>4. limit \in Nat /\ limit > 0
    BY AccountsAssumption DEF TypeOK, AccountTypes
  <2> HIDE DEF U
  <2>5. /\ gone \subseteq U
        /\ Cardinality(U \ gone) + 1 <= limit
        /\ gone # {} => Cardinality(U \ gone) + 1 = limit
        /\ \A x \in gone, y \in U \ gone : x < y
    BY <2>3, <2>4, EvictionKeepsLimit
  <2> HIDE DEF gone
  <2>6. Cardinality(UsableSessions') = Cardinality(U \ gone) + 1
    <3>1. IsFiniteSet(U \ gone)
      BY <2>3, FS_Difference
    <3> QED
      BY <2>2, <3>1, FS_AddElement
  <2>7. kept = U \ gone /\ U \ kept = gone
    BY <2>2, <2>5
  <2>8. lost = gone
    BY <2>7 DEF U
  <2>9. kept \subseteq UsableSessions /\ nextS \in UsableSessions'
    BY <2>2, <2>7 DEF U
  <2> HIDE DEF kept, lost
  <2> QED
    BY <2>5, <2>6, <2>7, <2>8, <2>9
<1>2. TypeOK /\ SessionInv /\ [Next]_vars => [A]_vars
  BY <1>1
<1> QED
  BY <1>2, SessionsInvariant, PTL DEF Spec, LoginKeepsNewest

-----------------------------------------------------------------------------
(* What the three layers give together. *)

\* Sessions and tokens are accepted only if they were good at one instant, and no
\* usable session is older than the last event that ended all sessions.
THEOREM CredentialsAreSound == Spec => []CredentialsSound
<1>1. SessionsVouched /\ SessionCheckSound /\ TokenCheckSound => CredentialsSound
  BY DEF CredentialsSound
<1> QED
  BY <1>1, EverySessionVouched, SessionChecksSound, TokenChecksSound, PTL

\* The applications of an account never exceed what it may do, for any number of
\* applications, edits in flight and administrative changes.
THEOREM ApplicationsAreSound == Spec => []ApplicationsSound
<1>1. TypeOK /\ SuspendedWithOwner /\ ScopesWithinPermissions /\ SlotsExact => ApplicationsSound
  BY DEF ApplicationsSound
<1> QED
  BY <1>1, TypeCorrect, OwnersSuspend, ScopesCovered, SlotsAreExact, PTL

\* No credential comes back to life.
THEOREM NothingRevives == Spec => CredentialsNeverRevive
  BY NoSessionRevives, NoTokenRevives DEF CredentialsNeverRevive
=============================================================================
