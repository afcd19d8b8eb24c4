------------------------------ MODULE FileShare ------------------------------
(***************************************************************************)
(* Private files, the shares that hand them out, and the downloads.        *)
(*                                                                         *)
(* An upload takes a slot, stages its bytes, renames them to their final   *)
(* place and commits the row last; an unknown commit is looked up before   *)
(* the bytes are given up.  A delete commits first and removes the bytes   *)
(* afterwards.  A download or an unlock reads the share without a lock,    *)
(* works on the file or on the secret, and then either rechecks everything *)
(* under row locks (download) or hands out a signed cookie (unlock).       *)
(*                                                                         *)
(* Sessions and application tokens are those of Accounts: a principal is   *)
(* here a user whose account is active or not.  A client stands for one    *)
(* browser: its cookies and the address its attempts are counted under.    *)
(* None is an anonymous viewer, no expiry, no limit, nothing.              *)
(***************************************************************************)
EXTENDS Integers, Sequences, FiniteSets, FiniteSetsExt

CONSTANTS Users, Files, Shares, Clients, Requests, None,
          Sizes,         \* sizes of the bodies clients send
          ShareInputs,   \* [access, members, secret, life, max] of share requests
          \* file_sharing.* of the configuration
          MaxFileBytes, MaxFilesPerUser, MaxUserBytes, MinFreeDiskBytes,
          MaxConcurrentUploadsPerUser, MaxConcurrentUploads,
          \* constants of the code: 1000, 8, 5 min, 4096, 4, 1 h
          MaxSharesPerFile, MaxAttempts, AttemptWindow, MaxAttemptKeys, BcryptGate,
          GrantLifetime,
          DiskBytes,     \* size of the file system
          \* bounds of the model
          MaxTime, MaxCrashes

ASSUME FileShareAssumption ==
  /\ {MaxFileBytes, MaxFilesPerUser, MaxUserBytes, MinFreeDiskBytes,
      MaxConcurrentUploadsPerUser, MaxConcurrentUploads, MaxSharesPerFile, MaxAttempts,
      AttemptWindow, MaxAttemptKeys, BcryptGate, GrantLifetime, DiskBytes,
      MaxTime} \subseteq Nat \ {0}
  /\ DiskBytes >= MinFreeDiskBytes /\ MaxCrashes \in Nat
  /\ Sizes \subseteq Nat
  /\ ShareInputs \subseteq [access : {"public", "authenticated", "members"},
                            members : SUBSET Users, secret : {"none", "code", "password"},
                            life : Nat, max : Nat]
  /\ None \notin Users \cup Files \cup Shares \cup Clients
  /\ \A S \in {Files, Shares, Clients, Requests} : IsFiniteSet(S)

VARIABLES
  active,    \* accounts that are active
  up,        \* uploads: step, owner and size of what they wrote
  row,       \* stored_files: none, live, deleted
  bytes,     \* files whose bytes are at their final place
  removing,  \* deletes between their commit and the removal of the bytes
  debris,    \* files whose staging copy a crash left behind
  strays,    \* history: files whose bytes were given up without being removed
  share,     \* file_shares and file_share_members
  req,       \* unlocks and downloads between their steps
  attempts,  \* attempts.entries of the process
  jar,       \* the unlock cookie a client holds for a share
  key,       \* cookieKey: one per start of the process
  clock, crashes,
  served,    \* history: downloads handed to a client, per share
  knows,     \* history: when, and to which process, a client last gave a right secret
  tries      \* history: when secrets were tried since the client's last right one

store == <<up, row, bytes, removing, debris, strays>>
door == <<req, attempts, jar, key>>
past == <<served, knows, tries>>
vars == <<active, store, share, door, clock, crashes, past>>

NoUpload == [pc |-> "idle", owner |-> None, size |-> 0]
NoShare  == [file |-> None, access |-> "none", members |-> {}, secret |-> "none",
             expires |-> 0, max |-> 0, count |-> 0, revoked |-> FALSE]
Idle     == [pc |-> "idle", share |-> None, client |-> None, viewer |-> None, until |-> 0,
             right |-> FALSE]
NoEntry  == [count |-> 0, expires |-> 0]
NoCookie == [key |-> 0, until |-> 0]
NoProof  == [key |-> 0, at |-> 0]
NoTries  == <<>>

Init ==
  /\ active = Users
  /\ up = [f \in Files |-> NoUpload] /\ row = [f \in Files |-> "none"]
  /\ bytes = {} /\ removing = {} /\ debris = {} /\ strays = {}
  /\ share = [s \in Shares |-> NoShare]
  /\ req = [r \in Requests |-> Idle]
  /\ attempts = [sc \in Shares \X Clients |-> NoEntry]
  /\ jar = [sc \in Shares \X Clients |-> NoCookie]
  /\ key = 1 /\ clock = 0 /\ crashes = 0
  /\ served = [s \in Shares |-> 0]
  /\ knows = [sc \in Shares \X Clients |-> NoProof]
  /\ tries = [sc \in Shares \X Clients |-> NoTries]

-----------------------------------------------------------------------------
(* Storage, slots and quota *)

\* The accounts a writing transaction locks: the caller's and those of the members he names.
requireWritePolicy(u, members) == {u} \cup members \subseteq active

ownerActive(u) == u \in active

Bytes(F) == MapThenSumSet(LAMBDA f : up[f].size, F)

Owned(u) == {f \in Files : row[f] = "live" /\ up[f].owner = u}

Uploading == {f \in Files : up[f].pc \notin {"idle", "done"}}

Staged == {f \in Files : up[f].pc = "staged"}

DiskFreeBytes == DiskBytes - Bytes(bytes) - Bytes(Staged \cup debris)

checkQuota(u, adding) ==
  /\ Cardinality(Owned(u)) < MaxFilesPerUser
  /\ Bytes(Owned(u)) + adding <= MaxUserBytes

\* AcquireUpload: every upload in progress keeps room for a whole file reserved.
AcquireUpload(f, u) ==
  /\ up[f].pc = "idle"
  /\ Cardinality({g \in Uploading : up[g].owner = u}) < MaxConcurrentUploadsPerUser
  /\ Cardinality(Uploading) < MaxConcurrentUploads
  /\ DiskFreeBytes - MinFreeDiskBytes - Cardinality(Uploading) * MaxFileBytes >= MaxFileBytes
  /\ up' = [up EXCEPT ![f] = [pc |-> "slot", owner |-> u, size |-> 0]]
  /\ UNCHANGED <<active, row, bytes, removing, debris, strays, share, door, clock, crashes, past>>

\* UploadReserved up to io.Copy: a full quota ends the request before a byte is written, and no more
\* than one byte past the limit is read.
Stage(f) ==
  /\ up[f].pc = "slot"
  /\ \/ ~checkQuota(up[f].owner, 0) /\ up' = [up EXCEPT ![f].pc = "done"]
     \/ /\ checkQuota(up[f].owner, 0)
        /\ \E n \in Sizes :
             up' = [up EXCEPT ![f] = [pc |-> "staged", owner |-> @.owner,
                                      size |-> Min({n, MaxFileBytes + 1})]]
  /\ UNCHANGED <<active, row, bytes, removing, debris, strays, share, door, clock, crashes, past>>

\* The rest of StoreUpload: the deferred os.Remove drops the staging file unless it was renamed.
StoreUpload(f) ==
  /\ up[f].pc = "staged"
  /\ \/ /\ up' = [up EXCEPT ![f].pc = "done"] /\ UNCHANGED bytes
     \/ /\ up[f].size <= MaxFileBytes
        /\ up' = [up EXCEPT ![f].pc = "stored"] /\ bytes' = bytes \cup {f}
  /\ UNCHANGED <<active, row, removing, debris, strays, share, door, clock, crashes, past>>

\* RemoveStoredFile, whose error the callers ignore or only log.
RemoveStoredFile(f) ==
  \/ bytes' = bytes \ {f} /\ UNCHANGED strays
  \/ strays' = strays \cup {f} /\ UNCHANGED bytes

\* complete() refuses a request with more parts than the file.
Incomplete(f) ==
  /\ up[f].pc = "stored"
  /\ up' = [up EXCEPT ![f].pc = "done"]
  /\ RemoveStoredFile(f)
  /\ UNCHANGED <<active, row, removing, debris, share, door, clock, crashes, past>>

\* lockOwner: the upload whose commit is unknown still holds the owner's mutex.
OwnerFree(u) == \A g \in Files : ~(up[g].owner = u /\ up[g].pc = "unknown")

CommitUploadUnquoted(f) ==
  /\ up[f].pc = "stored" /\ OwnerFree(up[f].owner) /\ requireWritePolicy(up[f].owner, {})
  /\ up' = [up EXCEPT ![f].pc = "done"] /\ row' = [row EXCEPT ![f] = "live"]
  /\ UNCHANGED <<active, bytes, strays, removing, debris, share, door, clock, crashes, past>>

\* The transaction of UploadReserved: refused (the bytes go), committed, or failed in a way that
\* does not tell whether it was committed.
CommitUpload(f) ==
  /\ up[f].pc = "stored" /\ OwnerFree(up[f].owner)
  /\ LET allowed == requireWritePolicy(up[f].owner, {}) /\ checkQuota(up[f].owner, up[f].size)
     IN \/ /\ ~allowed
           /\ up' = [up EXCEPT ![f].pc = "done"] /\ RemoveStoredFile(f) /\ UNCHANGED row
        \/ /\ allowed
           /\ \/ up' = [up EXCEPT ![f].pc = "done"] /\ row' = [row EXCEPT ![f] = "live"]
              \/ up' = [up EXCEPT ![f].pc = "unknown"] /\ row' = [row EXCEPT ![f] = "live"]
              \/ up' = [up EXCEPT ![f].pc = "unknown"] /\ UNCHANGED row
           /\ UNCHANGED <<bytes, strays>>
  /\ UNCHANGED <<active, removing, debris, share, door, clock, crashes, past>>

ResolveUploadHasty(f) ==
  /\ up[f].pc = "unknown"
  /\ up' = [up EXCEPT ![f].pc = "done"]
  /\ RemoveStoredFile(f)
  /\ UNCHANGED <<active, row, removing, debris, share, door, clock, crashes, past>>

\* resolveUploadCommit: a failed lookup keeps the bytes, a missing row gives them up.
resolveUploadCommit(f) ==
  /\ up[f].pc = "unknown"
  /\ up' = [up EXCEPT ![f].pc = "done"]
  /\ \/ /\ strays' = IF row[f] = "none" THEN strays \cup {f} ELSE strays
        /\ UNCHANGED bytes
     \/ row[f] = "none" /\ RemoveStoredFile(f)
     \/ row[f] # "none" /\ UNCHANGED <<bytes, strays>>
  /\ UNCHANGED <<active, row, removing, debris, share, door, clock, crashes, past>>

\* Delete: an unknown commit ends the request, so the bytes of a file it did delete stay.
Delete(f) ==
  /\ row[f] = "live" /\ requireWritePolicy(up[f].owner, {})
  /\ row' = [row EXCEPT ![f] = "deleted"]
  /\ \/ removing' = removing \cup {f} /\ UNCHANGED strays
     \/ strays' = strays \cup {f} /\ UNCHANGED removing
  /\ UNCHANGED <<active, up, bytes, debris, share, door, clock, crashes, past>>

DeleteBytes(f) ==
  /\ f \in removing
  /\ removing' = removing \ {f}
  /\ RemoveStoredFile(f)
  /\ UNCHANGED <<active, up, row, debris, share, door, clock, crashes, past>>

-----------------------------------------------------------------------------
(* Shares *)

\* NormalizeShareInput: a code goes with public shares, a password with the others.
NormalizeShareInput(in) ==
  /\ (in.access = "members") = (in.members # {})
  /\ in.secret = "code" => in.access = "public"
  /\ in.secret = "password" => in.access # "public"

InsertFileShare(s, f, in, members) ==
  [share EXCEPT ![s] =
     [file |-> f, access |-> in.access, members |-> members, secret |-> in.secret,
      expires |-> IF in.life = 0 THEN 0 ELSE clock + in.life, max |-> in.max,
      count |-> 0, revoked |-> FALSE]]

\* Whether there is such a share, by its id or by its token.
FindShare(s) == share[s] # NoShare

CreateShare(s, f, in) ==
  /\ ~FindShare(s)
  /\ NormalizeShareInput(in)
  /\ LET members == in.members \ {up[f].owner}
     IN /\ in.access = "members" => members # {}
        /\ requireWritePolicy(up[f].owner, members)
        /\ row[f] = "live"
        /\ Cardinality({t \in Shares : share[t].file = f}) < MaxSharesPerFile
        /\ share' = InsertFileShare(s, f, in, members)
  /\ UNCHANGED <<active, store, door, clock, crashes, past>>

RevokeShare(s) ==
  /\ FindShare(s)
  /\ row[share[s].file] = "live" /\ requireWritePolicy(up[share[s].file].owner, {})
  /\ share' = [share EXCEPT ![s].revoked = TRUE]
  /\ UNCHANGED <<active, store, door, clock, crashes, past>>

Expired(s) == share[s].expires # 0 /\ share[s].expires <= clock
Exhausted(s) == share[s].max > 0 /\ share[s].count >= share[s].max

IsFileShareMember(s, v) == v \in share[s].members

\* PublicState: gone, login_required, locked or available.
PublicState(s, v, unlocked) ==
  LET holder == up[share[s].file].owner
  IN CASE row[share[s].file] = "deleted" \/ share[s].revoked \/ Expired(s) \/ Exhausted(s) -> "gone"
       [] share[s].access # "public" /\ v = None -> "login_required"
       [] share[s].access = "members" /\ v # holder /\ ~IsFileShareMember(s, v) -> "gone"
       [] share[s].secret # "none" /\ v # holder /\ ~unlocked -> "locked"
       [] OTHER -> "available"

\* resolveShare: the share, its file's row and its owner, read without a lock.
resolveShare(s) == FindShare(s) /\ ownerActive(up[share[s].file].owner)

\* grantAuthorized: a cookie for this share, signed by this process, not yet over.
grantAuthorized(s, c) == jar[s, c].key = key /\ jar[s, c].until > clock

Available(s, c, v) == PublicState(s, v, grantAuthorized(s, c)) = "available"

-----------------------------------------------------------------------------
(* Unlocking *)

Earlier(a, b) == IF b # 0 /\ b < a THEN b ELSE a

\* Unlock up to the secret.  A share that is already available needs no cookie.
UnlockBegin(r, s, c, v) ==
  /\ req[r].pc = "idle"
  /\ resolveShare(s) /\ v \in active \cup {None}
  /\ PublicState(s, v, FALSE) = "locked"
  /\ req' = [req EXCEPT ![r] = [pc |-> "unlock", share |-> s, client |-> c, viewer |-> None,
               until |-> Earlier(clock + GrantLifetime, share[s].expires), right |-> FALSE]]
  /\ UNCHANGED <<active, store, share, attempts, jar, key, clock, crashes, past>>

Over(e) == e.expires <= clock
Entries(a) == {sc \in DOMAIN a : a[sc] # NoEntry}

\* The sweep of allowSecretAttempt: only a full table is swept, and only of what has expired.
Swept(a, sc) ==
  IF Over(a[sc]) /\ Cardinality(Entries(a)) >= MaxAttemptKeys
  THEN [x \in DOMAIN a |-> IF Over(a[x]) THEN NoEntry ELSE a[x]] ELSE a

Fresh(sc) == Over(attempts[sc])
Counted(sc) == IF Fresh(sc) THEN 0 ELSE attempts[sc].count

AttemptAllowedAlways(sc) == Fresh(sc) => Cardinality(Entries(Swept(attempts, sc))) < MaxAttemptKeys

\* allowSecretAttempt: what it answers, and the entry it leaves when the answer is yes.
AttemptAllowed(sc) ==
  /\ Fresh(sc) => Cardinality(Entries(Swept(attempts, sc))) < MaxAttemptKeys
  /\ Counted(sc) < MaxAttempts

allowSecretAttempt(sc) ==
  /\ attempts' = [Swept(attempts, sc) EXCEPT ![sc] =
       [count |-> Counted(sc) + 1,
        expires |-> IF Fresh(sc) THEN clock + AttemptWindow ELSE attempts[sc].expires]]
  /\ tries' = [tries EXCEPT ![sc] = Append(@, clock)]

Comparing == {r \in Requests : req[r].pc = "compare"}

\* The attempt is counted before the gate is asked; a refused one keeps its sweep.
UnlockAttempt(r, right) ==
  LET sc == <<req[r].share, req[r].client>>
  IN /\ req[r].pc = "unlock"
     /\ \/ /\ AttemptAllowed(sc) /\ allowSecretAttempt(sc)
           /\ req' = [req EXCEPT ![r] =
                IF Cardinality(Comparing) < BcryptGate
                THEN [@ EXCEPT !.pc = "compare", !.right = right] ELSE Idle]
        \/ /\ ~AttemptAllowed(sc)
           /\ attempts' = Swept(attempts, sc)
           /\ req' = [req EXCEPT ![r] = Idle] /\ UNCHANGED tries
     /\ UNCHANGED <<active, store, share, jar, key, clock, crashes, served, knows>>

clearSecretAttempts(sc) == [attempts EXCEPT ![sc] = NoEntry]

signGrant(until) == [key |-> key, until |-> until]

\* The right secret clears the attempts and signs a cookie with this process's key.
UnlockFinish(r) ==
  LET sc == <<req[r].share, req[r].client>>
  IN /\ req[r].pc = "compare"
     /\ req' = [req EXCEPT ![r] = Idle]
     /\ IF req[r].right
        THEN /\ attempts' = clearSecretAttempts(sc)
             /\ jar' = [jar EXCEPT ![sc] = signGrant(req[r].until)]
             /\ knows' = [knows EXCEPT ![sc] = [key |-> key, at |-> clock]]
             /\ tries' = [tries EXCEPT ![sc] = NoTries]
        ELSE UNCHANGED <<attempts, jar, knows, tries>>
     /\ UNCHANGED <<active, store, share, key, clock, crashes, served>>

-----------------------------------------------------------------------------
(* Downloading *)

\* PrepareDownload up to its transaction: the bytes are opened before the locks are taken.
DownloadOpen(r, s, c, v) ==
  /\ req[r].pc = "idle"
  /\ resolveShare(s) /\ v \in active \cup {None}
  /\ Available(s, c, v) /\ share[s].file \in bytes
  /\ req' = [req EXCEPT ![r] = [pc |-> "open", share |-> s, client |-> c, viewer |-> v,
                                until |-> 0, right |-> FALSE]]
  /\ UNCHANGED <<active, store, share, attempts, jar, key, clock, crashes, past>>

\* What the transaction of PrepareDownload requires under its locks.
Downloadable(s, c, v) ==
  /\ {up[share[s].file].owner} \cup ({v} \ {None}) \subseteq active
  /\ Available(s, c, v)

DownloadUnchecked(r) ==
  LET s == req[r].share
  IN /\ req[r].pc = "open"
     /\ req' = [req EXCEPT ![r] = Idle]
     /\ share' = [share EXCEPT ![s].count = @ + 1]
     /\ served' = [served EXCEPT ![s] = @ + 1]
     /\ UNCHANGED <<active, store, attempts, jar, key, clock, crashes, knows, tries>>

\* IncrementDownloadCount repeats, in the UPDATE itself, what the rows alone can tell.
IncrementDownloadCount(s) ==
  /\ ~share[s].revoked /\ ~Expired(s) /\ ~Exhausted(s)
  /\ share' = [share EXCEPT ![s].count = @ + 1]

\* The transaction of PrepareDownload: refused, counted and streamed, or counted with the answer
\* lost, which closes the file without streaming it.
DownloadCommit(r) ==
  LET s == req[r].share
  IN /\ req[r].pc = "open"
     /\ req' = [req EXCEPT ![r] = Idle]
     /\ \/ UNCHANGED <<share, served>>
        \/ /\ Downloadable(s, req[r].client, req[r].viewer)
           /\ IncrementDownloadCount(s)
           /\ \/ served' = [served EXCEPT ![s] = @ + 1]
              \/ UNCHANGED served
     /\ UNCHANGED <<active, store, attempts, jar, key, clock, crashes, knows, tries>>

-----------------------------------------------------------------------------
(* The rest of the world *)

\* An administrator suspends or restores an account (Accounts).
SetActive(u) ==
  /\ active' = IF u \in active THEN active \ {u} ELSE active \cup {u}
  /\ UNCHANGED <<store, share, door, clock, crashes, past>>

Tick ==
  /\ clock < MaxTime
  /\ clock' = clock + 1
  /\ UNCHANGED <<active, store, share, door, crashes, past>>

\* The process dies and New() starts another one: staging files stay, cookies lose their key.
Restart ==
  /\ crashes < MaxCrashes /\ crashes' = crashes + 1
  /\ up' = [f \in Files |-> IF f \in Uploading THEN [up[f] EXCEPT !.pc = "done"] ELSE up[f]]
  /\ debris' = debris \cup Staged
  /\ strays' = strays \cup removing \cup {f \in Uploading : f \in bytes /\ row[f] = "none"}
  /\ removing' = {}
  /\ req' = [r \in Requests |-> Idle]
  /\ attempts' = [sc \in Shares \X Clients |-> NoEntry]
  /\ tries' = [sc \in Shares \X Clients |-> NoTries]
  /\ key' = key + 1
  /\ UNCHANGED <<active, row, bytes, share, jar, clock, served, knows>>

Next ==
  \/ \E f \in Files :
       \/ \E u \in Users : AcquireUpload(f, u)
       \/ Stage(f) \/ StoreUpload(f) \/ Incomplete(f) \/ CommitUpload(f)
       \/ resolveUploadCommit(f) \/ Delete(f) \/ DeleteBytes(f)
       \/ \E s \in Shares, in \in ShareInputs : CreateShare(s, f, in)
  \/ \E s \in Shares : RevokeShare(s)
  \/ \E r \in Requests :
       \/ \E s \in Shares, c \in Clients, v \in Users \cup {None} :
            UnlockBegin(r, s, c, v) \/ DownloadOpen(r, s, c, v)
       \/ \E right \in BOOLEAN : UnlockAttempt(r, right)
       \/ UnlockFinish(r) \/ DownloadCommit(r)
  \/ \E u \in Users : SetActive(u)
  \/ Tick \/ Restart

Spec == Init /\ [][Next]_vars

-----------------------------------------------------------------------------
(* Properties *)

TypeOK ==
  /\ active \subseteq Users
  /\ up \in [Files -> [pc : {"idle", "slot", "staged", "stored", "unknown", "done"},
                       owner : Users \cup {None}, size : Nat]]
  /\ row \in [Files -> {"none", "live", "deleted"}]
  /\ bytes \subseteq Files /\ removing \subseteq Files /\ strays \subseteq Files /\ debris \subseteq Files
  /\ share \in [Shares -> [file : Files \cup {None},
                           access : {"none", "public", "authenticated", "members"},
                           members : SUBSET Users, secret : {"none", "code", "password"},
                           expires : Nat, max : Nat, count : Nat, revoked : BOOLEAN]]
  /\ req \in [Requests -> [pc : {"idle", "unlock", "compare", "open"},
                           share : Shares \cup {None}, client : Clients \cup {None},
                           viewer : Users \cup {None}, until : Nat, right : BOOLEAN]]
  /\ attempts \in [Shares \X Clients -> [count : Nat, expires : Nat]]
  /\ jar \in [Shares \X Clients -> [key : Nat, until : Nat]]
  /\ key \in Nat /\ clock \in 0..MaxTime /\ crashes \in 0..MaxCrashes
  /\ served \in [Shares -> Nat] /\ knows \in [Shares \X Clients -> [key : Nat, at : Nat]]
  /\ tries \in [Shares \X Clients -> Seq(0..MaxTime)]

\* The bytes of every file that is not deleted are at their place, whatever becomes of the answer
\* to the upload's commit (resolveUploadCommit) and whenever the process dies.
LiveFilesKept == \A f \in Files : row[f] = "live" => f \in bytes

\* Bytes no row refers to belong to an upload that is still under way, to a delete that has yet to
\* remove them, or to a removal that was given up; deleting a file never leaves other bytes behind.
BytesAccounted ==
  \A f \in bytes : row[f] = "live" \/ f \in Uploading \cup removing \cup strays

\* Rows and bytes agree, though an upload and a delete change them apart.
FilesMatchRows == TypeOK /\ LiveFilesKept /\ BytesAccounted

\* The files of a user never exceed the two quotas, although uploads run side by side and each
\* checked the quota before it was written (checkQuota, before and inside the transaction).
WithinQuota ==
  \A u \in Users : /\ Cardinality(Owned(u)) <= MaxFilesPerUser
                   /\ Bytes(Owned(u)) <= MaxUserBytes

\* Uploads and what crashes leave behind never use the disk below the configured minimum, save
\* for the one byte by which StoreUpload reads each body past the limit to see that it is too long.
DiskFloor == DiskFreeBytes >= MinFreeDiskBytes - Cardinality(Staged \cup debris)

\* A share never hands out more downloads than it counted, nor counts more than its limit, however
\* many requests opened the file before the first of them committed.
CountsCover ==
  \A s \in Shares : /\ served[s] <= share[s].count
                    /\ share[s].max > 0 => share[s].count <= share[s].max

\* Requests that run side by side exhaust neither a user's quota, nor the disk, nor a share.
WithinLimits == WithinQuota /\ DiskFloor /\ CountsCover

\* When a download is handed out, the share is neither revoked nor expired, the file is not deleted,
\* the owner and the viewer are active, the viewer is one the share admits, and, if the share has a
\* secret, the viewer owns it or the client gave the right one to this very process less than the
\* lifetime of a grant ago; what the request saw when it opened the file does not count.
Admitted(r) ==
  LET s == req[r].share
      v == req[r].viewer
      f == share[s].file
      proof == knows[s, req[r].client]
  IN /\ row[f] = "live" /\ ~share[s].revoked /\ ~Expired(s)
     /\ {up[f].owner, v} \subseteq active \cup {None}
     /\ share[s].access # "public" => v # None
     /\ share[s].access = "members" => v \in share[s].members \cup {up[f].owner}
     /\ \/ share[s].secret = "none" \/ v = up[f].owner
        \/ proof.key = key /\ clock < proof.at + GrantLifetime

DownloadsAdmitted ==
  [][\A s \in Shares : served'[s] > served[s] =>
       \E r \in Requests : req[r].pc = "open" /\ req'[r].pc = "idle"
                          /\ req[r].share = s /\ Admitted(r)]_vars

\* Between two right answers a client has at most twice the allowed number of attempts in any span
\* as long as the window (the window is fixed, so two of them may meet): the attempt that many later
\* is made no earlier than a window after.
AttemptsSpaced ==
  \A sc \in Shares \X Clients : \A i, j \in DOMAIN tries[sc] :
    j = i + 2 * MaxAttempts => tries[sc][j] >= tries[sc][i] + AttemptWindow

\* A client's attempts are so limited, and no more secrets are compared at once than the gate lets
\* in; the table of attempts keeps to its size.
AttemptsBounded ==
  /\ AttemptsSpaced
  /\ Cardinality(Comparing) <= BcryptGate
  /\ Cardinality(Entries(attempts)) <= MaxAttemptKeys
=============================================================================
