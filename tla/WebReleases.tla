---------------------------- MODULE WebReleases ----------------------------
(***************************************************************************)
(* Web project hosting: the projects of one owner, their uploaded releases *)
(* (a row in the database and a directory on disk), publication,           *)
(* moderation, the recycle bin and the two paths that remove releases      *)
(* (pruning after an upload, hourly maintenance).                          *)
(*                                                                         *)
(* Database transactions take the owner's row and the project's row in the *)
(* same order, so each is one step; everything a handler does outside its  *)
(* transaction (the unlocked read of a status change, storing and removing *)
(* files, the queue of retired releases) is a step of its own, and the     *)
(* process may crash between any two.  Identities are in database mode.    *)
(*                                                                         *)
(* A release number is drawn when the upload is stored, which is also when *)
(* create_time is read: numbers are ordered as create_time is.             *)
(***************************************************************************)
EXTENDS Integers, FiniteSets, FiniteSetsExt

CONSTANTS Projects, Uploads, Editors,  \* projects; concurrent requests
          Maintenance,      \* the goroutine of StartMaintenance
          None, Never, NoKey,
          Keys,             \* Idempotency-Key values
          Sizes,            \* contents, told apart by their TotalBytes
          MaxReleases, MaxProjectBytes,   \* WebProjectsConfig
          MaxUserBytes, MaxProjects,      \* web_projects site configuration
          CleanupBatch,     \* expiredReleaseBatchSize
          Retention,        \* DeleteRetentionDays
          LostAcks,         \* a commit may succeed and still be reported failed
          \* bounds of the model
          MaxRelease, MaxRevision, MaxTime, MaxVersion, MaxCrash, MaxSwitch,
          MaxGuess          \* how far a client's If-Match may be ahead

ASSUME WebAssumption ==
  /\ {MaxReleases, MaxProjectBytes, MaxUserBytes, MaxProjects, CleanupBatch,
      Retention, MaxRelease, MaxRevision, MaxTime, MaxVersion} \subseteq Nat \ {0}
  /\ MaxCrash \in Nat /\ MaxSwitch \in Nat /\ MaxGuess \in Nat
  /\ Sizes \subseteq Nat
  /\ Maintenance \notin Uploads
  /\ NoKey \notin Keys
  /\ None \notin Nat /\ Never \notin Nat
  /\ LostAcks \in BOOLEAN

Releases == 1..MaxRelease
Workers  == Uploads \cup {Maintenance}    \* the callers of RemoveRetiredReleases

VARIABLES
  \* web_project rows
  status, moderation, current, revision,
  purgeAfter,   \* purge_after; deleted_at is set and cleared with it
  \* web_project_release rows ("none": not inserted yet, "gone": deleted)
  rstatus, rproject, rsize, rkey,
  content,      \* the release's directory
  nextId,       \* the next release id
  upc, req,     \* upload requests: control point and what was sent
  urel,         \* the release id an upload works on
  ures,         \* the release an upload reports as its result
  queue, removing, stage,   \* RemoveRetiredReleases of every worker
  phase, expired, processed,   \* CleanupExpiredProjects
  edit,         \* status changes and updates between their read and their commit
  cleanup,      \* web_projects.cleanup_enabled
  ver,          \* auth_version of the owner
  now, crashes, switches,
  purged,       \* history: projects whose purge has begun
  ahead         \* history: projects changed under a revision newer than the row read

projectVars == <<status, moderation, current, revision, purgeAfter>>
rowVars     == <<rstatus, rproject, rsize, rkey>>
uploadVars  == <<upc, req, urel, ures>>
removalVars == <<queue, removing, stage>>
runVars     == <<phase, expired, processed>>
envVars     == <<cleanup, ver, now, crashes, switches>>
history     == <<purged, ahead>>
vars == <<projectVars, rowVars, content, nextId, uploadVars, removalVars,
          runVars, edit, envVars, history>>

NoRequest == [p |-> None, size |-> 0, key |-> NoKey, ver |-> 0]
Idle      == [op |-> "idle", p |-> None, rev |-> 0, seen |-> 0, purge |-> Never, ver |-> 0]

Live(r)  == rstatus[r] \in {"ready", "deleting"}
Rows(p)  == {r \in Releases : Live(r) /\ rproject[r] = p}
Ready(p) == {r \in Rows(p) : rstatus[r] = "ready"}
Bytes(S) == MapThenSumSet(LAMBDA r : rsize[r], S)

\* Projects that count against max_projects_per_user.
Active == {p \in Projects : status[p] \notin {"none", "deleted"}}

WritableStaleCredentials(p, v) == moderation[p] = "normal"

\* requireWritePolicy and the moderation check behind the row locks.
Writable(p, v) == v = ver /\ moderation[p] = "normal"

-----------------------------------------------------------------------------
Init ==
  /\ status = [p \in Projects |-> "none"]
  /\ moderation = [p \in Projects |-> "normal"]
  /\ current = [p \in Projects |-> None]
  /\ revision = [p \in Projects |-> 0]
  /\ purgeAfter = [p \in Projects |-> Never]
  /\ rstatus = [r \in Releases |-> "none"]
  /\ rproject = [r \in Releases |-> None]
  /\ rsize = [r \in Releases |-> 0]
  /\ rkey = [r \in Releases |-> NoKey]
  /\ content = [r \in Releases |-> "none"]
  /\ nextId = 1
  /\ upc = [u \in Uploads |-> "idle"]
  /\ req = [u \in Uploads |-> NoRequest]
  /\ urel = [u \in Uploads |-> None]
  /\ ures = [u \in Uploads |-> None]
  /\ queue = [w \in Workers |-> {}]
  /\ removing = [w \in Workers |-> None]
  /\ stage = [w \in Workers |-> "idle"]
  /\ phase = "idle" /\ expired = {} /\ processed = {}
  /\ edit = [e \in Editors |-> Idle]
  /\ cleanup = TRUE /\ ver = 1 /\ now = 0 /\ crashes = 0 /\ switches = 0
  /\ purged = {} /\ ahead = {}

(***************************************************************************)
(* The owner's project operations.                                         *)
(***************************************************************************)

\* CreateProject: p stands for the request id, the slug and the drawn id, so a
\* repeated request finds its project and changes nothing.
CreateProject(p) ==
  /\ status[p] = "none"
  /\ Cardinality(Active) < MaxProjects
  /\ status' = [status EXCEPT ![p] = "draft"]
  /\ revision' = [revision EXCEPT ![p] = 1]
  /\ UNCHANGED <<moderation, current, purgeAfter, rowVars, content, nextId,
                 uploadVars, removalVars, runVars, edit, envVars, history>>

\* The unlocked half of UpdateProject and ChangeProjectStatus: the project is
\* read, the transition checked (ProjectStatusFields) and the fields computed
\* with the clock of that moment.  The revision of If-Match is the client's and is not
\* compared with the row read (seen): it may be newer than that row, and one older
\* than the row's can never match later.
EditBegin(e, p, op) ==
  /\ edit[e] = Idle
  /\ status[p] # "none"
  /\ IF op = "restore"
     THEN /\ moderation[p] = "normal"
          /\ status[p] = "deleted" /\ purgeAfter[p] # Never
          /\ now <= purgeAfter[p]
     ELSE status[p] # "deleted"
  /\ \E rev \in revision[p]..(revision[p] + MaxGuess) :
       edit' = [edit EXCEPT ![e] =
         [op |-> op, p |-> p, rev |-> rev, seen |-> revision[p], ver |-> ver,
          purge |-> IF op = "delete" THEN now + Retention ELSE Never]]
  /\ UNCHANGED <<projectVars, rowVars, content, nextId, uploadVars, removalVars,
                 runVars, envVars, history>>

\* The transaction refuses the change: credentials revoked, project under
\* moderation, no free project slot, revision moved on, or a database error.
EditRefused(e) ==
  /\ edit[e] # Idle
  /\ edit' = [edit EXCEPT ![e] = Idle]
  /\ UNCHANGED <<projectVars, rowVars, content, nextId, uploadVars, removalVars,
                 runVars, envVars, history>>

\* The purge_after that ProjectStatusFields computes for a change d.
NewDeadline(d) ==
  IF d.op \in {"delete", "restore"} THEN d.purge ELSE purgeAfter[d.p]

\* The condition on the revision in UpdateProjectFields.
AnyRevision(d) == revision[d.p] >= d.rev
SameRevision(d) == revision[d.p] = d.rev

\* Repository.Update / UpdateFields: the compare-and-swap on the revision, with fields
\* computed from the row that was read.
EditCommit(e) ==
  LET d == edit[e]
      target == CASE d.op \in {"disable", "restore"} -> "disabled"
                  [] d.op = "delete" -> "deleted"
                  [] OTHER -> status[d.p]
  IN  /\ d # Idle
      /\ Writable(d.p, d.ver)
      /\ status[d.p] = "deleted" /\ target # "deleted" =>
           Cardinality(Active) < MaxProjects
      /\ SameRevision(d) /\ revision[d.p] < MaxRevision
      /\ status' = [status EXCEPT ![d.p] = target]
      /\ purgeAfter' = [purgeAfter EXCEPT ![d.p] = NewDeadline(d)]
      /\ revision' = [revision EXCEPT ![d.p] = @ + 1]
      /\ edit' = [edit EXCEPT ![e] = Idle]
      /\ ahead' = IF d.rev = d.seen THEN ahead ELSE ahead \cup {d.p}
      /\ UNCHANGED <<moderation, current, rowVars, content, nextId, uploadVars,
                     removalVars, runVars, envVars, purged>>

\* PublishRelease: all checks, the one of the entry file included, behind the
\* locks of the project and the release.
Publish(p, r) ==
  /\ status[p] \notin {"none", "deleted"}
  /\ moderation[p] = "normal"
  /\ r \in Ready(p)
  /\ content[r] # "none"
  /\ revision[p] < MaxRevision
  /\ status' = [status EXCEPT ![p] = "enabled"]
  /\ current' = [current EXCEPT ![p] = r]
  /\ revision' = [revision EXCEPT ![p] = @ + 1]
  /\ UNCHANGED <<moderation, purgeAfter, rowVars, content, nextId, uploadVars,
                 removalVars, runVars, edit, envVars, history>>

(***************************************************************************)
(* Moderation: adminweb.Change, one transaction per action.                *)
(***************************************************************************)
Moderate(p, st, mod, purge) ==
  /\ revision[p] < MaxRevision
  /\ status' = [status EXCEPT ![p] = st]
  /\ moderation' = [moderation EXCEPT ![p] = mod]
  /\ purgeAfter' = [purgeAfter EXCEPT ![p] = purge]
  /\ revision' = [revision EXCEPT ![p] = @ + 1]
  /\ UNCHANGED <<current, rowVars, content, nextId, uploadVars, removalVars,
                 runVars, edit, envVars, history>>

Block(p) ==
  /\ p \in Active /\ moderation[p] # "blocked"
  /\ Moderate(p, status[p], "blocked", purgeAfter[p])

UnblockKeepsStatus(p) ==
  /\ p \in Active /\ moderation[p] = "blocked"
  /\ Moderate(p, status[p], "normal", purgeAfter[p])

Unblock(p) ==
  /\ p \in Active /\ moderation[p] = "blocked"
  /\ Moderate(p, "disabled", "normal", purgeAfter[p])

AdminDelete(p) ==
  /\ p \in Active
  /\ Moderate(p, "deleted", "deleted", now + Retention)

AdminRestore(p) ==
  /\ status[p] = "deleted" /\ now < purgeAfter[p]
  /\ Moderate(p, "disabled",
              IF moderation[p] = "deleted" THEN "blocked" ELSE moderation[p], Never)

(***************************************************************************)
(* UploadRelease.                                                          *)
(***************************************************************************)

\* CheckUploadOwner, before the body is read.
UploadBegin(u, p) ==
  /\ upc[u] = "idle"
  /\ p \in Active /\ moderation[p] = "normal"
  /\ \E size \in Sizes, key \in Keys \cup {NoKey} :
       req' = [req EXCEPT ![u] = [p |-> p, size |-> size, key |-> key, ver |-> ver]]
  /\ upc' = [upc EXCEPT ![u] = "receive"]
  /\ UNCHANGED <<projectVars, rowVars, content, nextId, urel, ures, removalVars,
                 runVars, edit, envVars, history>>

UploadIdle(u) ==
  /\ upc' = [upc EXCEPT ![u] = "idle"]
  /\ req' = [req EXCEPT ![u] = NoRequest]
  /\ urel' = [urel EXCEPT ![u] = None]
  /\ ures' = [ures EXCEPT ![u] = None]

\* The body is not acceptable or could not be stored; the staging directory is
\* removed.
StoreFails(u) ==
  /\ upc[u] = "receive"
  /\ UploadIdle(u)
  /\ UNCHANGED <<projectVars, rowVars, content, nextId, removalVars, runVars,
                 edit, envVars, history>>

\* StoreUpload: the complete content is moved into a fresh release directory.
StoreUpload(u) ==
  /\ upc[u] = "receive"
  /\ nextId \in Releases
  /\ content' = [content EXCEPT ![nextId] = "full"]
  /\ urel' = [urel EXCEPT ![u] = nextId]
  /\ nextId' = nextId + 1
  /\ upc' = [upc EXCEPT ![u] = "commit"]
  /\ UNCHANGED <<projectVars, rowVars, req, ures, removalVars, runVars, edit,
                 envVars, history>>

\* ReleaseDirectory does not find the directory usable right afterwards; the
\* request ends and leaves it behind.
DirectoryUnusable(u) ==
  /\ upc[u] = "commit"
  /\ UploadIdle(u)
  /\ UNCHANGED <<projectVars, rowVars, content, nextId, removalVars, runVars,
                 edit, envVars, history>>

ExistingReady(u) == {r \in Ready(req[u].p) : req[u].key # NoKey /\ rkey[r] = req[u].key}

\* The release the transaction finds under the request's idempotency key.
Existing(u) == {r \in Rows(req[u].p) : req[u].key # NoKey /\ rkey[r] = req[u].key}

\* The rows whose bytes SumUserWebReleaseBytes adds up.
ChargedReady == {r \in Releases : rstatus[r] = "ready"}
Charged      == {r \in Releases : Live(r)}

\* SelectReleasesForPruning: the oldest releases but the current one, as few as
\* make room for the new one; no choice if even all of them do not.
PrunableAll(p) == Ready(p)
Prunable(p)    == Ready(p) \ {current[p]}

PruneChoices(p, size) ==
  LET candidates == Prunable(p)
      Fits(retired) ==
        /\ Bytes(Ready(p) \ retired) + size <= MaxProjectBytes
        /\ Cardinality(Ready(p) \ retired) + 1 <= MaxReleases
      fitting == {retired \in {{r \in candidates : r < b} : b \in 1..(MaxRelease + 1)} :
                    Fits(retired)}
  IN  {retired \in fitting : \A other \in fitting : retired \subseteq other}

\* What the transaction requires before it looks at releases.
Acceptable(u) == req[u].p \in Active /\ Writable(req[u].p, req[u].ver)

\* The transaction inserts the release and retires the pruned ones.  With
\* LostAcks its caller may be told that it failed.
CommitUpload(u) ==
  LET p == req[u].p
      size == req[u].size
  IN  /\ upc[u] = "commit"
      /\ Acceptable(u)
      /\ Existing(u) = {}
      /\ Bytes(Charged) + size <= MaxUserBytes
      /\ \E retired \in PruneChoices(p, size) :
           /\ rstatus' = [r \in Releases |->
                IF r = urel[u] THEN "ready"
                ELSE IF r \in retired THEN "deleting" ELSE rstatus[r]]
           /\ \/ /\ upc' = [upc EXCEPT ![u] = "prune"]
                 /\ queue' = [queue EXCEPT ![u] = retired]
                 /\ ures' = [ures EXCEPT ![u] = urel[u]]
              \/ /\ LostAcks
                 /\ upc' = [upc EXCEPT ![u] = "discard"]
                 /\ UNCHANGED <<queue, ures>>
      /\ rproject' = [rproject EXCEPT ![urel[u]] = p]
      /\ rsize' = [rsize EXCEPT ![urel[u]] = size]
      /\ rkey' = [rkey EXCEPT ![urel[u]] = req[u].key]
      /\ UNCHANGED <<projectVars, content, nextId, req, urel, removing, stage,
                     runVars, edit, envVars, history>>

\* The transaction refuses the upload (policy, quota, pruning, a key used for
\* another content, a database error) and changes nothing.
UploadRefused(u) ==
  /\ upc[u] = "commit"
  /\ upc' = [upc EXCEPT ![u] = "discard"]
  /\ UNCHANGED <<projectVars, rowVars, content, nextId, req, urel, ures,
                 removalVars, runVars, edit, envVars, history>>

\* A retry: the key is known and the content is the same, the earlier release
\* is the result.
UploadRetried(u) ==
  /\ upc[u] = "commit"
  /\ Acceptable(u)
  /\ \E r \in Existing(u) :
       /\ rsize[r] = req[u].size
       /\ ures' = [ures EXCEPT ![u] = r]
  /\ upc' = [upc EXCEPT ![u] = "discard"]
  /\ UNCHANGED <<projectVars, rowVars, content, nextId, req, urel, removalVars,
                 runVars, edit, envVars, history>>

\* os.RemoveAll of the new directory; an error is ignored and leaves remains.
Discard(u) ==
  /\ upc[u] = "discard"
  /\ \E left \in {"none", "partial"} :
       content' = [content EXCEPT ![urel[u]] = left]
  /\ UploadIdle(u)
  /\ UNCHANGED <<projectVars, rowVars, nextId, removalVars, runVars, edit,
                 envVars, history>>

\* RemoveRetiredReleases has returned; a failure is only logged.
UploadDone(u) ==
  /\ upc[u] = "prune" /\ queue[u] = {} /\ stage[u] = "idle"
  /\ UploadIdle(u)
  /\ UNCHANGED <<projectVars, rowVars, content, nextId, removalVars, runVars,
                 edit, envVars, history>>

(***************************************************************************)
(* RemoveRetiredReleases, run by uploads and by maintenance.               *)
(***************************************************************************)

\* The switch is read before every release; off, the rest is left alone.
RemovalOff(w) ==
  /\ stage[w] = "idle" /\ queue[w] # {} /\ ~cleanup
  /\ queue' = [queue EXCEPT ![w] = {}]
  /\ UNCHANGED <<projectVars, rowVars, content, nextId, uploadVars, removing,
                 stage, runVars, edit, envVars, history>>

\* FindRemovableDeletingRelease: not deleting any more, or current, or the
\* query failed: skip it.
SkipRelease(w, r) ==
  /\ stage[w] = "idle" /\ r \in queue[w] /\ cleanup
  /\ queue' = [queue EXCEPT ![w] = @ \ {r}]
  /\ UNCHANGED <<projectVars, rowVars, content, nextId, uploadVars, removing,
                 stage, runVars, edit, envVars, history>>

FindRemovable(w, r) ==
  /\ stage[w] = "idle" /\ r \in queue[w] /\ cleanup
  /\ rstatus[r] = "deleting" /\ current[rproject[r]] # r
  /\ queue' = [queue EXCEPT ![w] = @ \ {r}]
  /\ removing' = [removing EXCEPT ![w] = r]
  /\ stage' = [stage EXCEPT ![w] = "files"]
  /\ UNCHANGED <<projectVars, rowVars, content, nextId, uploadVars, runVars,
                 edit, envVars, history>>

\* The worker is through with the release it was removing.
NextRelease(w) ==
  /\ stage' = [stage EXCEPT ![w] = "idle"]
  /\ removing' = [removing EXCEPT ![w] = None]

RemoveFiles(w) ==
  /\ stage[w] = "files"
  /\ content' = [content EXCEPT ![removing[w]] = "none"]
  /\ stage' = [stage EXCEPT ![w] = "row"]
  /\ UNCHANGED <<projectVars, rowVars, nextId, uploadVars, queue, removing,
                 runVars, edit, envVars, history>>

\* os.RemoveAll fails half way; the row stays for the next run.
RemoveFilesFails(w) ==
  /\ stage[w] = "files"
  /\ content' = [content EXCEPT ![removing[w]] = IF @ = "none" THEN @ ELSE "partial"]
  /\ NextRelease(w)
  /\ UNCHANGED <<projectVars, rowVars, nextId, uploadVars, queue, runVars, edit,
                 envVars, history>>

\* DeleteDeletingRelease; another worker may have deleted the row already.
DeleteRow(w) ==
  /\ stage[w] = "row"
  /\ rstatus' = [rstatus EXCEPT ![removing[w]] =
       IF @ = "deleting" THEN "gone" ELSE @]
  /\ NextRelease(w)
  /\ UNCHANGED <<projectVars, rproject, rsize, rkey, content, nextId, uploadVars,
                 queue, runVars, edit, envVars, history>>

DeleteRowFails(w) ==
  /\ stage[w] = "row"
  /\ NextRelease(w)
  /\ UNCHANGED <<projectVars, rowVars, content, nextId, uploadVars, queue,
                 runVars, edit, envVars, history>>

(***************************************************************************)
(* CleanupExpiredProjects, hourly.                                         *)
(***************************************************************************)
Expired(p) == status[p] = "deleted" /\ purgeAfter[p] # Never /\ purgeAfter[p] <= now

Resting == queue[Maintenance] = {} /\ stage[Maintenance] = "idle"

\* A run starts and lists the expired projects.
StartRun ==
  /\ phase = "idle" /\ cleanup
  /\ phase' = "projects"
  /\ expired' = {p \in Projects : Expired(p)}
  /\ UNCHANGED <<projectVars, rowVars, content, nextId, uploadVars, removalVars,
                 processed, edit, envVars, history>>

\* One page of a project's releases, oldest first.
CleanupPage(p) ==
  {r \in Rows(p) : Cardinality({s \in Rows(p) : s < r}) < CleanupBatch}

\* PrepareExpiredProjectCleanup: state and switch are checked again behind the
\* locks, a page is marked deleting and the pointer cleared with it.  Whoever
\* sees the commit reads a later clock than the transaction did.
Prepare(p) ==
  /\ phase = "projects" /\ Resting /\ p \in expired
  /\ cleanup /\ Expired(p) /\ Rows(p) # {}
  /\ revision[p] < MaxRevision /\ now < MaxTime
  /\ rstatus' = [r \in Releases |->
       IF r \in CleanupPage(p) THEN "deleting" ELSE rstatus[r]]
  /\ current' = [current EXCEPT ![p] = None]
  /\ revision' = [revision EXCEPT ![p] = @ + 1]
  /\ queue' = [queue EXCEPT ![Maintenance] = CleanupPage(p)]
  /\ processed' = processed \cup CleanupPage(p)
  /\ expired' = expired \ {p}
  /\ purged' = purged \cup {p}
  /\ now' = now + 1
  /\ UNCHANGED <<status, moderation, purgeAfter, rproject, rsize, rkey, content,
                 nextId, uploadVars, removing, stage, phase, edit, cleanup, ver,
                 crashes, switches, ahead>>

\* The project was restored, has no releases left, or the transaction failed.
SkipProject(p) ==
  /\ phase = "projects" /\ Resting /\ p \in expired
  /\ expired' = expired \ {p}
  /\ UNCHANGED <<projectVars, rowVars, content, nextId, uploadVars, removalVars,
                 phase, processed, edit, envVars, history>>

\* The releases ListDeletingReleases returns: at most a batch, those marked
\* first (the order of update_time is left open).
Deleting == {r \in Releases : rstatus[r] = "deleting"}
DeletingPagesOfDeletedProjects ==
  {{r \in Deleting : status[rproject[r]] = "deleted"}}
DeletingPages ==
  IF Cardinality(Deleting) <= CleanupBatch THEN {Deleting}
  ELSE {page \in SUBSET Deleting : Cardinality(page) = CleanupBatch}

\* Releases that an earlier run or upload left deleting are tried again.
RetryDeleting ==
  /\ phase = "projects" /\ Resting /\ expired = {}
  /\ phase' = "retry"
  /\ \E page \in DeletingPages :
       queue' = [queue EXCEPT ![Maintenance] = page \ processed]
  /\ UNCHANGED <<projectVars, rowVars, content, nextId, uploadVars, removing,
                 stage, expired, processed, edit, envVars, history>>

EndRun ==
  /\ phase = "retry" /\ Resting
  /\ phase' = "idle"
  /\ processed' = {}
  /\ UNCHANGED <<projectVars, rowVars, content, nextId, uploadVars, removalVars,
                 expired, edit, envVars, history>>

(***************************************************************************)
(* Environment.                                                            *)
(***************************************************************************)

\* The process dies: database and disk stay, requests and runs are gone.
Crash ==
  /\ crashes < MaxCrash
  /\ crashes' = crashes + 1
  /\ upc' = [u \in Uploads |-> "idle"]
  /\ req' = [u \in Uploads |-> NoRequest]
  /\ urel' = [u \in Uploads |-> None]
  /\ ures' = [u \in Uploads |-> None]
  /\ queue' = [w \in Workers |-> {}]
  /\ removing' = [w \in Workers |-> None]
  /\ stage' = [w \in Workers |-> "idle"]
  /\ phase' = "idle" /\ expired' = {} /\ processed' = {}
  /\ edit' = [e \in Editors |-> Idle]
  /\ UNCHANGED <<projectVars, rowVars, content, nextId, cleanup, ver, now, switches, history>>

\* An administrator publishes a configuration with the switch flipped.
SwitchCleanup ==
  /\ switches < MaxSwitch
  /\ switches' = switches + 1
  /\ cleanup' = ~cleanup
  /\ UNCHANGED <<projectVars, rowVars, content, nextId, uploadVars, removalVars,
                 runVars, edit, ver, now, crashes, history>>

\* Password change, logout of all sessions or ban: auth_version moves on.
RevokeCredentials ==
  /\ ver < MaxVersion
  /\ ver' = ver + 1
  /\ UNCHANGED <<projectVars, rowVars, content, nextId, uploadVars, removalVars,
                 runVars, edit, cleanup, now, crashes, switches, history>>

Tick ==
  /\ now < MaxTime
  /\ now' = now + 1
  /\ UNCHANGED <<projectVars, rowVars, content, nextId, uploadVars, removalVars,
                 runVars, edit, cleanup, ver, crashes, switches, history>>

-----------------------------------------------------------------------------
EditNext(e) ==
  \/ \E p \in Projects, op \in {"update", "disable", "delete", "restore"} :
       EditBegin(e, p, op)
  \/ EditRefused(e) \/ EditCommit(e)

UploadNext(u) ==
  \/ \E p \in Projects : UploadBegin(u, p)
  \/ StoreFails(u) \/ StoreUpload(u) \/ DirectoryUnusable(u)
  \/ CommitUpload(u) \/ UploadRefused(u)
  \/ UploadRetried(u) \/ Discard(u) \/ UploadDone(u)

RemoveNext(w) ==
  \/ RemovalOff(w)
  \/ \E r \in Releases : SkipRelease(w, r) \/ FindRemovable(w, r)
  \/ RemoveFiles(w) \/ RemoveFilesFails(w) \/ DeleteRow(w) \/ DeleteRowFails(w)

RunNext ==
  \/ StartRun \/ RetryDeleting \/ EndRun
  \/ \E p \in Projects : Prepare(p) \/ SkipProject(p)

ProjectNext(p) ==
  \/ CreateProject(p) \/ Block(p) \/ Unblock(p) \/ AdminDelete(p) \/ AdminRestore(p)
  \/ \E r \in Releases : Publish(p, r)

Next ==
  \/ \E p \in Projects : ProjectNext(p)
  \/ \E e \in Editors : EditNext(e)
  \/ \E u \in Uploads : UploadNext(u)
  \/ \E w \in Workers : RemoveNext(w)
  \/ RunNext \/ Crash \/ SwitchCleanup \/ RevokeCredentials \/ Tick

Spec == Init /\ [][Next]_vars

(***************************************************************************)
(* Fairness: the maintenance goroutine keeps running and, although any one *)
(* query or removal may fail, they do not fail for ever.  Nothing is       *)
(* assumed of requests.                                                    *)
(***************************************************************************)
FairSpec ==
  /\ Spec
  /\ WF_vars(RunNext) /\ WF_vars(RemoveNext(Maintenance))
  /\ SF_vars(\E r \in Releases : FindRemovable(Maintenance, r))
  /\ SF_vars(RemoveFiles(Maintenance)) /\ SF_vars(DeleteRow(Maintenance))

(***************************************************************************)
(* Properties.                                                             *)
(***************************************************************************)

ProjectTypes ==
  /\ status \in [Projects -> {"none", "draft", "enabled", "disabled", "deleted"}]
  /\ moderation \in [Projects -> {"normal", "blocked", "deleted"}]
  /\ current \in [Projects -> Releases \cup {None}]
  /\ revision \in [Projects -> 0..MaxRevision]
  /\ purgeAfter \in [Projects -> Nat \cup {Never}]
RowTypes ==
  /\ rstatus \in [Releases -> {"none", "ready", "deleting", "gone"}]
  /\ rproject \in [Releases -> Projects \cup {None}]
  /\ rsize \in [Releases -> Nat]
  /\ rkey \in [Releases -> Keys \cup {NoKey}]
FileTypes ==
  /\ content \in [Releases -> {"none", "partial", "full"}]
  /\ nextId \in 1..(MaxRelease + 1)
UploadTypes ==
  /\ upc \in [Uploads -> {"idle", "receive", "commit", "discard", "prune"}]
  /\ req \in [Uploads -> [p : Projects \cup {None}, size : Nat,
                          key : Keys \cup {NoKey}, ver : Nat]]
  /\ urel \in [Uploads -> Releases \cup {None}]
  /\ ures \in [Uploads -> Releases \cup {None}]
RemovalTypes ==
  /\ queue \in [Workers -> SUBSET Releases]
  /\ removing \in [Workers -> Releases \cup {None}]
  /\ stage \in [Workers -> {"idle", "files", "row"}]
RunTypes ==
  /\ phase \in {"idle", "projects", "retry"}
  /\ expired \in SUBSET Projects
  /\ processed \in SUBSET Releases
EditTypes ==
  edit \in [Editors -> {Idle} \cup
    [op : {"update", "disable", "delete", "restore"}, p : Projects, rev : Nat,
     seen : Nat, ver : Nat, purge : Nat \cup {Never}]]
EnvTypes ==
  /\ cleanup \in BOOLEAN
  /\ ver \in Nat /\ now \in Nat /\ crashes \in Nat /\ switches \in Nat
  /\ purged \in SUBSET Projects /\ ahead \in SUBSET Projects

\* Type invariant.
TypeOK == /\ ProjectTypes /\ RowTypes /\ FileTypes /\ UploadTypes
          /\ RemovalTypes /\ RunTypes /\ EditTypes /\ EnvTypes

\* The release a project points to is a ready release of that project whose
\* directory is complete, whatever uploads prune, requests discard, cleaners
\* remove and crashes interrupt.
PublishedIntact ==
  \A p \in Projects : current[p] # None =>
    /\ rproject[current[p]] = p
    /\ rstatus[current[p]] = "ready"
    /\ content[current[p]] = "full"

\* A release that can be published, downloaded or rolled back to has its files.
ReadyHasFiles == \A r \in Releases : rstatus[r] = "ready" => content[r] = "full"

\* A row disappears only after its files: no directory survives, uncharged to
\* the quota, the row that named it.
NoFilesWithoutRow == \A r \in Releases : rstatus[r] = "gone" => content[r] = "none"

\* Rows and directories agree, though uploads, pruning, cleanup and crashes change them apart.
FilesMatchRows == TypeOK /\ PublishedIntact /\ ReadyHasFiles /\ NoFilesWithoutRow

\* Concurrent uploads into several projects stay within the owner's budget
\* (deleting rows are charged until their files are gone) and within the
\* project's number and bytes of ready releases.
WithinQuota ==
  /\ Bytes({r \in Releases : Live(r)}) <= MaxUserBytes
  /\ \A p \in Projects : /\ Bytes(Ready(p)) <= MaxProjectBytes
                         /\ Cardinality(Ready(p)) <= MaxReleases

\* Retried or concurrent uploads with one idempotency key leave one release.
OneReleasePerKey ==
  \A r, s \in Releases :
    Live(r) /\ Live(s) /\ rproject[r] = rproject[s] /\ rkey[r] = rkey[s] =>
      r = s \/ rkey[r] = NoKey

\* A deleted project carries a purge deadline, and no other project does as long as clients send
\* the revision they were shown: no change computed from a stale read revives a project without
\* clearing it, or deletes one twice.  A revision guessed ahead can match a later row, and a
\* "disable" then leaves the deadline of a deletion on a project that is not deleted.
TombstoneConsistent ==
  \A p \in Projects :
    /\ status[p] = "deleted" => purgeAfter[p] # Never
    /\ p \notin ahead => (purgeAfter[p] # Never => status[p] = "deleted")

\* A project whose purge has begun never comes back: a restore that was allowed
\* when it read the project, and sends the revision it was shown, loses against the cleanup
\* that committed meanwhile.
PurgeIsFinal == \A p \in purged \ ahead : status[p] = "deleted"

\* The recycle bin keeps what it holds until its deadline, and what it has begun to purge for good.
RecycleBinSound == TombstoneConsistent /\ PurgeIsFinal

\* A page visible to visitors.
Visible(p) == status[p] = "enabled" /\ moderation[p] = "normal" /\ current[p] # None

\* A page appears only by publishing a project in good standing: neither lifting
\* a block, restoring from the recycle bin nor a late settings update shows it.
OnlyPublishReveals ==
  [][\A p \in Projects : ~Visible(p) /\ Visible(p)' =>
       /\ moderation[p] = "normal" /\ status[p] # "deleted"
       /\ current'[p] \in Ready(p)
       /\ UNCHANGED <<edit, rstatus>>]_vars

\* An upload that began before the owner's credentials were revoked never
\* becomes a release afterwards.
NoLateUpload ==
  [][\A r \in Releases : rstatus[r] = "none" /\ rstatus'[r] # "none" =>
       \E u \in Uploads : urel[u] = r /\ req[u].ver = ver]_vars

\* What an upload reports as its result is a ready release at that moment.
UploadReportsReady ==
  [][\A u \in Uploads : ures'[u] # ures[u] /\ ures'[u] # None =>
       rstatus'[ures'[u]] = "ready"]_vars

\* Every retired release is eventually removed, files and row, if the cleanup
\* switch stays on, whatever failed or crashed before.
RetiredAreRemoved ==
  <>[]cleanup => \A r \in Releases : rstatus[r] = "deleting" ~> rstatus[r] = "gone"
=============================================================================
