-------------------------- MODULE WebReleasesProof --------------------------
(***************************************************************************)
(* Proofs about WebReleases for any number of projects, requests, releases *)
(* and any quota.                                                          *)
(***************************************************************************)
EXTENDS WebReleases, SumLemmas, TLAPS

\* The initial state is well typed.
LEMMA InitType == Init => TypeOK
  BY WebAssumption DEF Init, TypeOK, NoRequest, Idle, Releases, ProjectTypes, RowTypes,
     FileTypes, UploadTypes, RemovalTypes, RunTypes, EditTypes, EnvTypes

\* Every step keeps the types.
LEMMA TypeStep == TypeOK /\ [Next]_vars => TypeOK'
<1> SUFFICES ASSUME TypeOK, [Next]_vars PROVE TypeOK'
  OBVIOUS
<1> USE WebAssumption DEF TypeOK
<1>0. /\ UNCHANGED projectVars => ProjectTypes'
      /\ UNCHANGED rowVars => RowTypes'
      /\ UNCHANGED <<content, nextId>> => FileTypes'
      /\ UNCHANGED uploadVars => UploadTypes'
      /\ UNCHANGED removalVars => RemovalTypes'
      /\ UNCHANGED runVars => RunTypes'
      /\ UNCHANGED edit => EditTypes'
      /\ UNCHANGED <<envVars, history>> => EnvTypes'
  BY DEF projectVars, rowVars, uploadVars, removalVars, runVars, envVars, history, ProjectTypes,
     RowTypes, FileTypes, UploadTypes, RemovalTypes, RunTypes, EditTypes, EnvTypes
<1>1. ASSUME NEW p \in Projects, ProjectNext(p) PROVE TypeOK'
  <2>1. CASE CreateProject(p)
    <3>1. ProjectTypes'
      BY <2>1 DEF CreateProject, ProjectTypes
    <3> QED
      BY <1>0, <2>1, <3>1 DEF CreateProject
  <2>2. CASE Block(p)
    <3>1. ProjectTypes'
      BY <2>2 DEF Block, Moderate, ProjectTypes
    <3> QED
      BY <1>0, <2>2, <3>1 DEF Block, Moderate
  <2>3. CASE Unblock(p)
    <3>1. ProjectTypes'
      BY <2>3 DEF Unblock, Moderate, ProjectTypes
    <3> QED
      BY <1>0, <2>3, <3>1 DEF Unblock, Moderate
  <2>4. CASE AdminDelete(p)
    <3>1. ProjectTypes'
      BY <2>4 DEF AdminDelete, Moderate, ProjectTypes, EnvTypes
    <3> QED
      BY <1>0, <2>4, <3>1 DEF AdminDelete, Moderate
  <2>5. CASE AdminRestore(p)
    <3>1. ProjectTypes'
      BY <2>5 DEF AdminRestore, Moderate, ProjectTypes
    <3> QED
      BY <1>0, <2>5, <3>1 DEF AdminRestore, Moderate
  <2>6. ASSUME NEW r \in Releases, Publish(p, r) PROVE TypeOK'
    <3>1. ProjectTypes'
      BY <2>6 DEF Publish, ProjectTypes
    <3> QED
      BY <1>0, <2>6, <3>1 DEF Publish
  <2> QED
    BY <1>1, <2>1, <2>2, <2>3, <2>4, <2>5, <2>6 DEF ProjectNext
<1>2. ASSUME NEW e \in Editors, EditNext(e) PROVE TypeOK'
  <2>1. ASSUME NEW p \in Projects, NEW op \in {"update", "disable", "delete", "restore"},
               EditBegin(e, p, op)
        PROVE  TypeOK'
    <3>1. EditTypes'
      BY <2>1 DEF EditBegin, EditTypes, ProjectTypes, EnvTypes
    <3> QED
      BY <1>0, <2>1, <3>1 DEF EditBegin
  <2>2. CASE EditRefused(e)
    <3>1. EditTypes'
      BY <2>2 DEF EditRefused, EditTypes, Idle
    <3> QED
      BY <1>0, <2>2, <3>1 DEF EditRefused
  <2>3. CASE EditCommit(e)
    <3>1. ProjectTypes'
      <4> DEFINE d == edit[e]
      <4>1. d.purge \in Nat \cup {Never}
        BY DEF EditTypes, Idle
      <4>2. /\ purgeAfter' = [purgeAfter EXCEPT ![d.p] = NewDeadline(d)]
            /\ revision' = [revision EXCEPT ![d.p] = @ + 1]
            /\ revision[d.p] < MaxRevision
            /\ UNCHANGED <<moderation, current>>
        BY <2>3 DEF EditCommit
      <4>3. status' = [status EXCEPT ![d.p] =
              CASE d.op \in {"disable", "restore"} -> "disabled"
                [] d.op = "delete" -> "deleted"
                [] OTHER -> status[d.p]]
        BY <2>3 DEF EditCommit
      <4>4. status' \in [Projects -> {"none", "draft", "enabled", "disabled", "deleted"}]
        BY <4>3 DEF ProjectTypes
      <4>5. NewDeadline(d) \in Nat \cup {Never} \/ d.p \notin Projects
        BY <4>1 DEF NewDeadline, ProjectTypes
      <4>6. purgeAfter' \in [Projects -> Nat \cup {Never}]
        BY <4>2, <4>5 DEF ProjectTypes
      <4>7. revision' \in [Projects -> 0..MaxRevision]
        <5>1. CASE d.p \in Projects
          <6>1. revision[d.p] + 1 \in 0..MaxRevision
            BY <4>2, <5>1 DEF ProjectTypes
          <6> QED
            BY <4>2, <5>1, <6>1 DEF ProjectTypes
        <5>2. CASE d.p \notin Projects
          BY <4>2, <5>2 DEF ProjectTypes
        <5> QED
          BY <5>1, <5>2
      <4> QED
        BY <4>2, <4>4, <4>6, <4>7 DEF ProjectTypes
    <3>2. EditTypes'
      BY <2>3 DEF EditCommit, EditTypes, Idle
    <3>3. EnvTypes'
      <4>1. edit[e].p \in Projects
        BY <2>3 DEF EditCommit, EditTypes
      <4> QED
        BY <2>3, <4>1 DEF EditCommit, EnvTypes, envVars
    <3> QED
      BY <1>0, <2>3, <3>1, <3>2, <3>3 DEF EditCommit
  <2> QED
    BY <1>2, <2>1, <2>2, <2>3 DEF EditNext
<1>3. ASSUME NEW u \in Uploads, UploadNext(u) PROVE TypeOK'
  <2>1. ASSUME NEW p \in Projects, UploadBegin(u, p) PROVE TypeOK'
    <3>1. UploadTypes'
      <4>1. PICK size \in Sizes, key \in Keys \cup {NoKey} :
              req' = [req EXCEPT ![u] = [p |-> p, size |-> size, key |-> key, ver |-> ver]]
        BY <2>1 DEF UploadBegin
      <4>2. size \in Nat /\ ver \in Nat
        BY DEF EnvTypes
      <4>3. req' \in [Uploads -> [p : Projects \cup {None}, size : Nat,
                                 key : Keys \cup {NoKey}, ver : Nat]]
        BY <4>1, <4>2 DEF UploadTypes
      <4> QED
        BY <2>1, <4>3 DEF UploadBegin, UploadTypes
    <3> QED
      BY <1>0, <2>1, <3>1 DEF UploadBegin
  <2>2. CASE StoreFails(u)
    <3>1. UploadTypes'
      BY <2>2 DEF StoreFails, UploadTypes, UploadIdle, NoRequest
    <3> QED
      BY <1>0, <2>2, <3>1 DEF StoreFails
  <2>3. CASE StoreUpload(u)
    <3>1. FileTypes'
      BY <2>3 DEF StoreUpload, FileTypes, Releases
    <3>2. UploadTypes'
      BY <2>3 DEF StoreUpload, UploadTypes
    <3> QED
      BY <1>0, <2>3, <3>1, <3>2 DEF StoreUpload
  <2>4. CASE DirectoryUnusable(u)
    <3>1. UploadTypes'
      BY <2>4 DEF DirectoryUnusable, UploadTypes, UploadIdle, NoRequest
    <3> QED
      BY <1>0, <2>4, <3>1 DEF DirectoryUnusable
  <2>5. CASE CommitUpload(u)
    <3>1. RowTypes'
      <4>1. /\ req[u].p \in Projects \cup {None} /\ req[u].size \in Nat
            /\ req[u].key \in Keys \cup {NoKey}
        BY DEF UploadTypes
      <4>2. rstatus' \in [Releases -> {"none", "ready", "deleting", "gone"}]
        BY <2>5 DEF CommitUpload, RowTypes
      <4>3. /\ rproject' = [rproject EXCEPT ![urel[u]] = req[u].p]
            /\ rsize' = [rsize EXCEPT ![urel[u]] = req[u].size]
            /\ rkey' = [rkey EXCEPT ![urel[u]] = req[u].key]
        BY <2>5 DEF CommitUpload
      <4> QED
        BY <4>1, <4>2, <4>3 DEF RowTypes
    <3>2. UploadTypes'
      BY <2>5 DEF CommitUpload, UploadTypes
    <3>3. RemovalTypes'
      BY <2>5 DEF CommitUpload, RemovalTypes, PruneChoices, Prunable, Ready, Rows
    <3> QED
      BY <1>0, <2>5, <3>1, <3>2, <3>3 DEF CommitUpload
  <2>6. CASE UploadRefused(u)
    <3>1. UploadTypes'
      BY <2>6 DEF UploadRefused, UploadTypes
    <3> QED
      BY <1>0, <2>6, <3>1 DEF UploadRefused
  <2>7. CASE UploadRetried(u)
    <3>1. UploadTypes'
      BY <2>7 DEF UploadRetried, UploadTypes, Existing, Rows
    <3> QED
      BY <1>0, <2>7, <3>1 DEF UploadRetried
  <2>8. CASE Discard(u)
    <3>1. FileTypes'
      BY <2>8 DEF Discard, FileTypes
    <3>2. UploadTypes'
      BY <2>8 DEF Discard, UploadTypes, UploadIdle, NoRequest
    <3> QED
      BY <1>0, <2>8, <3>1, <3>2 DEF Discard
  <2>9. CASE UploadDone(u)
    <3>1. UploadTypes'
      BY <2>9 DEF UploadDone, UploadTypes, UploadIdle, NoRequest
    <3> QED
      BY <1>0, <2>9, <3>1 DEF UploadDone
  <2> QED
    BY <1>3, <2>1, <2>2, <2>3, <2>4, <2>5, <2>6, <2>7, <2>8, <2>9 DEF UploadNext
<1>4. ASSUME NEW w \in Workers, RemoveNext(w) PROVE TypeOK'
  <2>1. CASE RemovalOff(w)
    <3>1. RemovalTypes'
      BY <2>1 DEF RemovalOff, RemovalTypes
    <3> QED
      BY <1>0, <2>1, <3>1 DEF RemovalOff
  <2>2. ASSUME NEW r \in Releases, SkipRelease(w, r) PROVE TypeOK'
    <3>1. RemovalTypes'
      BY <2>2 DEF SkipRelease, RemovalTypes
    <3> QED
      BY <1>0, <2>2, <3>1 DEF SkipRelease
  <2>3. ASSUME NEW r \in Releases, FindRemovable(w, r) PROVE TypeOK'
    <3>1. RemovalTypes'
      BY <2>3 DEF FindRemovable, RemovalTypes
    <3> QED
      BY <1>0, <2>3, <3>1 DEF FindRemovable
  <2>4. CASE RemoveFiles(w)
    <3>1. FileTypes'
      BY <2>4 DEF RemoveFiles, FileTypes
    <3>2. RemovalTypes'
      BY <2>4 DEF RemoveFiles, RemovalTypes
    <3> QED
      BY <1>0, <2>4, <3>1, <3>2 DEF RemoveFiles
  <2>5. CASE RemoveFilesFails(w)
    <3>1. FileTypes'
      BY <2>5 DEF RemoveFilesFails, FileTypes
    <3>2. RemovalTypes'
      BY <2>5 DEF RemoveFilesFails, RemovalTypes, NextRelease
    <3> QED
      BY <1>0, <2>5, <3>1, <3>2 DEF RemoveFilesFails
  <2>6. CASE DeleteRow(w)
    <3>1. RowTypes'
      BY <2>6 DEF DeleteRow, RowTypes
    <3>2. RemovalTypes'
      BY <2>6 DEF DeleteRow, RemovalTypes, NextRelease
    <3> QED
      BY <1>0, <2>6, <3>1, <3>2 DEF DeleteRow
  <2>7. CASE DeleteRowFails(w)
    <3>1. RemovalTypes'
      BY <2>7 DEF DeleteRowFails, RemovalTypes, NextRelease
    <3> QED
      BY <1>0, <2>7, <3>1 DEF DeleteRowFails
  <2> QED
    BY <1>4, <2>1, <2>2, <2>3, <2>4, <2>5, <2>6, <2>7 DEF RemoveNext
<1>5. CASE RunNext
  <2>1. CASE StartRun
    <3>1. RunTypes'
      BY <2>1 DEF StartRun, RunTypes
    <3> QED
      BY <1>0, <2>1, <3>1 DEF StartRun
  <2>2. CASE RetryDeleting
    <3>1. RunTypes'
      BY <2>2 DEF RetryDeleting, RunTypes
    <3>2. RemovalTypes'
      BY <2>2 DEF RetryDeleting, RemovalTypes, DeletingPages, Deleting
    <3> QED
      BY <1>0, <2>2, <3>1, <3>2 DEF RetryDeleting
  <2>3. CASE EndRun
    <3>1. RunTypes'
      BY <2>3 DEF EndRun, RunTypes
    <3> QED
      BY <1>0, <2>3, <3>1 DEF EndRun
  <2>4. ASSUME NEW p \in Projects, Prepare(p) PROVE TypeOK'
    <3>1. ProjectTypes'
      BY <2>4 DEF Prepare, ProjectTypes
    <3>2. RowTypes'
      BY <2>4 DEF Prepare, RowTypes
    <3>3. RemovalTypes'
      BY <2>4 DEF Prepare, RemovalTypes, CleanupPage, Rows
    <3>4. RunTypes'
      BY <2>4 DEF Prepare, RunTypes, CleanupPage, Rows
    <3>5. EnvTypes'
      BY <2>4 DEF Prepare, EnvTypes
    <3> QED
      BY <1>0, <2>4, <3>1, <3>2, <3>3, <3>4, <3>5 DEF Prepare
  <2>5. ASSUME NEW p \in Projects, SkipProject(p) PROVE TypeOK'
    <3>1. RunTypes'
      BY <2>5 DEF SkipProject, RunTypes
    <3> QED
      BY <1>0, <2>5, <3>1 DEF SkipProject
  <2> QED
    BY <1>5, <2>1, <2>2, <2>3, <2>4, <2>5 DEF RunNext
<1>6. CASE Crash
  <2>1. UploadTypes'
    BY <1>6 DEF Crash, UploadTypes, NoRequest
  <2>2. RemovalTypes' /\ RunTypes'
    BY <1>6 DEF Crash, RemovalTypes, RunTypes
  <2>3. EditTypes'
    BY <1>6 DEF Crash, EditTypes, Idle
  <2>4. EnvTypes'
    BY <1>6 DEF Crash, EnvTypes, history
  <2> QED
    BY <1>0, <1>6, <2>1, <2>2, <2>3, <2>4 DEF Crash
<1>7. CASE SwitchCleanup \/ RevokeCredentials \/ Tick
  <2>1. EnvTypes'
    <3>1. CASE SwitchCleanup
      <4>1. cleanup' \in BOOLEAN
        BY <3>1, Zenon DEF SwitchCleanup, EnvTypes
      <4> QED
        BY <3>1, <4>1 DEF SwitchCleanup, EnvTypes, history
    <3>2. CASE RevokeCredentials
      BY <3>2 DEF RevokeCredentials, EnvTypes, history
    <3>3. CASE Tick
      BY <3>3 DEF Tick, EnvTypes, history
    <3> QED
      BY <1>7, <3>1, <3>2, <3>3
  <2> QED
    BY <1>0, <1>7, <2>1 DEF SwitchCleanup, RevokeCredentials, Tick
<1>8. CASE UNCHANGED vars
  BY <1>0, <1>8 DEF vars
<1> QED
  BY <1>1, <1>2, <1>3, <1>4, <1>5, <1>6, <1>7, <1>8 DEF Next

\* The rows, directories, requests and removals keep the types of their state.
THEOREM TypeCorrect == Spec => []TypeOK
  BY InitType, TypeStep, PTL DEF Spec

(***************************************************************************)
(* Rows and files.  The proofs assume that a transaction reported failed   *)
(* has not been committed: with LostAcks a request discards the directory  *)
(* of a release that others may already have published.                    *)
(***************************************************************************)

\* Release numbers not drawn yet name nothing.
FreshIds == \A r \in Releases : r >= nextId => rstatus[r] = "none"

\* An upload works on a directory of its own that no row names yet.
Working == {u \in Uploads : upc[u] \in {"commit", "discard"}}
UploadsOwn ==
  /\ \A u \in Working : /\ urel[u] \in Releases /\ urel[u] < nextId
                        /\ rstatus[urel[u]] = "none"
                        /\ upc[u] = "commit" => content[urel[u]] = "full"
  /\ \A u, v \in Working : urel[u] = urel[v] => u = v

\* A worker removes only what was retired, and the row after the files.
RemovalsRetired ==
  \A w \in Workers : stage[w] # "idle" =>
    /\ removing[w] \in Releases
    /\ rstatus[removing[w]] \in {"deleting", "gone"}
    /\ stage[w] = "row" => content[removing[w]] = "none"

\* The pointer of a project names a ready release of that project.
CurrentReady ==
  \A p \in Projects : current[p] # None =>
    /\ rproject[current[p]] = p
    /\ rstatus[current[p]] = "ready"

StorageInv == /\ FreshIds /\ UploadsOwn /\ RemovalsRetired /\ CurrentReady
              /\ ReadyHasFiles /\ NoFilesWithoutRow

storageVars == <<rstatus, rproject, content, nextId, upc, urel, removing, stage, current>>

\* The initial state satisfies the storage invariant.
LEMMA StorageInit == Init => StorageInv
  BY DEF Init, StorageInv, FreshIds, UploadsOwn, Working, RemovalsRetired, CurrentReady,
     ReadyHasFiles, NoFilesWithoutRow

\* Every step preserves the storage invariant if no acknowledgement is lost.
LEMMA StorageStep ==
  ASSUME ~LostAcks, TypeOK, TypeOK', StorageInv, [Next]_vars
  PROVE  StorageInv'
<1> USE WebAssumption DEF StorageInv
<1> DEFINE Inv == FreshIds /\ UploadsOwn /\ RemovalsRetired /\ CurrentReady
                    /\ ReadyHasFiles /\ NoFilesWithoutRow
<1>0. UNCHANGED storageVars => Inv'
  BY DEF storageVars, FreshIds, UploadsOwn, Working, RemovalsRetired, CurrentReady,
     ReadyHasFiles, NoFilesWithoutRow
<1>1. ASSUME NEW u \in Uploads, UploadIdle(u), UNCHANGED <<rstatus, rproject, content, nextId,
             removing, stage, current>>
      PROVE  Inv'
  BY <1>1 DEF UploadIdle, TypeOK, UploadTypes, FreshIds, UploadsOwn, Working, RemovalsRetired,
     CurrentReady, ReadyHasFiles, NoFilesWithoutRow
<1>2. ASSUME NEW p \in Projects, ProjectNext(p) PROVE Inv'
  <2>1. CASE \/ CreateProject(p) \/ Block(p) \/ Unblock(p) \/ AdminDelete(p)
             \/ AdminRestore(p)
    BY <1>0, <2>1 DEF CreateProject, Block, Unblock, AdminDelete, AdminRestore, Moderate,
       storageVars, rowVars, uploadVars, removalVars
  <2>2. ASSUME NEW r \in Releases, Publish(p, r) PROVE Inv'
    <3>1. /\ UNCHANGED <<rstatus, rproject, content, nextId, upc, urel, removing, stage>>
          /\ current' = [current EXCEPT ![p] = r]
          /\ rproject[r] = p /\ rstatus[r] = "ready"
      BY <2>2 DEF Publish, Ready, Rows, rowVars, uploadVars, removalVars
    <3>2. CurrentReady'
      BY <3>1 DEF CurrentReady, TypeOK, ProjectTypes
    <3> QED
      BY <3>1, <3>2 DEF FreshIds, UploadsOwn, Working, RemovalsRetired, ReadyHasFiles,
         NoFilesWithoutRow
  <2> QED
    BY <1>2, <2>1, <2>2 DEF ProjectNext
<1>3. ASSUME NEW e \in Editors, EditNext(e) PROVE Inv'
  <2>1. UNCHANGED storageVars
    BY <1>3 DEF EditNext, EditBegin, EditRefused, EditCommit, storageVars, projectVars,
       rowVars, uploadVars, removalVars
  <2> QED
    BY <1>0, <2>1
<1>4. ASSUME NEW u \in Uploads, UploadNext(u) PROVE Inv'
  <2>1. ASSUME NEW p \in Projects, UploadBegin(u, p) PROVE Inv'
    BY <2>1 DEF UploadBegin, projectVars, rowVars, removalVars, TypeOK, UploadTypes, FreshIds,
       UploadsOwn, Working, RemovalsRetired, CurrentReady, ReadyHasFiles, NoFilesWithoutRow
  <2>2. CASE StoreFails(u) \/ DirectoryUnusable(u) \/ UploadDone(u)
    BY <1>1, <2>2 DEF StoreFails, DirectoryUnusable, UploadDone, projectVars, rowVars,
       removalVars
  <2>3. CASE StoreUpload(u)
    <3>1. /\ nextId \in Releases /\ nextId' = nextId + 1
          /\ content' = [content EXCEPT ![nextId] = "full"]
          /\ urel' = [urel EXCEPT ![u] = nextId]
          /\ upc' = [upc EXCEPT ![u] = "commit"] /\ upc[u] = "receive"
          /\ UNCHANGED <<rstatus, rproject, removing, stage, current>>
      BY <2>3 DEF StoreUpload, projectVars, rowVars, removalVars
    <3>2. rstatus[nextId] = "none" /\ nextId \in Nat
      BY <3>1 DEF FreshIds, Releases
    <3>3. FreshIds' /\ CurrentReady'
      BY <3>1, <3>2 DEF FreshIds, CurrentReady, Releases
    <3>4. ReadyHasFiles' /\ NoFilesWithoutRow'
      BY <3>1, <3>2 DEF ReadyHasFiles, NoFilesWithoutRow, TypeOK, FileTypes
    <3>5. RemovalsRetired'
      BY <3>1, <3>2 DEF RemovalsRetired, TypeOK, FileTypes
    <3>6. UploadsOwn'
      <4>1. Working' = Working \cup {u} /\ u \notin Working
        BY <3>1 DEF Working, TypeOK, UploadTypes
      <4>2. urel'[u] = nextId /\ content'[nextId] = "full"
        BY <3>1 DEF TypeOK, UploadTypes, FileTypes
      <4>3. \A v \in Working : /\ v \in Uploads /\ urel'[v] = urel[v] /\ urel[v] \in Releases
                               /\ urel[v] < nextId /\ urel[v] # nextId /\ upc'[v] = upc[v]
                               /\ content'[urel[v]] = content[urel[v]]
        <5> SUFFICES ASSUME NEW v \in Working
                     PROVE  /\ v \in Uploads /\ urel'[v] = urel[v] /\ urel[v] \in Releases
                            /\ urel[v] < nextId /\ urel[v] # nextId /\ upc'[v] = upc[v]
                            /\ content'[urel[v]] = content[urel[v]]
          OBVIOUS
        <5>1. v \in Uploads /\ v # u /\ urel[v] \in Releases /\ urel[v] < nextId
          BY <4>1 DEF UploadsOwn, Working
        <5>2. urel[v] # nextId
          BY <5>1, <3>2 DEF Releases
        <5> QED
          BY <3>1, <5>1, <5>2 DEF TypeOK, UploadTypes, FileTypes
      <4>4. \A v \in Working' : /\ urel'[v] \in Releases /\ urel'[v] < nextId'
                                /\ rstatus'[urel'[v]] = "none"
                                /\ upc'[v] = "commit" => content'[urel'[v]] = "full"
        BY <3>1, <3>2, <4>1, <4>2, <4>3 DEF UploadsOwn, Releases
      <4>5. \A v, z \in Working' : urel'[v] = urel'[z] => v = z
        BY <4>1, <4>2, <4>3 DEF UploadsOwn
      <4> QED
        BY <4>4, <4>5 DEF UploadsOwn
    <3> QED
      BY <3>3, <3>4, <3>5, <3>6
  <2>4. CASE CommitUpload(u)
    <3> DEFINE p == req[u].p
               new == urel[u]
    <3>1. PICK retired \in PruneChoices(p, req[u].size) :
            rstatus' = [r \in Releases |->
              IF r = new THEN "ready" ELSE IF r \in retired THEN "deleting" ELSE rstatus[r]]
      BY <2>4 DEF CommitUpload
    <3>2. \A r \in retired : r \in Releases /\ rstatus[r] = "ready" /\ rproject[r] = p
                               /\ r # current[p]
      BY DEF PruneChoices, Prunable, Ready, Rows
    <3>3. /\ upc[u] = "commit" /\ upc' = [upc EXCEPT ![u] = "prune"]
          /\ rproject' = [rproject EXCEPT ![new] = p]
          /\ UNCHANGED <<content, nextId, urel, removing, stage, current>>
      BY <2>4 DEF CommitUpload, projectVars
    <3>4. /\ new \in Releases /\ new < nextId /\ rstatus[new] = "none"
          /\ content[new] = "full"
      BY <3>3 DEF UploadsOwn, Working
    <3>5. FreshIds'
      <4> SUFFICES ASSUME NEW r \in Releases, r >= nextId PROVE rstatus'[r] = "none"
        BY <3>3 DEF FreshIds
      <4>1. rstatus[r] = "none" /\ r # new
        BY <3>4 DEF FreshIds, TypeOK, FileTypes, Releases
      <4> QED
        BY <3>1, <3>2, <4>1
    <3>6. UploadsOwn'
      BY <3>1, <3>2, <3>3, <3>4 DEF UploadsOwn, Working, TypeOK, UploadTypes
    <3>7. RemovalsRetired'
      BY <3>1, <3>2, <3>3, <3>4 DEF RemovalsRetired
    <3>8. CurrentReady'
      BY <3>1, <3>2, <3>3, <3>4 DEF CurrentReady, TypeOK, ProjectTypes, RowTypes
    <3>9. ReadyHasFiles' /\ NoFilesWithoutRow'
      BY <3>1, <3>2, <3>3, <3>4 DEF ReadyHasFiles, NoFilesWithoutRow
    <3> QED
      BY <3>5, <3>6, <3>7, <3>8, <3>9
  <2>5. CASE UploadRefused(u) \/ UploadRetried(u)
    <3>1. /\ UNCHANGED <<rstatus, rproject, content, nextId, urel, removing, stage, current>>
          /\ upc[u] = "commit" /\ upc' = [upc EXCEPT ![u] = "discard"]
      BY <2>5 DEF UploadRefused, UploadRetried, projectVars, rowVars, removalVars
    <3> QED
      BY <3>1 DEF TypeOK, UploadTypes, FreshIds, UploadsOwn, Working, RemovalsRetired,
         CurrentReady, ReadyHasFiles, NoFilesWithoutRow
  <2>6. CASE Discard(u)
    <3>1. PICK left \in {"none", "partial"} : content' = [content EXCEPT ![urel[u]] = left]
      BY <2>6 DEF Discard
    <3>2. /\ upc[u] = "discard"
          /\ upc' = [upc EXCEPT ![u] = "idle"]
          /\ urel' = [urel EXCEPT ![u] = None]
          /\ UNCHANGED <<rstatus, rproject, nextId, removing, stage, current>>
      BY <2>6 DEF Discard, UploadIdle, projectVars, rowVars, removalVars
    <3>3. urel[u] \in Releases /\ rstatus[urel[u]] = "none"
      BY <3>2 DEF UploadsOwn, Working
    <3>4. UploadsOwn'
      BY <3>1, <3>2, <3>3 DEF UploadsOwn, Working, TypeOK, UploadTypes, FileTypes
    <3>5. RemovalsRetired' /\ ReadyHasFiles' /\ NoFilesWithoutRow'
      BY <3>1, <3>2, <3>3 DEF RemovalsRetired, ReadyHasFiles, NoFilesWithoutRow, TypeOK,
         FileTypes
    <3> QED
      BY <3>2, <3>4, <3>5 DEF FreshIds, CurrentReady
  <2> QED
    BY <1>4, <2>1, <2>2, <2>3, <2>4, <2>5, <2>6 DEF UploadNext
<1>5. ASSUME NEW w \in Workers, RemoveNext(w) PROVE Inv'
  <2>1. ASSUME RemovalOff(w) \/ \E r \in Releases : SkipRelease(w, r) PROVE Inv'
    BY <1>0, <2>1 DEF RemovalOff, SkipRelease, storageVars, projectVars, rowVars, uploadVars
  <2>2. ASSUME NEW r \in Releases, FindRemovable(w, r) PROVE Inv'
    <3>1. /\ rstatus[r] = "deleting"
          /\ removing' = [removing EXCEPT ![w] = r] /\ stage' = [stage EXCEPT ![w] = "files"]
          /\ UNCHANGED <<rstatus, rproject, content, nextId, upc, urel, current>>
      BY <2>2 DEF FindRemovable, projectVars, rowVars, uploadVars
    <3>2. RemovalsRetired'
      BY <3>1 DEF RemovalsRetired, TypeOK, RemovalTypes
    <3> QED
      BY <3>1, <3>2 DEF FreshIds, UploadsOwn, Working, CurrentReady, ReadyHasFiles,
         NoFilesWithoutRow
  <2>3. CASE RemoveFiles(w) \/ RemoveFilesFails(w)
    <3> DEFINE r == removing[w]
    <3>1. /\ stage[w] = "files"
          /\ UNCHANGED <<rstatus, rproject, nextId, upc, urel, current>>
      BY <2>3 DEF RemoveFiles, RemoveFilesFails, projectVars, rowVars, uploadVars
    <3>2. r \in Releases /\ rstatus[r] \in {"deleting", "gone"}
      BY <3>1 DEF RemovalsRetired
    <3>3. /\ \A s \in Releases : s # r => content'[s] = content[s]
          /\ content[r] = "none" => content'[r] = "none"
      BY <2>3, <3>2 DEF RemoveFiles, RemoveFilesFails, TypeOK, FileTypes
    <3>4. UploadsOwn'
      BY <3>1, <3>2, <3>3 DEF UploadsOwn, Working
    <3>5. ReadyHasFiles' /\ NoFilesWithoutRow'
      BY <3>1, <3>2, <3>3 DEF ReadyHasFiles, NoFilesWithoutRow
    <3>6. RemovalsRetired'
      <4>1. CASE RemoveFiles(w)
        BY <3>1, <3>2, <3>3, <4>1 DEF RemoveFiles, RemovalsRetired, TypeOK, RemovalTypes,
           FileTypes
      <4>2. CASE RemoveFilesFails(w)
        BY <3>1, <3>2, <3>3, <4>2 DEF RemoveFilesFails, NextRelease, RemovalsRetired, TypeOK,
           RemovalTypes
      <4> QED
        BY <2>3, <4>1, <4>2
    <3> QED
      BY <3>1, <3>4, <3>5, <3>6 DEF FreshIds, CurrentReady
  <2>4. CASE DeleteRow(w)
    <3> DEFINE r == removing[w]
    <3>1. /\ stage[w] = "row"
          /\ rstatus' = [rstatus EXCEPT ![r] = IF @ = "deleting" THEN "gone" ELSE @]
          /\ stage' = [stage EXCEPT ![w] = "idle"] /\ removing' = [removing EXCEPT ![w] = None]
          /\ UNCHANGED <<rproject, content, nextId, upc, urel, current>>
      BY <2>4 DEF DeleteRow, NextRelease, projectVars, uploadVars
    <3>2. /\ r \in Releases /\ rstatus[r] \in {"deleting", "gone"} /\ content[r] = "none"
          /\ rstatus'[r] = "gone" /\ \A s \in Releases : s # r => rstatus'[s] = rstatus[s]
      BY <3>1 DEF RemovalsRetired, TypeOK, RowTypes
    <3>3. FreshIds' /\ CurrentReady'
      BY <3>1, <3>2 DEF FreshIds, CurrentReady, TypeOK, ProjectTypes
    <3>4. UploadsOwn'
      BY <3>1, <3>2 DEF UploadsOwn, Working
    <3>5. RemovalsRetired'
      BY <3>1, <3>2 DEF RemovalsRetired, TypeOK, RemovalTypes
    <3>6. ReadyHasFiles' /\ NoFilesWithoutRow'
      BY <3>1, <3>2 DEF ReadyHasFiles, NoFilesWithoutRow
    <3> QED
      BY <3>3, <3>4, <3>5, <3>6
  <2>5. CASE DeleteRowFails(w)
    BY <2>5 DEF DeleteRowFails, NextRelease, projectVars, rowVars, uploadVars, TypeOK,
       RemovalTypes, FreshIds, UploadsOwn, Working, RemovalsRetired, CurrentReady,
       ReadyHasFiles, NoFilesWithoutRow
  <2> QED
    BY <1>5, <2>1, <2>2, <2>3, <2>4, <2>5 DEF RemoveNext
<1>6. CASE RunNext
  <2>1. ASSUME NEW p \in Projects, Prepare(p) PROVE Inv'
    <3>1. /\ rstatus' = [r \in Releases |->
               IF r \in CleanupPage(p) THEN "deleting" ELSE rstatus[r]]
          /\ current' = [current EXCEPT ![p] = None]
          /\ UNCHANGED <<rproject, content, nextId, upc, urel, removing, stage>>
      BY <2>1 DEF Prepare, uploadVars
    <3>2. \A r \in CleanupPage(p) : /\ r \in Releases /\ rproject[r] = p
                                    /\ rstatus[r] \in {"ready", "deleting"}
      BY DEF CleanupPage, Rows, Live
    <3>3. FreshIds' /\ UploadsOwn'
      BY <3>1, <3>2 DEF FreshIds, UploadsOwn, Working, Releases
    <3>4. RemovalsRetired'
      BY <3>1, <3>2 DEF RemovalsRetired
    <3>5. CurrentReady'
      BY <3>1, <3>2 DEF CurrentReady, TypeOK, ProjectTypes
    <3>6. ReadyHasFiles' /\ NoFilesWithoutRow'
      BY <3>1, <3>2 DEF ReadyHasFiles, NoFilesWithoutRow
    <3> QED
      BY <3>3, <3>4, <3>5, <3>6
  <2>2. CASE StartRun \/ RetryDeleting \/ EndRun \/ \E p \in Projects : SkipProject(p)
    <3>1. UNCHANGED storageVars
      BY <2>2 DEF StartRun, RetryDeleting, EndRun, SkipProject, storageVars, projectVars,
         rowVars, uploadVars, removalVars
    <3> QED
      BY <1>0, <3>1
  <2> QED
    BY <1>6, <2>1, <2>2 DEF RunNext
<1>7. CASE Crash
  BY <1>7 DEF Crash, projectVars, rowVars, FreshIds, UploadsOwn, Working, RemovalsRetired,
     CurrentReady, ReadyHasFiles, NoFilesWithoutRow
<1>8. CASE SwitchCleanup \/ RevokeCredentials \/ Tick \/ UNCHANGED vars
  BY <1>0, <1>8 DEF SwitchCleanup, RevokeCredentials, Tick, vars, storageVars, projectVars,
     rowVars, uploadVars, removalVars
<1> QED
  BY <1>2, <1>3, <1>4, <1>5, <1>6, <1>7, <1>8 DEF Next

\* The storage invariant holds in every state.
LEMMA StorageInvariance == ASSUME ~LostAcks PROVE Spec => []StorageInv
<1>1. TypeOK /\ TypeOK' /\ StorageInv /\ [Next]_vars => StorageInv'
  BY StorageStep
<1> QED
  BY <1>1, StorageInit, TypeCorrect, PTL DEF Spec

\* Every release that can be published or downloaded has its complete files,
\* with any number of concurrent uploads, prunings and cleanup runs.
THEOREM FilesComplete == ASSUME ~LostAcks PROVE Spec => []ReadyHasFiles
<1>1. StorageInv => ReadyHasFiles
  BY DEF StorageInv
<1> QED
  BY <1>1, StorageInvariance, PTL

\* The page a project serves is never pruned, removed or discarded.
THEOREM PublishedSafe == ASSUME ~LostAcks PROVE Spec => []PublishedIntact
<1>1. TypeOK /\ StorageInv => PublishedIntact
  BY DEF StorageInv, CurrentReady, ReadyHasFiles, PublishedIntact, TypeOK, ProjectTypes
<1> QED
  BY <1>1, StorageInvariance, TypeCorrect, PTL

\* A row is deleted only after the directory it names.
THEOREM NoOrphanFiles == ASSUME ~LostAcks PROVE Spec => []NoFilesWithoutRow
<1>1. StorageInv => NoFilesWithoutRow
  BY DEF StorageInv
<1> QED
  BY <1>1, StorageInvariance, PTL

\* Rows and directories agree in every behaviour of uploads, pruning, cleanup and
\* crashes in which no acknowledgement of a commit is lost.
THEOREM FilesAgree == ASSUME ~LostAcks PROVE Spec => []FilesMatchRows
<1>1. TypeOK /\ PublishedIntact /\ ReadyHasFiles /\ NoFilesWithoutRow => FilesMatchRows
  BY DEF FilesMatchRows
<1> QED
  BY <1>1, TypeCorrect, PublishedSafe, FilesComplete, NoOrphanFiles, PTL

(***************************************************************************)
(* Life of a project: edits computed from an unlocked read, the recycle    *)
(* bin and the purge.  No assumption on acknowledgements.                  *)
(***************************************************************************)

\* What an edit read is still so, if the revision has not moved on.
EditsCurrent ==
  \A e \in Editors : edit[e] # Idle =>
    /\ edit[e].p \in Projects /\ status[edit[e].p] # "none"
    /\ edit[e].seen <= revision[edit[e].p]
    /\ edit[e].op \in {"update", "disable", "delete", "restore"}
    /\ edit[e].op = "delete" => edit[e].purge # Never
    /\ edit[e].op = "restore" => edit[e].purge = Never
    /\ edit[e].seen = revision[edit[e].p] =>
         /\ edit[e].op = "restore" <=> status[edit[e].p] = "deleted"
         /\ edit[e].op = "restore" => edit[e].p \notin purged \ ahead

\* The deadline of a project whose purge has begun has passed.
PurgedExpired ==
  \A p \in purged \ ahead : status[p] = "deleted" /\ purgeAfter[p] < now

LifeInv == EditsCurrent /\ TombstoneConsistent /\ PurgedExpired

\* The initial state satisfies the life cycle invariant.
LEMMA LifeInit == Init => LifeInv
  BY DEF Init, LifeInv, EditsCurrent, TombstoneConsistent, PurgedExpired

\* Every step preserves the life cycle invariant.
LEMMA LifeStep ==
  ASSUME TypeOK, TypeOK', LifeInv, [Next]_vars PROVE LifeInv'
<1> USE WebAssumption DEF LifeInv
<1> DEFINE Inv == EditsCurrent /\ TombstoneConsistent /\ PurgedExpired
<1>0. ASSUME UNCHANGED <<status, revision, purgeAfter, purged, ahead>>, now <= now',
             \A e \in Editors : edit'[e] \in {edit[e], Idle}
      PROVE  Inv'
  <2>1. EditsCurrent'
    BY <1>0 DEF EditsCurrent
  <2>2. \A p \in purged \ ahead : purgeAfter[p] \in Nat
    BY DEF PurgedExpired, TombstoneConsistent, TypeOK, ProjectTypes, EnvTypes
  <2>3. PurgedExpired'
    BY <1>0, <2>2 DEF PurgedExpired, TypeOK, EnvTypes
  <2> QED
    BY <1>0, <2>1, <2>3 DEF TombstoneConsistent
\* A change of one project that moves its revision on outdates the edits of it.
<1>1. ASSUME NEW p \in Projects, revision' = [revision EXCEPT ![p] = @ + 1],
             \A q \in Projects : q # p => status'[q] = status[q] /\ purgeAfter'[q] = purgeAfter[q],
             status'[p] # "none",
             \A e \in Editors : edit'[e] \in {edit[e], Idle},
             purged' \in {purged, purged \cup {p}}, ahead' \in {ahead, ahead \cup {p}}
      PROVE  EditsCurrent'
  <2> SUFFICES ASSUME NEW e \in Editors, edit'[e] # Idle
               PROVE  /\ edit'[e].p \in Projects /\ status'[edit'[e].p] # "none"
                      /\ edit'[e].seen <= revision'[edit'[e].p]
                      /\ edit'[e].op \in {"update", "disable", "delete", "restore"}
                      /\ edit'[e].op = "delete" => edit'[e].purge # Never
                      /\ edit'[e].op = "restore" => edit'[e].purge = Never
                      /\ edit'[e].seen = revision'[edit'[e].p] =>
                           /\ edit'[e].op = "restore" <=> status'[edit'[e].p] = "deleted"
                           /\ edit'[e].op = "restore" => edit'[e].p \notin purged' \ ahead'
    BY DEF EditsCurrent
  <2>1. edit'[e] = edit[e] /\ edit[e] # Idle
    BY <1>1
  <2>2. /\ edit[e].p \in Projects /\ edit[e].seen \in Nat /\ revision[edit[e].p] \in Nat
        /\ edit[e].seen <= revision[edit[e].p]
    BY <2>1 DEF EditsCurrent, TypeOK, EditTypes, ProjectTypes
  <2>3. CASE edit[e].p = p
    BY <1>1, <2>1, <2>2, <2>3 DEF EditsCurrent, TypeOK, ProjectTypes
  <2>4. CASE edit[e].p # p
    BY <1>1, <2>1, <2>2, <2>4 DEF EditsCurrent, TypeOK, ProjectTypes
  <2> QED
    BY <2>3, <2>4
<1>2. ASSUME NEW p \in Projects, ProjectNext(p) PROVE Inv'
  <2>1. CASE CreateProject(p)
    <3>1. /\ status[p] = "none" /\ status' = [status EXCEPT ![p] = "draft"]
          /\ revision' = [revision EXCEPT ![p] = 1]
          /\ UNCHANGED <<purgeAfter, edit, purged, ahead, now>>
      BY <2>1 DEF CreateProject, envVars, history
    <3>2. \A e \in Editors : edit[e] # Idle => edit[e].p \in Projects \ {p}
      BY <3>1 DEF EditsCurrent
    <3>3. EditsCurrent'
      BY <3>1, <3>2 DEF EditsCurrent, TypeOK, ProjectTypes
    <3>4. p \notin purged \ ahead
      BY <3>1 DEF PurgedExpired
    <3> QED
      BY <3>1, <3>3, <3>4 DEF TombstoneConsistent, PurgedExpired, TypeOK, ProjectTypes, EnvTypes
  <2>2. ASSUME NEW st, NEW mod, NEW purge, Moderate(p, st, mod, purge), st # "none",
               st = "deleted" => purge # Never,
               p \notin ahead /\ purge # Never => st = "deleted", p \notin purged \ ahead
        PROVE  Inv'
    <3>1. /\ status' = [status EXCEPT ![p] = st] /\ purgeAfter' = [purgeAfter EXCEPT ![p] = purge]
          /\ revision' = [revision EXCEPT ![p] = @ + 1] /\ UNCHANGED <<edit, purged, ahead, now>>
      BY <2>2 DEF Moderate, envVars, history
    <3>2. EditsCurrent'
      BY <1>1, <2>2, <3>1 DEF TypeOK, ProjectTypes
    <3> QED
      BY <2>2, <3>1, <3>2 DEF TombstoneConsistent, PurgedExpired, TypeOK, ProjectTypes, EnvTypes
  <2>3. CASE Block(p) \/ Unblock(p) \/ AdminDelete(p)
    <3>1. /\ status[p] \notin {"none", "deleted"} /\ p \notin purged \ ahead
          /\ p \notin ahead => purgeAfter[p] = Never
          /\ now + Retention # Never
      BY <2>3 DEF Block, Unblock, AdminDelete, Active, TombstoneConsistent, PurgedExpired,
         TypeOK, EnvTypes
    <3> QED
      BY <2>2, <2>3, <3>1 DEF Block, Unblock, AdminDelete
  <2>4. CASE AdminRestore(p)
    <3>1. p \notin purged \ ahead
      BY <2>4 DEF AdminRestore, PurgedExpired, TombstoneConsistent, TypeOK, ProjectTypes, EnvTypes
    <3> QED
      BY <2>2, <2>4, <3>1 DEF AdminRestore
  <2>5. ASSUME NEW r \in Releases, Publish(p, r) PROVE Inv'
    <3>1. /\ status[p] \notin {"none", "deleted"} /\ status' = [status EXCEPT ![p] = "enabled"]
          /\ revision' = [revision EXCEPT ![p] = @ + 1]
          /\ UNCHANGED <<purgeAfter, edit, purged, ahead, now>>
      BY <2>5 DEF Publish, envVars, history
    <3>2. EditsCurrent'
      BY <1>1, <3>1 DEF TypeOK, ProjectTypes
    <3> QED
      BY <3>1, <3>2 DEF TombstoneConsistent, PurgedExpired, TypeOK, ProjectTypes, EnvTypes
  <2> QED
    BY <1>2, <2>1, <2>3, <2>4, <2>5 DEF ProjectNext
<1>3. ASSUME NEW e \in Editors, EditNext(e) PROVE Inv'
  <2>1. ASSUME NEW p \in Projects, NEW op \in {"update", "disable", "delete", "restore"},
               EditBegin(e, p, op)
        PROVE  Inv'
    <3>0. PICK rev \in revision[p]..(revision[p] + MaxGuess) :
            edit' = [edit EXCEPT ![e] =
              [op |-> op, p |-> p, rev |-> rev, seen |-> revision[p], ver |-> ver,
               purge |-> IF op = "delete" THEN now + Retention ELSE Never]]
      BY <2>1 DEF EditBegin
    <3> DEFINE d == [op |-> op, p |-> p, rev |-> rev, seen |-> revision[p], ver |-> ver,
                     purge |-> IF op = "delete" THEN now + Retention ELSE Never]
    <3>1. /\ edit' = [edit EXCEPT ![e] = d]
          /\ UNCHANGED <<status, revision, purgeAfter, purged, ahead, now>>
          /\ status[p] # "none"
          /\ op = "restore" => status[p] = "deleted" /\ now <= purgeAfter[p]
          /\ op # "restore" => status[p] # "deleted"
      BY <2>1, <3>0 DEF EditBegin, projectVars, envVars, history
    <3>2. op = "restore" => p \notin purged \ ahead
      BY <3>1 DEF PurgedExpired, TombstoneConsistent, TypeOK, ProjectTypes, EnvTypes
    <3>3. now + Retention # Never /\ revision[p] <= revision[p]
      BY DEF TypeOK, EnvTypes, ProjectTypes
    <3>4. EditsCurrent'
      <4>1. ASSUME NEW x \in Editors, x # e PROVE edit'[x] = edit[x]
        BY <3>1, <4>1 DEF TypeOK, EditTypes
      <4>2. edit'[e] = d
        BY <3>1 DEF TypeOK, EditTypes
      <4> QED
        BY <3>1, <3>2, <3>3, <4>1, <4>2 DEF EditsCurrent
    <3> QED
      BY <3>1, <3>4 DEF TombstoneConsistent, PurgedExpired
  <2>2. CASE EditRefused(e)
    BY <1>0, <2>2 DEF EditRefused, projectVars, envVars, history, TypeOK, EditTypes, EnvTypes
  <2>3. CASE EditCommit(e)
    <3> DEFINE d == edit[e]
    <3>1. /\ d # Idle /\ d.rev = revision[d.p]
          /\ status' = [status EXCEPT ![d.p] =
               CASE d.op \in {"disable", "restore"} -> "disabled"
                 [] d.op = "delete" -> "deleted"
                 [] OTHER -> status[d.p]]
          /\ purgeAfter' = [purgeAfter EXCEPT ![d.p] =
               IF d.op \in {"delete", "restore"} THEN d.purge ELSE purgeAfter[d.p]]
          /\ revision' = [revision EXCEPT ![d.p] = @ + 1]
          /\ edit' = [edit EXCEPT ![e] = Idle]
          /\ ahead' = IF d.rev = d.seen THEN ahead ELSE ahead \cup {d.p}
          /\ UNCHANGED <<purged, now>>
      BY <2>3 DEF EditCommit, SameRevision, NewDeadline, envVars
    <3>2. /\ d.p \in Projects /\ status[d.p] # "none"
          /\ d.op \in {"update", "disable", "delete", "restore"}
          /\ d.op = "delete" => d.purge # Never
          /\ d.op = "restore" => d.purge = Never
          /\ d.p \notin ahead' => /\ d.p \notin ahead
                                  /\ d.op = "restore" => d.p \notin purged
                                  /\ d.op = "restore" <=> status[d.p] = "deleted"
      BY <3>1 DEF EditsCurrent
    <3>3. /\ status'[d.p] # "none"
          /\ \A q \in Projects : q # d.p => status'[q] = status[q] /\ purgeAfter'[q] = purgeAfter[q]
      BY <3>1, <3>2 DEF TypeOK, ProjectTypes
    <3>4. EditsCurrent'
      BY <1>1, <3>1, <3>2, <3>3 DEF TypeOK, EditTypes
    <3>5. /\ status'[d.p] = "deleted" => purgeAfter'[d.p] # Never
          /\ d.p \notin ahead' => (purgeAfter'[d.p] # Never => status'[d.p] = "deleted")
      <4>1. status[d.p] = "deleted" => purgeAfter[d.p] # Never
        BY <3>2 DEF TombstoneConsistent
      <4>2. d.p \notin ahead => (purgeAfter[d.p] # Never => status[d.p] = "deleted")
        BY <3>2 DEF TombstoneConsistent
      <4>3. /\ purgeAfter'[d.p] =
                 IF d.op \in {"delete", "restore"} THEN d.purge ELSE purgeAfter[d.p]
            /\ status'[d.p] = CASE d.op \in {"disable", "restore"} -> "disabled"
                               [] d.op = "delete" -> "deleted"
                               [] OTHER -> status[d.p]
        BY <3>1, <3>2 DEF TypeOK, ProjectTypes
      <4>4. CASE d.op = "delete"
        BY <3>2, <4>3, <4>4
      <4>5. CASE d.op = "restore"
        BY <3>2, <4>3, <4>5
      <4>6. CASE d.op = "disable"
        BY <3>2, <4>1, <4>2, <4>3, <4>6
      <4>7. CASE d.op = "update"
        BY <3>2, <4>1, <4>2, <4>3, <4>7
      <4> QED
        BY <3>2, <4>4, <4>5, <4>6, <4>7
    <3>6. d.p \notin purged \ ahead'
      <4> SUFFICES ASSUME d.p \in purged, d.p \notin ahead' PROVE FALSE
        OBVIOUS
      <4>1. d.p \notin ahead /\ d.op # "restore" /\ status[d.p] # "deleted"
        BY <3>2
      <4> QED
        BY <4>1 DEF PurgedExpired
    <3>7. \A q \in Projects : q # d.p => (q \in ahead' <=> q \in ahead)
      BY <3>1
    <3>8. TombstoneConsistent'
      BY <3>3, <3>5, <3>7 DEF TombstoneConsistent
    <3>9. PurgedExpired'
      BY <3>1, <3>3, <3>6, <3>7 DEF PurgedExpired, TypeOK, EnvTypes
    <3> QED
      BY <3>4, <3>8, <3>9
  <2> QED
    BY <1>3, <2>1, <2>2, <2>3 DEF EditNext
<1>4. ASSUME NEW u \in Uploads, UploadNext(u) PROVE Inv'
  <2>1. UNCHANGED <<status, revision, purgeAfter, purged, ahead, now, edit>>
    BY <1>4 DEF UploadNext, UploadBegin, StoreFails, StoreUpload, DirectoryUnusable,
       CommitUpload, UploadRefused, UploadRetried, Discard, UploadDone, projectVars, envVars, history
  <2> QED
    BY <1>0, <2>1 DEF TypeOK, EnvTypes
<1>5. ASSUME NEW w \in Workers, RemoveNext(w) PROVE Inv'
  <2>1. UNCHANGED <<status, revision, purgeAfter, purged, ahead, now, edit>>
    BY <1>5 DEF RemoveNext, RemovalOff, SkipRelease, FindRemovable, RemoveFiles,
       RemoveFilesFails, DeleteRow, DeleteRowFails, projectVars, envVars, history
  <2> QED
    BY <1>0, <2>1 DEF TypeOK, EnvTypes
<1>6. CASE RunNext
  <2>1. ASSUME NEW p \in Projects, Prepare(p) PROVE Inv'
    <3>1. /\ status[p] = "deleted" /\ purgeAfter[p] # Never /\ purgeAfter[p] <= now
          /\ revision' = [revision EXCEPT ![p] = @ + 1]
          /\ purged' = purged \cup {p} /\ now' = now + 1
          /\ UNCHANGED <<status, purgeAfter, edit, ahead>>
      BY <2>1 DEF Prepare, Expired
    <3>2. EditsCurrent'
      BY <1>1, <3>1
    <3>3. PurgedExpired'
      BY <3>1 DEF PurgedExpired, TombstoneConsistent, TypeOK, ProjectTypes, EnvTypes
    <3> QED
      BY <3>1, <3>2, <3>3 DEF TombstoneConsistent
  <2>2. CASE StartRun \/ RetryDeleting \/ EndRun \/ \E p \in Projects : SkipProject(p)
    <3>1. UNCHANGED <<status, revision, purgeAfter, purged, ahead, now, edit>>
      BY <2>2 DEF StartRun, RetryDeleting, EndRun, SkipProject, projectVars, envVars, history
    <3> QED
      BY <1>0, <3>1 DEF TypeOK, EnvTypes
  <2> QED
    BY <1>6, <2>1, <2>2 DEF RunNext
<1>7. CASE Crash
  BY <1>0, <1>7 DEF Crash, projectVars, history, TypeOK, EnvTypes
<1>8. CASE SwitchCleanup \/ RevokeCredentials \/ Tick \/ UNCHANGED vars
  <2>1. UNCHANGED <<status, revision, purgeAfter, purged, ahead, edit>> /\ now <= now'
    BY <1>8 DEF SwitchCleanup, RevokeCredentials, Tick, vars, projectVars, envVars, history, TypeOK,
       EnvTypes
  <2> QED
    BY <1>0, <2>1
<1> QED
  BY <1>2, <1>3, <1>4, <1>5, <1>6, <1>7, <1>8 DEF Next

\* The life cycle invariant holds in every state.
LEMMA LifeInvariance == Spec => []LifeInv
<1>1. TypeOK /\ TypeOK' /\ LifeInv /\ [Next]_vars => LifeInv'
  BY LifeStep
<1> QED
  BY <1>1, LifeInit, TypeCorrect, PTL DEF Spec

\* No edit computed from a stale read separates the status of a project from its purge deadline,
\* if clients send the revision they were shown; a deleted project has one in any case.
THEOREM TombstonesConsistent == Spec => []TombstoneConsistent
<1>1. LifeInv => TombstoneConsistent
  BY DEF LifeInv
<1> QED
  BY <1>1, LifeInvariance, PTL

\* Once its releases are being purged a project stays deleted, unless a client sends a revision
\* newer than the project it was shown.
THEOREM PurgeFinal == Spec => []PurgeIsFinal
<1>1. LifeInv => PurgeIsFinal
  BY DEF LifeInv, PurgedExpired, PurgeIsFinal
<1> QED
  BY <1>1, LifeInvariance, PTL

\* The recycle bin is sound for every project that was never changed under a revision newer than
\* the row the handler had read, whatever stale changes are in flight and however far clients guess
\* ahead on other projects.
THEOREM RecycleBinIsSound == Spec => []RecycleBinSound
<1>1. TombstoneConsistent /\ PurgeIsFinal => RecycleBinSound
  BY DEF RecycleBinSound
<1> QED
  BY <1>1, TombstonesConsistent, PurgeFinal, PTL

(***************************************************************************)
(* Retries: one release per idempotency key, also when acknowledgements    *)
(* are lost.                                                               *)
(***************************************************************************)

\* An upload that is about to commit has a number of its own without a row.
Committing == {u \in Uploads : upc[u] = "commit"}
CommittersOwn ==
  /\ \A u \in Committing : /\ urel[u] \in Releases /\ urel[u] < nextId
                           /\ rstatus[urel[u]] = "none"
  /\ \A u, v \in Committing : urel[u] = urel[v] => u = v

KeyInv == FreshIds /\ CommittersOwn /\ OneReleasePerKey

\* The initial state satisfies the key invariant.
LEMMA KeyInit == Init => KeyInv
  BY DEF Init, KeyInv, FreshIds, CommittersOwn, Committing, OneReleasePerKey, Live

\* Every step preserves the key invariant.
LEMMA KeyStep ==
  ASSUME TypeOK, TypeOK', KeyInv, [Next]_vars PROVE KeyInv'
<1> USE WebAssumption DEF KeyInv
<1> DEFINE Inv == FreshIds /\ CommittersOwn /\ OneReleasePerKey
<1>0. ASSUME UNCHANGED <<nextId, rproject, rkey>>,
             \A r \in Releases : \/ rstatus'[r] = rstatus[r]
                                 \/ Live(r) /\ rstatus'[r] # "none",
             \A r \in Releases : Live(r)' => Live(r),
             \A u \in Uploads : upc'[u] = "commit" => upc[u] = "commit" /\ urel'[u] = urel[u]
      PROVE  Inv'
  <2>1. FreshIds'
    BY <1>0 DEF FreshIds, Live
  <2>2. CommittersOwn'
    BY <1>0 DEF CommittersOwn, Committing, Live
  <2>3. OneReleasePerKey'
    BY <1>0 DEF OneReleasePerKey
  <2> QED
    BY <2>1, <2>2, <2>3
<1>1. ASSUME UNCHANGED <<nextId, rstatus, rproject, rkey>>,
             \A u \in Uploads : upc'[u] = "commit" => upc[u] = "commit" /\ urel'[u] = urel[u]
      PROVE  Inv'
  BY <1>0, <1>1 DEF Live
<1>2. ASSUME NEW p \in Projects, ProjectNext(p) PROVE Inv'
  BY <1>1, <1>2 DEF ProjectNext, CreateProject, Block, Unblock, AdminDelete, AdminRestore,
     Moderate, Publish, rowVars, uploadVars
<1>3. ASSUME NEW e \in Editors, EditNext(e) PROVE Inv'
  BY <1>1, <1>3 DEF EditNext, EditBegin, EditRefused, EditCommit, rowVars, uploadVars
<1>4. ASSUME NEW u \in Uploads, UploadNext(u) PROVE Inv'
  <2>1. CASE StoreUpload(u)
    <3>1. /\ nextId \in Releases /\ nextId' = nextId + 1
          /\ urel' = [urel EXCEPT ![u] = nextId]
          /\ upc' = [upc EXCEPT ![u] = "commit"] /\ upc[u] = "receive"
          /\ UNCHANGED <<rstatus, rproject, rkey>>
      BY <2>1 DEF StoreUpload, rowVars
    <3>2. rstatus[nextId] = "none" /\ nextId \in Nat
      BY <3>1 DEF FreshIds, Releases
    <3>3. FreshIds'
      BY <3>1, <3>2 DEF FreshIds, Releases
    <3>4. /\ Committing' = Committing \cup {u} /\ u \notin Committing
          /\ urel'[u] = nextId
      BY <3>1 DEF Committing, TypeOK, UploadTypes
    <3>5. \A v \in Committing : /\ urel'[v] = urel[v] /\ urel[v] \in Releases
                                /\ urel[v] < nextId
      BY <3>1, <3>4 DEF CommittersOwn, Committing, TypeOK, UploadTypes
    <3>6. \A v \in Committing : urel[v] # nextId /\ urel[v] < nextId + 1
      BY <3>2, <3>5 DEF Releases
    <3>7. CommittersOwn'
      BY <3>1, <3>2, <3>4, <3>5, <3>6 DEF CommittersOwn
    <3> QED
      BY <3>1, <3>3, <3>7 DEF OneReleasePerKey, Live
  <2>2. CASE CommitUpload(u)
    <3> DEFINE p == req[u].p
               new == urel[u]
    <3>1. PICK retired \in PruneChoices(p, req[u].size) :
            rstatus' = [r \in Releases |->
              IF r = new THEN "ready" ELSE IF r \in retired THEN "deleting" ELSE rstatus[r]]
      BY <2>2 DEF CommitUpload
    <3>2. \A r \in retired : r \in Releases /\ rstatus[r] = "ready"
      BY DEF PruneChoices, Prunable, Ready, Rows
    <3>3. /\ upc[u] = "commit" /\ upc'[u] # "commit"
          /\ \A v \in Uploads : v # u => upc'[v] = upc[v]
          /\ UNCHANGED <<nextId, urel>>
      BY <2>2 DEF CommitUpload, TypeOK, UploadTypes
    <3>4. new \in Releases /\ new < nextId /\ rstatus[new] = "none"
      BY <3>3 DEF CommittersOwn, Committing
    <3>5. FreshIds'
      <4> SUFFICES ASSUME NEW r \in Releases, r >= nextId PROVE rstatus'[r] = "none"
        BY <3>3 DEF FreshIds
      <4>1. rstatus[r] = "none" /\ r # new
        BY <3>4 DEF FreshIds, TypeOK, FileTypes, Releases
      <4> QED
        BY <3>1, <3>2, <4>1
    <3>6. CommittersOwn'
      BY <3>1, <3>2, <3>3, <3>4 DEF CommittersOwn, Committing
    <3>7. /\ \A r \in Releases \ {new} : Live(r)' => Live(r)
          /\ \A r \in Releases \ {new} : rproject'[r] = rproject[r] /\ rkey'[r] = rkey[r]
          /\ rproject'[new] = p /\ rkey'[new] = req[u].key
      BY <2>2, <3>1, <3>2, <3>4 DEF CommitUpload, Live, TypeOK, RowTypes
    <3>8. \A r \in Releases : Live(r) /\ rproject[r] = p /\ rkey[r] = req[u].key =>
            req[u].key = NoKey
      BY <2>2 DEF CommitUpload, Existing, Rows
    <3>9. OneReleasePerKey'
      BY <3>7, <3>8 DEF OneReleasePerKey
    <3> QED
      BY <3>5, <3>6, <3>9
  <2>3. CASE ~StoreUpload(u) /\ ~CommitUpload(u)
    <3>1. /\ UNCHANGED <<nextId, rstatus, rproject, rkey>>
          /\ \A v \in Uploads : upc'[v] = "commit" => upc[v] = "commit" /\ urel'[v] = urel[v]
      BY <1>4, <2>3 DEF UploadNext, UploadBegin, StoreFails, DirectoryUnusable, UploadRefused,
         UploadRetried, Discard, UploadDone, UploadIdle, rowVars, TypeOK, UploadTypes
    <3> QED
      BY <1>1, <3>1
  <2> QED
    BY <2>1, <2>2, <2>3
<1>5. ASSUME NEW w \in Workers, RemoveNext(w) PROVE Inv'
  <2>1. CASE DeleteRow(w)
    <3>1. /\ UNCHANGED <<nextId, rproject, rkey, upc, urel>>
          /\ rstatus' = [rstatus EXCEPT ![removing[w]] = IF @ = "deleting" THEN "gone" ELSE @]
      BY <2>1 DEF DeleteRow, uploadVars
    <3>2. /\ \A r \in Releases : \/ rstatus'[r] = rstatus[r]
                                 \/ Live(r) /\ rstatus'[r] # "none"
          /\ \A r \in Releases : Live(r)' => Live(r)
      BY <3>1 DEF Live, TypeOK, RowTypes
    <3> QED
      BY <1>0, <3>1, <3>2
  <2>2. CASE ~DeleteRow(w)
    <3>1. UNCHANGED <<nextId, rstatus, rproject, rkey, upc, urel>>
      BY <1>5, <2>2 DEF RemoveNext, RemovalOff, SkipRelease, FindRemovable, RemoveFiles,
         RemoveFilesFails, DeleteRowFails, rowVars, uploadVars
    <3> QED
      BY <1>1, <3>1
  <2> QED
    BY <2>1, <2>2
<1>6. CASE RunNext
  <2>1. ASSUME NEW p \in Projects, Prepare(p) PROVE Inv'
    <3>1. /\ UNCHANGED <<nextId, rproject, rkey, upc, urel>>
          /\ rstatus' = [r \in Releases |->
               IF r \in CleanupPage(p) THEN "deleting" ELSE rstatus[r]]
      BY <2>1 DEF Prepare, uploadVars
    <3>2. /\ \A r \in Releases : \/ rstatus'[r] = rstatus[r]
                                 \/ Live(r) /\ rstatus'[r] # "none"
          /\ \A r \in Releases : Live(r)' => Live(r)
      BY <3>1 DEF Live, CleanupPage, Rows
    <3> QED
      BY <1>0, <3>1, <3>2
  <2>2. CASE StartRun \/ RetryDeleting \/ EndRun \/ \E p \in Projects : SkipProject(p)
    BY <1>1, <2>2 DEF StartRun, RetryDeleting, EndRun, SkipProject, rowVars, uploadVars
  <2> QED
    BY <1>6, <2>1, <2>2 DEF RunNext
<1>7. CASE Crash
  BY <1>1, <1>7 DEF Crash, rowVars
<1>8. CASE SwitchCleanup \/ RevokeCredentials \/ Tick \/ UNCHANGED vars
  BY <1>1, <1>8 DEF SwitchCleanup, RevokeCredentials, Tick, vars, rowVars, uploadVars
<1> QED
  BY <1>2, <1>3, <1>4, <1>5, <1>6, <1>7, <1>8 DEF Next

\* However often an upload is retried, and whatever reply got lost, its key
\* names one release.
THEOREM RetriesIdempotent == Spec => []OneReleasePerKey
<1>1. TypeOK /\ TypeOK' /\ KeyInv /\ [Next]_vars => KeyInv'
  BY KeyStep
<1>2. KeyInv => OneReleasePerKey
  BY DEF KeyInv
<1> QED
  BY <1>1, <1>2, KeyInit, TypeCorrect, PTL DEF Spec

(***************************************************************************)
(* Quotas, also when acknowledgements are lost.                            *)
(***************************************************************************)

LEMMA ReleasesFinite ==
  /\ IsFiniteSet(Releases) /\ \A S \in SUBSET Releases : IsFiniteSet(S) /\ Cardinality(S) \in Nat
<1>1. IsFiniteSet(Releases)
  <2>1. 1 \in Int /\ MaxRelease \in Int
    BY WebAssumption
  <2>2. IsFiniteSet(1..MaxRelease)
    BY ONLY <2>1, FS_Interval, Zenon
  <2> QED
    BY ONLY <2>2 DEF Releases
<1> QED
  BY <1>1, FS_Subset, FS_CardinalityType

\* The quota, as sums.
QuotaBySums ==
  WithinQuota <=> /\ SumOf(rsize, Charged) <= MaxUserBytes
                  /\ \A p \in Projects : /\ SumOf(rsize, Ready(p)) <= MaxProjectBytes
                                         /\ Cardinality(Ready(p)) <= MaxReleases

LEMMA QuotaSums == QuotaBySums
  BY DEF QuotaBySums, WithinQuota, Bytes, SumOf, Charged

\* The same of the next state.
LEMMA QuotaSumsNext ==
  WithinQuota' <=> /\ SumOf(rsize', Charged') <= MaxUserBytes
                   /\ \A p \in Projects : /\ SumOf(rsize', Ready(p)') <= MaxProjectBytes
                                          /\ Cardinality(Ready(p)') <= MaxReleases
<1>1. QuotaBySums'
  BY QuotaSums, PTL
<1> QED
  BY <1>1 DEF QuotaBySums

\* Rows that go, or go from ready to deleting, free what they took.
LEMMA QuotaShrinks ==
  ASSUME TypeOK, WithinQuota, UNCHANGED <<rsize, rproject>>,
         \A r \in Releases : Live(r)' => Live(r),
         \A r \in Releases : rstatus'[r] = "ready" => rstatus[r] = "ready"
  PROVE  WithinQuota'
<1>0. \A r \in Releases : rsize[r] \in Nat
  BY DEF TypeOK, RowTypes
<1>1. Charged \in SUBSET Releases /\ Charged' \in SUBSET Charged
  BY DEF Charged
<1>2. SumOf(rsize, Charged') <= MaxUserBytes
  <2>1. SumOf(rsize, Charged') <= SumOf(rsize, Charged)
    BY <1>0, <1>1, ReleasesFinite, SumMonotone
  <2>2. SumOf(rsize, Charged') \in Nat /\ SumOf(rsize, Charged) \in Nat
    <3>1. Charged' \in SUBSET Releases
      BY <1>1
    <3> QED
      BY <1>0, <1>1, <3>1, ReleasesFinite, SumType
  <2>3. SumOf(rsize, Charged) <= MaxUserBytes /\ MaxUserBytes \in Nat
    BY QuotaSums, WebAssumption DEF QuotaBySums
  <2> QED
    BY <2>1, <2>2, <2>3
<1>3. ASSUME NEW p \in Projects
      PROVE  SumOf(rsize, Ready(p)') <= MaxProjectBytes /\ Cardinality(Ready(p)') <= MaxReleases
  <2>1. Ready(p) \in SUBSET Releases /\ Ready(p)' \in SUBSET Ready(p)
    BY DEF Ready, Rows, Live
  <2>2. /\ SumOf(rsize, Ready(p)') <= SumOf(rsize, Ready(p))
        /\ Cardinality(Ready(p)') <= Cardinality(Ready(p))
    BY <1>0, <2>1, ReleasesFinite, SumMonotone, FS_Subset
  <2>3. Ready(p)' \in SUBSET Releases
    BY <2>1
  <2>4. /\ SumOf(rsize, Ready(p)') \in Nat /\ SumOf(rsize, Ready(p)) \in Nat
        /\ Cardinality(Ready(p)') \in Nat /\ Cardinality(Ready(p)) \in Nat
    BY <1>0, <2>1, <2>3, ReleasesFinite, SumType
  <2>5. /\ SumOf(rsize, Ready(p)) <= MaxProjectBytes /\ Cardinality(Ready(p)) <= MaxReleases
        /\ MaxProjectBytes \in Nat /\ MaxReleases \in Nat
    BY QuotaSums, WebAssumption DEF QuotaBySums
  <2> QED
    BY <2>2, <2>4, <2>5
<1> QED
  BY <1>2, <1>3, QuotaSumsNext

\* A committed upload adds its own row and retires what the selection chose.
LEMMA QuotaCommit ==
  ASSUME TypeOK, KeyInv, WithinQuota, NEW u \in Uploads, CommitUpload(u)
  PROVE  WithinQuota'
<1> DEFINE p == req[u].p
           size == req[u].size
           new == urel[u]
<1>1. PICK retired \in PruneChoices(p, size) :
        rstatus' = [r \in Releases |->
          IF r = new THEN "ready" ELSE IF r \in retired THEN "deleting" ELSE rstatus[r]]
  BY DEF CommitUpload
<1>2. /\ retired \in SUBSET Ready(p)
      /\ SumOf(rsize, Ready(p) \ retired) + size <= MaxProjectBytes
      /\ Cardinality(Ready(p) \ retired) + 1 <= MaxReleases
  BY DEF PruneChoices, Prunable, Bytes, SumOf
<1>3. /\ SumOf(rsize, Charged) + size <= MaxUserBytes
      /\ rproject' = [rproject EXCEPT ![new] = p] /\ rsize' = [rsize EXCEPT ![new] = size]
  BY DEF CommitUpload, Bytes, SumOf
<1>4. new \in Releases /\ rstatus[new] = "none" /\ size \in Nat
  BY DEF CommitUpload, KeyInv, CommittersOwn, Committing, TypeOK, UploadTypes
<1>5. /\ \A r \in Releases : rsize[r] \in Nat /\ rsize'[r] \in Nat
      /\ rsize'[new] = size /\ \A r \in Releases \ {new} : rsize'[r] = rsize[r]
  BY <1>3, <1>4 DEF TypeOK, RowTypes
<1> HIDE DEF size, new
<1>6. ASSUME NEW S \in SUBSET Releases, new \notin S
      PROVE  /\ SumOf(rsize', S \cup {new}) = SumOf(rsize, S) + size
             /\ SumOf(rsize', S) = SumOf(rsize, S) /\ SumOf(rsize, S) \in Nat
  <2>1. IsFiniteSet(S)
    BY ReleasesFinite
  <2>2. SumOf(rsize', S) = SumOf(rsize, S) /\ SumOf(rsize, S) \in Nat
    BY <1>5, <1>6, <2>1, SumSame, SumType
  <2>3. SumOf(rsize', S \cup {new}) = rsize'[new] + SumOf(rsize', S)
    BY <1>4, <1>5, <1>6, <2>1, SumAdd
  <2> QED
    BY <1>4, <1>5, <2>2, <2>3
<1>7. /\ Charged' = Charged \cup {new} /\ new \notin Charged /\ Charged \in SUBSET Releases
  BY <1>1, <1>2, <1>4 DEF Charged, Live, Ready, Rows
<1>8. SumOf(rsize', Charged') <= MaxUserBytes
  BY <1>3, <1>6, <1>7
<1>9. ASSUME NEW q \in Projects
      PROVE  SumOf(rsize', Ready(q)') <= MaxProjectBytes /\ Cardinality(Ready(q)') <= MaxReleases
  <2>1. CASE q = p
    <3> DEFINE kept == Ready(p) \ retired
    <3>1. Ready(q)' = kept \cup {new} /\ new \notin kept /\ kept \in SUBSET Releases
      BY <1>1, <1>2, <1>3, <1>4, <2>1 DEF Ready, Rows, Live, TypeOK, RowTypes
    <3>2. Cardinality(kept \cup {new}) = Cardinality(kept) + 1
      BY <3>1, ReleasesFinite, FS_AddElement
    <3> QED
      BY <1>2, <1>4, <1>6, <3>1, <3>2
  <2>2. CASE q # p
    <3>1. Ready(q)' = Ready(q) /\ new \notin Ready(q) /\ Ready(q) \in SUBSET Releases
      BY <1>1, <1>2, <1>3, <1>4, <2>2 DEF Ready, Rows, Live, TypeOK, RowTypes
    <3> QED
      BY <1>6, <3>1, QuotaSums DEF QuotaBySums
  <2> QED
    BY <2>1, <2>2
<1> QED
  BY <1>8, <1>9, QuotaSumsNext

LEMMA QuotaStep ==
  ASSUME TypeOK, KeyInv, WithinQuota, [Next]_vars
  PROVE  WithinQuota'
<1>0. ASSUME UNCHANGED <<rstatus, rsize, rproject>> PROVE WithinQuota'
  BY <1>0, QuotaShrinks DEF Live
<1>1. ASSUME NEW p \in Projects, ProjectNext(p) PROVE UNCHANGED <<rstatus, rsize, rproject>>
  BY <1>1 DEF ProjectNext, CreateProject, Block, Unblock, AdminDelete, AdminRestore,
     Moderate, Publish, rowVars
<1>2. ASSUME NEW e \in Editors, EditNext(e) PROVE UNCHANGED <<rstatus, rsize, rproject>>
  BY <1>2 DEF EditNext, EditBegin, EditRefused, EditCommit, rowVars
<1>3. ASSUME NEW u \in Uploads, UploadNext(u), ~CommitUpload(u)
      PROVE  UNCHANGED <<rstatus, rsize, rproject>>
  BY <1>3 DEF UploadNext, UploadBegin, StoreFails, StoreUpload, DirectoryUnusable, UploadRefused,
     UploadRetried, Discard, UploadDone, rowVars
<1>4. ASSUME NEW w \in Workers, DeleteRow(w) PROVE WithinQuota'
  <2>1. /\ \A r \in Releases : Live(r)' => Live(r)
        /\ \A r \in Releases : rstatus'[r] = "ready" => rstatus[r] = "ready"
        /\ UNCHANGED <<rsize, rproject>>
    BY <1>4 DEF DeleteRow, Live, TypeOK, RowTypes
  <2> QED
    BY <2>1, QuotaShrinks
<1>5. ASSUME NEW w \in Workers, RemoveNext(w), ~DeleteRow(w)
      PROVE  UNCHANGED <<rstatus, rsize, rproject>>
  BY <1>5 DEF RemoveNext, RemovalOff, SkipRelease, FindRemovable, RemoveFiles, RemoveFilesFails,
     DeleteRowFails, rowVars
<1>6. ASSUME NEW p \in Projects, Prepare(p) PROVE WithinQuota'
  <2>1. /\ \A r \in Releases : Live(r)' => Live(r)
        /\ \A r \in Releases : rstatus'[r] = "ready" => rstatus[r] = "ready"
        /\ UNCHANGED <<rsize, rproject>>
    BY <1>6 DEF Prepare, CleanupPage, Rows, Live
  <2> QED
    BY <2>1, QuotaShrinks
<1>7. ASSUME StartRun \/ RetryDeleting \/ EndRun \/ \E p \in Projects : SkipProject(p)
      PROVE  UNCHANGED <<rstatus, rsize, rproject>>
  BY <1>7 DEF StartRun, RetryDeleting, EndRun, SkipProject, rowVars
<1>8. ASSUME Crash \/ SwitchCleanup \/ RevokeCredentials \/ Tick \/ UNCHANGED vars
      PROVE  UNCHANGED <<rstatus, rsize, rproject>>
  BY <1>8 DEF Crash, SwitchCleanup, RevokeCredentials, Tick, vars, rowVars
<1> QED
  BY <1>0, <1>1, <1>2, <1>3, <1>4, <1>5, <1>6, <1>7, <1>8, QuotaCommit DEF Next, RunNext

\* Concurrent uploads into any number of projects never exceed the owner's bytes, nor a project's
\* bytes or releases, although each is pruned for and charged in a transaction of its own and
\* deleting rows stay charged until their files are gone (CommitUpload).
THEOREM QuotasHold == Spec => []WithinQuota
<1>1. Init => WithinQuota
  <2> SUFFICES ASSUME Init PROVE WithinQuota
    OBVIOUS
  <2>1. Charged = {} /\ \A p \in Projects : Ready(p) = {}
    BY DEF Init, Charged, Ready, Rows, Live
  <2> QED
    BY <2>1, QuotaSums, SumEmpty, FS_EmptySet, WebAssumption DEF QuotaBySums
<1>2. TypeOK /\ TypeOK' /\ KeyInv /\ [Next]_vars => KeyInv'
  BY KeyStep
<1>3. TypeOK /\ KeyInv /\ WithinQuota /\ [Next]_vars => WithinQuota'
  BY QuotaStep
<1> QED
  BY <1>1, <1>2, <1>3, KeyInit, TypeCorrect, PTL DEF Spec

(***************************************************************************)
(* Visibility.                                                             *)
(***************************************************************************)

\* A page becomes visible only by publishing a project in good standing.
THEOREM RevealedByPublish == Spec => OnlyPublishReveals
<1> DEFINE A == \A p \in Projects : ~Visible(p) /\ Visible(p)' =>
                  /\ moderation[p] = "normal" /\ status[p] # "deleted"
                  /\ current'[p] \in Ready(p)
                  /\ UNCHANGED <<edit, rstatus>>
<1>1. TypeOK /\ [Next]_vars => A \/ UNCHANGED vars
  <2> SUFFICES ASSUME TypeOK, Next, NEW p \in Projects, ~Visible(p), Visible(p)'
               PROVE  /\ moderation[p] = "normal" /\ status[p] # "deleted"
                      /\ current'[p] \in Ready(p)
                      /\ UNCHANGED <<edit, rstatus>>
    OBVIOUS
  <2> USE DEF Visible
  <2>1. ASSUME NEW q \in Projects, ProjectNext(q)
        PROVE  /\ moderation[p] = "normal" /\ status[p] # "deleted"
               /\ current'[p] \in Ready(p)
               /\ UNCHANGED <<edit, rstatus>>
    <3>1. ASSUME NEW r \in Releases, Publish(q, r)
          PROVE  /\ moderation[p] = "normal" /\ status[p] # "deleted"
                 /\ current'[p] \in Ready(p)
                 /\ UNCHANGED <<edit, rstatus>>
      <4>1. p = q
        BY <3>1 DEF Publish, TypeOK, ProjectTypes
      <4> QED
        BY <3>1, <4>1 DEF Publish, rowVars, TypeOK, ProjectTypes
    <3>2. CASE CreateProject(q)
      BY <3>2 DEF CreateProject, TypeOK, ProjectTypes
    <3>3. CASE Block(q) \/ Unblock(q) \/ AdminDelete(q) \/ AdminRestore(q)
      BY <3>3 DEF Block, Unblock, AdminDelete, AdminRestore, Moderate, TypeOK, ProjectTypes
    <3> QED
      BY <2>1, <3>1, <3>2, <3>3 DEF ProjectNext
  <2>2. ASSUME NEW e \in Editors, EditNext(e) PROVE FALSE
    <3>1. CASE EditCommit(e)
      <4> DEFINE d == edit[e]
      <4>1. /\ UNCHANGED <<moderation, current>>
            /\ status' = [status EXCEPT ![d.p] =
                 CASE d.op \in {"disable", "restore"} -> "disabled"
                   [] d.op = "delete" -> "deleted"
                   [] OTHER -> status[d.p]]
        BY <3>1 DEF EditCommit
      <4>2. status'[p] \in {status[p], "disabled", "deleted"}
        BY <4>1 DEF TypeOK, ProjectTypes
      <4> QED
        BY <4>1, <4>2
    <3>2. CASE ~EditCommit(e)
      BY <2>2, <3>2 DEF EditNext, EditBegin, EditRefused, projectVars
    <3> QED
      BY <3>1, <3>2
  <2>3. ASSUME NEW u \in Uploads, UploadNext(u) PROVE FALSE
    BY <2>3 DEF UploadNext, UploadBegin, StoreFails, StoreUpload, DirectoryUnusable,
       CommitUpload, UploadRefused, UploadRetried, Discard, UploadDone, projectVars
  <2>4. ASSUME NEW w \in Workers, RemoveNext(w) PROVE FALSE
    BY <2>4 DEF RemoveNext, RemovalOff, SkipRelease, FindRemovable, RemoveFiles,
       RemoveFilesFails, DeleteRow, DeleteRowFails, projectVars
  <2>5. CASE RunNext
    <3>1. ASSUME NEW q \in Projects, Prepare(q) PROVE FALSE
      BY <3>1 DEF Prepare, TypeOK, ProjectTypes
    <3>2. CASE StartRun \/ RetryDeleting \/ EndRun \/ \E q \in Projects : SkipProject(q)
      BY <3>2 DEF StartRun, RetryDeleting, EndRun, SkipProject, projectVars
    <3> QED
      BY <2>5, <3>1, <3>2 DEF RunNext
  <2>6. CASE Crash \/ SwitchCleanup \/ RevokeCredentials \/ Tick
    BY <2>6 DEF Crash, SwitchCleanup, RevokeCredentials, Tick, projectVars
  <2> QED
    BY <2>1, <2>2, <2>3, <2>4, <2>5, <2>6 DEF Next
<1>2. TypeOK /\ [Next]_vars => [A]_vars
  BY <1>1
<1> QED
  BY <1>2, TypeCorrect, PTL DEF Spec, OnlyPublishReveals

(***************************************************************************)
(* Late uploads.                                                           *)
(***************************************************************************)

\* The transaction of an upload makes a row of its own release only.
LEMMA CommitMakesOwn ==
  ASSUME TypeOK, NEW u \in Uploads, CommitUpload(u),
         NEW r \in Releases, rstatus[r] = "none", rstatus'[r] # "none"
  PROVE  urel[u] = r /\ req[u].ver = ver
<1>1. PICK retired \in PruneChoices(req[u].p, req[u].size) :
        rstatus' = [x \in Releases |->
          IF x = urel[u] THEN "ready" ELSE IF x \in retired THEN "deleting" ELSE rstatus[x]]
  BY DEF CommitUpload
<1>2. retired \subseteq Ready(req[u].p)
  BY <1>1 DEF PruneChoices, Prunable
<1>3. r \notin retired
  BY <1>2 DEF Ready
<1>4. req[u].ver = ver
  BY DEF CommitUpload, Acceptable, Writable
<1> QED
  BY <1>1, <1>3, <1>4

\* An upload that began under credentials revoked since never becomes a release.
THEOREM LateUploadsRefused == Spec => NoLateUpload
<1> DEFINE A == \A r \in Releases : rstatus[r] = "none" /\ rstatus'[r] # "none" =>
                  \E u \in Uploads : urel[u] = r /\ req[u].ver = ver
<1>1. TypeOK /\ [Next]_vars => A
  <2> SUFFICES ASSUME TypeOK, [Next]_vars,
                      NEW r \in Releases, rstatus[r] = "none", rstatus'[r] # "none"
               PROVE  \E u \in Uploads : urel[u] = r /\ req[u].ver = ver
    OBVIOUS
  <2>1. rstatus' # rstatus /\ rstatus \in [Releases -> {"none", "ready", "deleting", "gone"}]
    BY DEF TypeOK, RowTypes
  <2>2. ASSUME NEW p \in Projects, ProjectNext(p) PROVE FALSE
    BY <2>1, <2>2 DEF ProjectNext, CreateProject, Block, Unblock, AdminDelete, AdminRestore,
       Moderate, Publish, rowVars
  <2>3. ASSUME NEW e \in Editors, EditNext(e) PROVE FALSE
    BY <2>1, <2>3 DEF EditNext, EditBegin, EditRefused, EditCommit, rowVars
  <2>4. ASSUME NEW u \in Uploads, UploadNext(u), ~CommitUpload(u) PROVE FALSE
    BY <2>1, <2>4 DEF UploadNext, UploadBegin, StoreFails, StoreUpload, DirectoryUnusable,
       UploadRefused, UploadRetried, Discard, UploadDone, rowVars
  <2>5. ASSUME NEW w \in Workers, RemoveNext(w) PROVE FALSE
    <3>1. CASE DeleteRow(w)
      <4>1. rstatus' = [rstatus EXCEPT ![removing[w]] =
              IF rstatus[removing[w]] = "deleting" THEN "gone" ELSE rstatus[removing[w]]]
        BY <3>1 DEF DeleteRow
      <4> QED
        BY <2>1, <4>1
    <3>2. CASE ~DeleteRow(w)
      BY <2>1, <2>5, <3>2 DEF RemoveNext, RemovalOff, SkipRelease, FindRemovable, RemoveFiles,
         RemoveFilesFails, DeleteRowFails, rowVars
    <3> QED
      BY <3>1, <3>2
  <2>6. ASSUME RunNext PROVE FALSE
    <3>1. ASSUME NEW p \in Projects, Prepare(p) PROVE FALSE
      <4>1. rstatus' = [x \in Releases |-> IF x \in CleanupPage(p) THEN "deleting" ELSE rstatus[x]]
        BY <3>1 DEF Prepare
      <4>2. r \notin CleanupPage(p)
        BY DEF CleanupPage, Rows, Live
      <4> QED
        BY <4>1, <4>2
    <3>2. CASE StartRun \/ RetryDeleting \/ EndRun \/ \E p \in Projects : SkipProject(p)
      BY <2>1, <3>2 DEF StartRun, RetryDeleting, EndRun, SkipProject, rowVars
    <3> QED
      BY <2>6, <3>1, <3>2 DEF RunNext
  <2>7. ASSUME Crash \/ SwitchCleanup \/ RevokeCredentials \/ Tick \/ UNCHANGED vars PROVE FALSE
    BY <2>1, <2>7 DEF Crash, SwitchCleanup, RevokeCredentials, Tick, vars, rowVars
  <2>8. PICK u \in Uploads : CommitUpload(u)
    BY <2>2, <2>3, <2>4, <2>5, <2>6, <2>7 DEF Next
  <2> QED
    BY <2>8, CommitMakesOwn
<1>2. TypeOK /\ [Next]_vars => [A]_vars
  BY <1>1
<1> QED
  BY <1>2, TypeCorrect, PTL DEF Spec, NoLateUpload
=============================================================================
