---------------------------- MODULE FileShareProof ----------------------------
(***************************************************************************)
(* Proofs about FileShare for any number of users, files, shares, clients  *)
(* and requests, and any sizes and limits.                                 *)
(***************************************************************************)
EXTENDS FileShare, SumLemmas, SequenceTheorems, TLAPS

LEMMA Bounds ==
  /\ MaxFileBytes \in Nat /\ MaxFileBytes > 0 /\ MaxFilesPerUser \in Nat /\ MaxFilesPerUser > 0
  /\ MaxUserBytes \in Nat /\ MaxUserBytes > 0 /\ MinFreeDiskBytes \in Nat /\ DiskBytes \in Nat
  /\ DiskBytes >= MinFreeDiskBytes
  /\ MaxAttempts \in Nat /\ MaxAttempts > 0 /\ AttemptWindow \in Nat /\ AttemptWindow > 0
  /\ MaxAttemptKeys \in Nat /\ MaxAttemptKeys > 0 /\ BcryptGate \in Nat /\ BcryptGate > 0
  /\ GrantLifetime \in Nat /\ MaxTime \in Nat /\ MaxCrashes \in Nat /\ Sizes \in SUBSET Nat
  /\ None \notin Users /\ None \notin Files /\ None \notin Shares /\ None \notin Clients
  /\ IsFiniteSet(Files) /\ IsFiniteSet(Shares) /\ IsFiniteSet(Clients) /\ IsFiniteSet(Requests)
  BY FileShareAssumption

\* The steps, by what they may change.
StoreMove ==
  \E f \in Files :
    \/ \E u \in Users : AcquireUpload(f, u)
    \/ Stage(f) \/ StoreUpload(f) \/ Incomplete(f) \/ CommitUpload(f)
    \/ resolveUploadCommit(f) \/ Delete(f) \/ DeleteBytes(f)

ShareMove ==
  \/ \E s \in Shares, f \in Files, in \in ShareInputs : CreateShare(s, f, in)
  \/ \E s \in Shares : RevokeShare(s)

DoorMove ==
  \E r \in Requests :
    \/ \E s \in Shares, c \in Clients, v \in Users \cup {None} :
         UnlockBegin(r, s, c, v) \/ DownloadOpen(r, s, c, v)
    \/ \E right \in BOOLEAN : UnlockAttempt(r, right)
    \/ UnlockFinish(r)
    \/ DownloadCommit(r)

LEMMA Moves ==
  ASSUME [Next]_vars
  PROVE  \/ StoreMove /\ UNCHANGED <<active, share, door, clock, crashes, past>>
         \/ ShareMove /\ UNCHANGED <<active, store, door, clock, crashes, past>>
         \/ DoorMove /\ UNCHANGED <<active, store, key, clock, crashes>>
         \/ (\E u \in Users : SetActive(u)) /\ UNCHANGED <<store, share, door, clock, crashes, past>>
         \/ Tick
         \/ Restart
         \/ UNCHANGED vars
<1>1. ASSUME NEW f \in Files, NEW u \in Users, AcquireUpload(f, u)
      PROVE  StoreMove /\ UNCHANGED <<active, share, door, clock, crashes, past>>
  BY <1>1 DEF StoreMove, AcquireUpload
<1>2. ASSUME NEW f \in Files, Stage(f) \/ StoreUpload(f) \/ Incomplete(f) \/ CommitUpload(f)
      PROVE  StoreMove /\ UNCHANGED <<active, share, door, clock, crashes, past>>
  BY <1>2 DEF StoreMove, Stage, StoreUpload, Incomplete, CommitUpload
<1>3. ASSUME NEW f \in Files, resolveUploadCommit(f) \/ Delete(f) \/ DeleteBytes(f)
      PROVE  StoreMove /\ UNCHANGED <<active, share, door, clock, crashes, past>>
  BY <1>3 DEF StoreMove, resolveUploadCommit, Delete, DeleteBytes
<1>4. ASSUME NEW s \in Shares, NEW f \in Files, NEW in \in ShareInputs, CreateShare(s, f, in)
      PROVE  ShareMove /\ UNCHANGED <<active, store, door, clock, crashes, past>>
  BY <1>4 DEF ShareMove, CreateShare
<1>5. ASSUME NEW s \in Shares, RevokeShare(s)
      PROVE  ShareMove /\ UNCHANGED <<active, store, door, clock, crashes, past>>
  BY <1>5 DEF ShareMove, RevokeShare
<1>6. ASSUME NEW r \in Requests, NEW s \in Shares, NEW c \in Clients, NEW v \in Users \cup {None},
             UnlockBegin(r, s, c, v) \/ DownloadOpen(r, s, c, v)
      PROVE  DoorMove /\ UNCHANGED <<active, store, key, clock, crashes>>
  BY <1>6 DEF DoorMove, UnlockBegin, DownloadOpen
<1>7. ASSUME NEW r \in Requests, NEW right \in BOOLEAN, UnlockAttempt(r, right)
      PROVE  DoorMove /\ UNCHANGED <<active, store, key, clock, crashes>>
  <2>1. UNCHANGED <<active, store, key, clock, crashes>>
    BY <1>7 DEF UnlockAttempt
  <2> QED
    BY <1>7, <2>1, Zenon DEF DoorMove
<1>8. ASSUME NEW r \in Requests, UnlockFinish(r) \/ DownloadCommit(r)
      PROVE  DoorMove /\ UNCHANGED <<active, store, key, clock, crashes>>
  <2>1. UNCHANGED <<active, store, key, clock, crashes>>
    BY <1>8 DEF UnlockFinish, DownloadCommit
  <2> QED
    BY <1>8, <2>1, Zenon DEF DoorMove
<1>9. ASSUME NEW u \in Users, SetActive(u)
      PROVE  UNCHANGED <<store, share, door, clock, crashes, past>>
  BY <1>9 DEF SetActive
<1> QED
  BY <1>1, <1>2, <1>3, <1>4, <1>5, <1>6, <1>7, <1>8, <1>9, Zenon DEF Next

-----------------------------------------------------------------------------
(* Rows and bytes *)

Steps == {"idle", "slot", "staged", "stored", "unknown", "done"}
Uploads == [pc : Steps, owner : Users \cup {None}, size : Nat]

StoreTypes ==
  /\ up \in [Files -> Uploads] /\ row \in [Files -> {"none", "live", "deleted"}]
  /\ bytes \in SUBSET Files /\ removing \in SUBSET Files /\ strays \in SUBSET Files
  /\ debris \in SUBSET Files

\* Where a file is in its life, by the step of its upload.
FileInv(f) ==
  /\ up[f].pc # "idle" => up[f].owner \in Users
  /\ row[f] # "none" => up[f].pc \in {"unknown", "done"}
  /\ row[f] = "live" => f \in bytes
  /\ row[f] = "deleted" /\ f \in bytes => f \in removing \cup strays
  /\ row[f] = "none" /\ f \in bytes => up[f].pc \in {"stored", "unknown"} \/ f \in strays
  /\ f \in removing => row[f] = "deleted"
  /\ up[f].pc = "stored" => f \in bytes
  /\ f \in bytes => up[f].pc \in {"stored", "unknown", "done"} /\ up[f].size <= MaxFileBytes
  /\ f \in debris => up[f].pc = "done" /\ f \notin bytes /\ row[f] = "none"
  /\ up[f].pc \in {"idle", "slot"} => up[f].size = 0
  /\ up[f].size <= MaxFileBytes + 1

StoreInv == StoreTypes /\ \A f \in Files : FileInv(f)

\* A step of an upload or a delete changes one file.
OnlyFile(f) ==
  /\ \A g \in Files \ {f} :
       /\ up'[g] = up[g] /\ row'[g] = row[g]
       /\ g \in bytes' <=> g \in bytes
       /\ g \in removing' <=> g \in removing
       /\ g \in strays' <=> g \in strays
       /\ g \in debris' <=> g \in debris

LEMMA OthersStay ==
  ASSUME StoreInv, NEW f \in Files, OnlyFile(f), StoreTypes', FileInv(f)'
  PROVE  StoreInv'
<1>1. ASSUME NEW g \in Files, g # f PROVE FileInv(g)'
  <2>1. FileInv(g)
    BY DEF StoreInv
  <2>2. /\ up'[g] = up[g] /\ row'[g] = row[g]
        /\ g \in bytes' <=> g \in bytes
        /\ g \in removing' <=> g \in removing
        /\ g \in strays' <=> g \in strays
        /\ g \in debris' <=> g \in debris
    BY <1>1 DEF OnlyFile
  <2> QED
    BY <2>1, <2>2 DEF FileInv
<1> QED
  BY <1>1 DEF StoreInv

LEMMA LesserOfTwo ==
  ASSUME NEW a \in Nat, NEW b \in Nat
  PROVE  Min({a, b}) \in {a, b} /\ Min({a, b}) <= a /\ Min({a, b}) <= b
<1>1. \E x \in {a, b} : \A y \in {a, b} : x <= y
  <2>1. a <= b \/ b <= a
    OBVIOUS
  <2> QED
    BY <2>1
<1> QED
  BY <1>1 DEF Min

LEMMA StoreStep ==
  ASSUME StoreInv, StoreMove
  PROVE  StoreInv' /\ \E f \in Files : OnlyFile(f)
<1> USE Bounds
<1>0. ASSUME NEW f \in Files, OnlyFile(f), StoreTypes', FileInv(f)'
      PROVE  StoreInv' /\ \E g \in Files : OnlyFile(g)
  BY <1>0, OthersStay
<1>1. ASSUME NEW f \in Files, NEW u \in Users, AcquireUpload(f, u)
      PROVE  OnlyFile(f) /\ StoreTypes' /\ FileInv(f)'
  BY <1>1 DEF AcquireUpload, StoreInv, StoreTypes, FileInv, OnlyFile, Uploads, Steps
<1>2. ASSUME NEW f \in Files, Stage(f) PROVE OnlyFile(f) /\ StoreTypes' /\ FileInv(f)'
  <2>1. up[f].pc = "slot" /\ UNCHANGED <<row, bytes, removing, debris, strays>>
    BY <1>2 DEF Stage
  <2>2. CASE up' = [up EXCEPT ![f].pc = "done"]
    BY <2>1, <2>2 DEF StoreInv, StoreTypes, FileInv, OnlyFile, Uploads, Steps
  <2>3. ASSUME NEW n \in Sizes,
               up' = [up EXCEPT ![f] = [pc |-> "staged", owner |-> @.owner,
                                        size |-> Min({n, MaxFileBytes + 1})]]
        PROVE  OnlyFile(f) /\ StoreTypes' /\ FileInv(f)'
    <3> DEFINE m == Min({n, MaxFileBytes + 1})
    <3>1. m \in Nat /\ m <= MaxFileBytes + 1
      BY LesserOfTwo
    <3> HIDE DEF m
    <3> QED
      BY <2>1, <2>3, <3>1 DEF StoreInv, StoreTypes, FileInv, OnlyFile, Uploads, Steps, m
  <2> QED
    BY <1>2, <2>2, <2>3 DEF Stage
<1>3. ASSUME NEW f \in Files, StoreUpload(f) PROVE OnlyFile(f) /\ StoreTypes' /\ FileInv(f)'
  BY <1>3 DEF StoreUpload, StoreInv, StoreTypes, FileInv, OnlyFile, Uploads, Steps
<1>4. ASSUME NEW f \in Files, Incomplete(f) PROVE OnlyFile(f) /\ StoreTypes' /\ FileInv(f)'
  BY <1>4 DEF Incomplete, RemoveStoredFile, StoreInv, StoreTypes, FileInv, OnlyFile, Uploads, Steps
<1>5. ASSUME NEW f \in Files, CommitUpload(f) PROVE OnlyFile(f) /\ StoreTypes' /\ FileInv(f)'
  BY <1>5 DEF CommitUpload, RemoveStoredFile, StoreInv, StoreTypes, FileInv, OnlyFile, Uploads, Steps
<1>6. ASSUME NEW f \in Files, resolveUploadCommit(f) PROVE OnlyFile(f) /\ StoreTypes' /\ FileInv(f)'
  BY <1>6 DEF resolveUploadCommit, RemoveStoredFile, StoreInv, StoreTypes, FileInv, OnlyFile, Uploads,
              Steps
<1>7. ASSUME NEW f \in Files, Delete(f) PROVE OnlyFile(f) /\ StoreTypes' /\ FileInv(f)'
  BY <1>7 DEF Delete, StoreInv, StoreTypes, FileInv, OnlyFile, Uploads, Steps
<1>8. ASSUME NEW f \in Files, DeleteBytes(f) PROVE OnlyFile(f) /\ StoreTypes' /\ FileInv(f)'
  BY <1>8 DEF DeleteBytes, RemoveStoredFile, StoreInv, StoreTypes, FileInv, OnlyFile, Uploads, Steps
<1> QED
  BY <1>0, <1>1, <1>2, <1>3, <1>4, <1>5, <1>6, <1>7, <1>8 DEF StoreMove

\* What a restart does to the files: no upload is under way any more.
LEMMA RestartStore ==
  ASSUME StoreInv, Restart
  PROVE  StoreInv'
<1>1. /\ up' = [f \in Files |-> IF f \in Uploading THEN [up[f] EXCEPT !.pc = "done"] ELSE up[f]]
      /\ UNCHANGED <<row, bytes>> /\ removing' = {} /\ debris' = debris \cup Staged
      /\ strays' = strays \cup removing \cup {f \in Uploading : f \in bytes /\ row[f] = "none"}
  BY DEF Restart
<1>2. ASSUME NEW f \in Files
      PROVE  /\ up'[f] \in Uploads /\ up'[f].owner = up[f].owner /\ up'[f].size = up[f].size
             /\ up'[f].pc = IF up[f].pc = "idle" THEN "idle" ELSE "done"
  <2>1. up[f] \in Uploads
    BY DEF StoreInv, StoreTypes
  <2>2. CASE f \in Uploading
    <3>1. up'[f] = [up[f] EXCEPT !.pc = "done"] /\ up[f].pc \notin {"idle", "done"}
      BY <1>1, <2>2 DEF Uploading
    <3> QED
      BY <2>1, <3>1 DEF Uploads, Steps
  <2>3. CASE f \notin Uploading
    <3>1. up'[f] = up[f] /\ up[f].pc \in {"idle", "done"}
      BY <1>1, <2>3 DEF Uploading
    <3> QED
      BY <2>1, <3>1
  <2> QED
    BY <2>2, <2>3
<1>3. StoreTypes'
  <2>1. up' \in [Files -> Uploads]
    BY <1>1, <1>2, Zenon
  <2> QED
    BY <1>1, <2>1 DEF StoreInv, StoreTypes, Staged, Uploading
<1>4. ASSUME NEW f \in Files PROVE FileInv(f)'
  <2>1. FileInv(f) /\ up[f].pc \in Steps
    BY DEF StoreInv, StoreTypes, Uploads
  <2>2. /\ f \in debris' <=> f \in debris \/ up[f].pc = "staged"
        /\ f \in strays' <=> \/ f \in strays \cup removing
                             \/ up[f].pc \notin {"idle", "done"} /\ f \in bytes /\ row[f] = "none"
        /\ f \notin removing' /\ row'[f] = row[f] /\ (f \in bytes' <=> f \in bytes)
    BY <1>1 DEF Staged, Uploading
  <2> QED
    BY <1>2, <2>1, <2>2, Bounds DEF FileInv, Steps
<1> QED
  BY <1>3, <1>4 DEF StoreInv

-----------------------------------------------------------------------------
(* Quotas *)

Size == [f \in Files |-> up[f].size]

\* What the disk is charged with a file: room for a whole one while it is awaited, and what is there
\* of it up to the limit.
Charge(f) ==
  IF up[f].pc = "slot" THEN MaxFileBytes
  ELSE IF f \in bytes \cup Staged \cup debris
  THEN (IF up[f].size <= MaxFileBytes THEN up[f].size ELSE MaxFileBytes) ELSE 0

Charges == [f \in Files |-> Charge(f)]

QuotaInv ==
  \A u \in Users : /\ Cardinality(Owned(u)) <= MaxFilesPerUser
                   /\ SumOf(Size, Owned(u)) <= MaxUserBytes

DiskInv == SumOf(Charges, Files) + MinFreeDiskBytes <= DiskBytes

\* Bytes is a sum of sizes.
BytesAreSums == \A F \in SUBSET Files : Bytes(F) = SumOf(Size, F)

LEMMA BytesSum == BytesAreSums
<1> SUFFICES ASSUME NEW F \in SUBSET Files PROVE Bytes(F) = SumOf(Size, F)
  BY DEF BytesAreSums
<1> DEFINE IsBytes(g) == g = [s \in SUBSET F |->
                           IF s = {} THEN 0 ELSE up[Pick(s)].size + g[s \ {Pick(s)}]]
<1>0. IsFiniteSet(F)
  BY Bounds, FS_Subset
<1>1. Bytes(F) = (CHOOSE g : IsBytes(g))[F]
  BY DEF Bytes, MapThenSumSet, MapThenFoldSet, Pick
<1>2. ASSUME NEW g PROVE IsBytes(g) <=> IsSum(Size, g, F)
  <2>1. ASSUME NEW s \in SUBSET F
        PROVE  SumEntry(Size, g, s) = IF s = {} THEN 0 ELSE up[Pick(s)].size + g[s \ {Pick(s)}]
    BY PickIn DEF SumEntry, Size
  <2> QED
    BY <2>1, Zenon DEF IsSum
<1>3. PICK g : IsSum(Size, g, F) /\ SumOf(Size, F) = g[F]
  BY <1>0, SumIsSolution
<1>4. IsBytes(g)
  BY <1>2, <1>3, Zenon
<1> DEFINE h == CHOOSE k : IsBytes(k)
<1>5. IsBytes(h)
  BY <1>4, Zenon
<1> HIDE DEF IsBytes
<1>6. IsSum(Size, h, F)
  BY <1>2, <1>5, Zenon
<1> HIDE DEF h
<1>7. h[F] = g[F]
  BY <1>0, <1>3, <1>6, SolutionsAgree
<1> QED
  BY <1>1, <1>3, <1>7 DEF h


LEMMA FileSets ==
  ASSUME NEW S \in SUBSET Files
  PROVE  IsFiniteSet(S) /\ Cardinality(S) \in Nat
  BY Bounds, FS_Subset, FS_CardinalityType

LEMMA SizeTypes ==
  ASSUME StoreInv
  PROVE  /\ \A f \in Files : Size[f] = up[f].size /\ Size[f] \in Nat
         /\ \A f \in Files : Charges[f] = Charge(f) /\ Charges[f] \in Nat /\ Charges[f] <= MaxFileBytes
  BY Bounds DEF StoreInv, StoreTypes, Uploads, Size, Charges, Charge

\* Files that leave a user free what they took.
LEMMA QuotaShrinks ==
  ASSUME StoreInv, StoreInv', QuotaInv,
         \A g \in Files : row'[g] = "live" =>
           row[g] = "live" /\ up'[g].owner = up[g].owner /\ up'[g].size = up[g].size
  PROVE  QuotaInv'
<1> SUFFICES ASSUME NEW u \in Users
             PROVE  Cardinality(Owned(u)') <= MaxFilesPerUser /\ SumOf(Size', Owned(u)') <= MaxUserBytes
  BY DEF QuotaInv
<1> DEFINE S == Owned(u)
           T == Owned(u)'
<1>1. S \in SUBSET Files /\ T \in SUBSET S
  BY DEF Owned
<1>2. \A g \in T : Size'[g] = Size[g]
  BY DEF Owned, Size
<1>3. \A g \in Files : Size[g] \in Nat
  BY SizeTypes
<1>4. Cardinality(S) <= MaxFilesPerUser /\ SumOf(Size, S) <= MaxUserBytes
  BY DEF QuotaInv
<1> HIDE DEF S, T
<1>5. IsFiniteSet(S) /\ IsFiniteSet(T) /\ Cardinality(S) \in Nat /\ Cardinality(T) \in Nat
  BY <1>1, FileSets
<1>6. Cardinality(T) <= Cardinality(S)
  BY <1>1, <1>5, FS_Subset
<1>7. SumOf(Size, T) <= SumOf(Size, S) /\ SumOf(Size, S) \in Nat /\ SumOf(Size, T) \in Nat
  BY <1>1, <1>3, <1>5, SumMonotone, SumType
<1>8. SumOf(Size', T) = SumOf(Size, T)
  BY <1>2, <1>5, SumSame
<1>9. Cardinality(T) <= MaxFilesPerUser /\ SumOf(Size', T) <= MaxUserBytes
  BY <1>4, <1>5, <1>6, <1>7, <1>8, Bounds
<1> QED
  BY <1>9 DEF T

\* A committed file is charged to its owner, who had room for it.
LEMMA QuotaCommit ==
  ASSUME StoreInv, StoreInv', QuotaInv, NEW f \in Files, row[f] = "none",
         checkQuota(up[f].owner, up[f].size), row' = [row EXCEPT ![f] = "live"],
         \A g \in Files : up'[g].owner = up[g].owner /\ up'[g].size = up[g].size
  PROVE  QuotaInv'
<1> SUFFICES ASSUME NEW u \in Users
             PROVE  Cardinality(Owned(u)') <= MaxFilesPerUser /\ SumOf(Size', Owned(u)') <= MaxUserBytes
  BY DEF QuotaInv
<1> DEFINE S == Owned(u)
           T == Owned(u)'
<1>1. S \in SUBSET Files /\ T = (IF u = up[f].owner THEN S \cup {f} ELSE S) /\ f \notin S
  BY DEF Owned, StoreInv, StoreTypes
<1>2. \A g \in Files : Size'[g] = Size[g] /\ Size[g] \in Nat
  BY SizeTypes DEF Size
<1>3. Cardinality(S) <= MaxFilesPerUser /\ SumOf(Size, S) <= MaxUserBytes
  BY DEF QuotaInv
<1>4. u = up[f].owner => Cardinality(S) < MaxFilesPerUser /\ SumOf(Size, S) + Size[f] <= MaxUserBytes
  BY <1>1, BytesSum, SizeTypes DEF checkQuota, BytesAreSums
<1> HIDE DEF S, T
<1>5. IsFiniteSet(S) /\ Cardinality(S) \in Nat
  BY <1>1, FileSets
<1>6. SumOf(Size, S) \in Nat
  BY <1>1, <1>2, <1>5, SumType
<1>7. IsFiniteSet(T) /\ T \in SUBSET Files
  BY <1>1, FileSets
<1>8. SumOf(Size', T) = SumOf(Size, T)
  BY <1>2, <1>7, SumSame
<1>9. CASE u = up[f].owner
  <2>1. Cardinality(T) = Cardinality(S) + 1
    BY <1>1, <1>5, <1>9, FS_AddElement
  <2>2. SumOf(Size, T) = Size[f] + SumOf(Size, S)
    BY <1>1, <1>2, <1>5, <1>9, SumAdd
  <2>3. Cardinality(T) <= MaxFilesPerUser /\ SumOf(Size', T) <= MaxUserBytes
    BY <1>2, <1>4, <1>5, <1>6, <1>8, <1>9, <2>1, <2>2, Bounds
  <2> QED
    BY <2>3 DEF T
<1>10. CASE u # up[f].owner
  <2>1. Cardinality(T) <= MaxFilesPerUser /\ SumOf(Size', T) <= MaxUserBytes
    BY <1>1, <1>3, <1>8, <1>10
  <2> QED
    BY <2>1 DEF T
<1> QED
  BY <1>9, <1>10

\* Uploads and deletes keep the quota.
LEMMA QuotaStep ==
  ASSUME StoreInv, StoreInv', QuotaInv, StoreMove
  PROVE  QuotaInv'
<1> DEFINE Shrinks == \A g \in Files : row'[g] = "live" =>
                        row[g] = "live" /\ up'[g].owner = up[g].owner /\ up'[g].size = up[g].size
<1>0. Shrinks => QuotaInv'
  BY QuotaShrinks
<1>1. ASSUME NEW f \in Files, NEW u \in Users, AcquireUpload(f, u) PROVE Shrinks
  BY <1>1 DEF AcquireUpload, StoreInv, StoreTypes, FileInv
<1>2. ASSUME NEW f \in Files, Stage(f) PROVE Shrinks
  <2>1. /\ up[f].pc = "slot" /\ UNCHANGED row
        /\ \A g \in Files \ {f} : up'[g] = up[g]
    BY <1>2 DEF Stage, StoreInv, StoreTypes
  <2>2. row[f] = "none"
    BY <2>1 DEF StoreInv, StoreTypes, FileInv
  <2> QED
    BY <2>1, <2>2
<1>3. ASSUME NEW f \in Files,
             \/ StoreUpload(f) \/ Incomplete(f) \/ resolveUploadCommit(f)
             \/ Delete(f) \/ DeleteBytes(f)
      PROVE  Shrinks
  BY <1>3 DEF StoreUpload, Incomplete, resolveUploadCommit, Delete, DeleteBytes, StoreInv, StoreTypes,
              Uploads
<1>4. ASSUME NEW f \in Files, CommitUpload(f) PROVE QuotaInv'
  <2>1. row[f] = "none" /\ \A g \in Files : up'[g].owner = up[g].owner /\ up'[g].size = up[g].size
    <3>1. up' = [up EXCEPT ![f].pc = "done"] \/ up' = [up EXCEPT ![f].pc = "unknown"]
      BY <1>4 DEF CommitUpload
    <3>2. \A g \in Files : up'[g].owner = up[g].owner /\ up'[g].size = up[g].size
      BY <3>1 DEF StoreInv, StoreTypes, Uploads
    <3>3. up[f].pc = "stored" /\ row[f] \in {"none", "live", "deleted"} /\ FileInv(f)
      BY <1>4 DEF CommitUpload, StoreInv, StoreTypes
    <3>4. row[f] = "none"
      BY <3>3 DEF FileInv
    <3> QED
      BY <3>2, <3>4
  <2>2. CASE UNCHANGED row
    BY <1>0, <2>1, <2>2
  <2>3. CASE row' = [row EXCEPT ![f] = "live"] /\ checkQuota(up[f].owner, up[f].size)
    BY <2>1, <2>3, QuotaCommit
  <2> QED
    BY <1>4, <2>2, <2>3 DEF CommitUpload
<1> HIDE DEF Shrinks
<1> QED
  BY <1>0, <1>1, <1>2, <1>3, <1>4 DEF StoreMove


-----------------------------------------------------------------------------
(* The disk *)

Waiting == {f \in Files : up[f].pc = "slot"}
Written == bytes \cup (Staged \cup debris)

LEMMA TimesMonotone ==
  ASSUME NEW n \in Nat, NEW m \in Nat, NEW b \in Nat, n <= m
  PROVE  n * b <= m * b /\ n * b \in Nat /\ m * b \in Nat
  BY SMT

\* What is where on the disk.
LEMMA DiskSets ==
  ASSUME StoreInv
  PROVE  /\ bytes \in SUBSET Files /\ Staged \cup debris \in SUBSET Files
         /\ Written \in SUBSET Files /\ bytes \cap (Staged \cup debris) = {}
         /\ Waiting \in SUBSET Files /\ Waiting \cap Written = {}
         /\ \A f \in Waiting : Charge(f) = MaxFileBytes
         /\ \A f \in Files \ (Waiting \cup Written) : Charge(f) = 0
         /\ \A f \in Written : Charge(f) <= up[f].size
         /\ \A f \in bytes : up[f].size <= Charge(f)
         /\ \A f \in Staged \cup debris : up[f].size <= Charge(f) + 1
<1> USE Bounds
<1>1. /\ bytes \in SUBSET Files /\ Staged \cup debris \in SUBSET Files /\ Written \in SUBSET Files
      /\ Waiting \in SUBSET Files
  BY DEF StoreInv, StoreTypes, Staged, Waiting, Written
<1>2. ASSUME NEW f \in Files
      PROVE  /\ up[f].size \in Nat /\ up[f].size <= MaxFileBytes + 1
             /\ f \in bytes => /\ f \notin Staged \cup debris /\ up[f].pc # "slot"
                               /\ up[f].size <= MaxFileBytes
             /\ f \in Staged \cup debris => up[f].pc # "slot"
    BY DEF StoreInv, StoreTypes, Uploads, FileInv, Staged
<1>3. \A f \in Waiting : Charge(f) = MaxFileBytes
  BY DEF Waiting, Charge
<1>4. \A f \in Files \ (Waiting \cup Written) : Charge(f) = 0
  BY DEF Waiting, Charge, Written
<1>5. ASSUME NEW f \in Written PROVE Charge(f) <= up[f].size
  <2>1. f \in Files /\ up[f].pc # "slot" /\ up[f].size \in Nat
    BY <1>1, <1>2 DEF Written
  <2>2. Charge(f) = IF up[f].size <= MaxFileBytes THEN up[f].size ELSE MaxFileBytes
    BY <2>1 DEF Charge, Written
  <2> QED
    BY <2>1, <2>2
<1>6. ASSUME NEW f \in bytes PROVE up[f].size <= Charge(f)
  BY <1>1, <1>2 DEF Charge
<1>7. ASSUME NEW f \in Staged \cup debris PROVE up[f].size <= Charge(f) + 1
  <2>1. f \in Files /\ up[f].pc # "slot" /\ up[f].size \in Nat /\ up[f].size <= MaxFileBytes + 1
    BY <1>1, <1>2
  <2>2. Charge(f) = IF up[f].size <= MaxFileBytes THEN up[f].size ELSE MaxFileBytes
    BY <2>1 DEF Charge
  <2> QED
    BY <2>1, <2>2
<1>8. bytes \cap (Staged \cup debris) = {} /\ Waiting \cap Written = {}
  BY <1>1, <1>2 DEF Waiting, Written
<1> QED
  BY <1>1, <1>3, <1>4, <1>5, <1>6, <1>7, <1>8

\* What is written, and a whole file for everyone who waits, covers the charges.
LEMMA ChargesCovered ==
  ASSUME StoreInv
  PROVE  SumOf(Charges, Files) <= SumOf(Size, bytes) + SumOf(Size, Staged \cup debris)
                                  + Cardinality(Waiting) * MaxFileBytes
<1> DEFINE B == bytes
           D == Staged \cup debris
           R == Files \ (Waiting \cup Written)
<1>1. /\ B \in SUBSET Files /\ D \in SUBSET Files /\ Written \in SUBSET Files /\ B \cap D = {}
      /\ Waiting \in SUBSET Files /\ Waiting \cap Written = {} /\ Written = B \cup D
      /\ R \in SUBSET Files /\ R \cap (Waiting \cup Written) = {} /\ Files = R \cup (Waiting \cup Written)
  BY DiskSets DEF Written
<1>2. /\ \A f \in Files : Charges[f] = Charge(f) /\ Charges[f] \in Nat /\ Charges[f] <= MaxFileBytes
      /\ \A f \in Files : Size[f] = up[f].size /\ Size[f] \in Nat
  BY SizeTypes
<1>3. (\A f \in R : Charges[f] = 0) /\ \A f \in Written : Charges[f] <= Size[f] + 0
  <2>1. \A f \in Written : Charges[f] <= Size[f]
    BY <1>1, <1>2, DiskSets
  <2>2. \A f \in R : Charges[f] = 0
    BY <1>1, <1>2, DiskSets
  <2> QED
    BY <1>1, <1>2, <2>1, <2>2
<1> HIDE DEF B, D, R
<1>4. /\ IsFiniteSet(B) /\ IsFiniteSet(D) /\ IsFiniteSet(R) /\ IsFiniteSet(Written)
      /\ IsFiniteSet(Waiting) /\ IsFiniteSet(Waiting \cup Written)
  <2>1. Waiting \cup Written \in SUBSET Files
    BY <1>1
  <2> QED
    BY <1>1, <2>1, FileSets
<1>5. SumOf(Charges, R \cup (Waiting \cup Written)) = SumOf(Charges, R) + SumOf(Charges, Waiting \cup Written)
  BY <1>1, <1>2, <1>4, SumUnion
<1>6. SumOf(Charges, Waiting \cup Written) = SumOf(Charges, Waiting) + SumOf(Charges, Written)
  BY <1>1, <1>2, <1>4, SumUnion
<1>7. SumOf(Charges, R) = 0
  BY <1>3, <1>4, SumNone
<1>8. SumOf(Charges, Waiting) <= Cardinality(Waiting) * MaxFileBytes
  BY <1>1, <1>2, <1>4, SumBound, Bounds
<1>9. SumOf(Charges, Written) <= SumOf(Size, Written) + Cardinality(Written) * 0
  BY <1>1, <1>2, <1>3, <1>4, SumExcess
<1>10. SumOf(Size, B \cup D) = SumOf(Size, B) + SumOf(Size, D)
  BY <1>1, <1>2, <1>4, SumUnion
<1>11. /\ SumOf(Charges, R) \in Nat /\ SumOf(Charges, Waiting) \in Nat /\ SumOf(Charges, Written) \in Nat
       /\ SumOf(Size, Written) \in Nat /\ SumOf(Size, B) \in Nat /\ SumOf(Size, D) \in Nat
  BY <1>1, <1>2, <1>4, SumType
<1>12. Cardinality(Written) * 0 = 0 /\ Cardinality(Waiting) * MaxFileBytes \in Nat
  <2>1. Cardinality(Written) \in Nat /\ Cardinality(Waiting) \in Nat
    BY <1>4, FS_CardinalityType
  <2> QED
    BY <2>1, OneTimeMore, Bounds
<1>13. SumOf(Charges, Files) <= SumOf(Size, B) + SumOf(Size, D) + Cardinality(Waiting) * MaxFileBytes
  <2>1. SumOf(Charges, Files) = SumOf(Charges, Waiting) + SumOf(Charges, Written)
    BY <1>1, <1>5, <1>6, <1>7, <1>11
  <2>2. SumOf(Charges, Written) <= SumOf(Size, B) + SumOf(Size, D)
    BY <1>1, <1>9, <1>10, <1>11, <1>12
  <2> HIDE DEF Waiting
  <2> QED
    BY <1>8, <1>11, <1>12, <2>1, <2>2
<1> QED
  BY <1>13 DEF B, D

\* The charges cover what is written, but for a byte of each body that is too long.
LEMMA WrittenCovered ==
  ASSUME StoreInv
  PROVE  SumOf(Size, bytes) + SumOf(Size, Staged \cup debris)
           <= SumOf(Charges, Files) + Cardinality(Staged \cup debris)
<1> DEFINE B == bytes
           D == Staged \cup debris
<1>1. B \in SUBSET Files /\ D \in SUBSET Files /\ B \cap D = {} /\ B \cup D \in SUBSET Files
  BY DiskSets
<1>2. /\ \A f \in Files : Charges[f] = Charge(f) /\ Charges[f] \in Nat
      /\ \A f \in Files : Size[f] = up[f].size /\ Size[f] \in Nat
  BY SizeTypes
<1>3. (\A f \in B : Size[f] <= Charges[f] + 0) /\ (\A f \in D : Size[f] <= Charges[f] + 1)
  <2>1. ASSUME NEW f \in B PROVE Size[f] <= Charges[f]
    BY <1>1, <1>2, DiskSets
  <2>2. ASSUME NEW f \in D PROVE Size[f] <= Charges[f] + 1
    BY <1>1, <1>2, DiskSets
  <2> QED
    BY <1>1, <1>2, <2>1, <2>2
<1> HIDE DEF B, D
<1>4. IsFiniteSet(B) /\ IsFiniteSet(D) /\ Cardinality(B) \in Nat /\ Cardinality(D) \in Nat
  BY <1>1, FileSets
<1>5. SumOf(Size, B) <= SumOf(Charges, B) + Cardinality(B) * 0
  BY <1>1, <1>2, <1>3, <1>4, SumExcess
<1>6. SumOf(Size, D) <= SumOf(Charges, D) + Cardinality(D) * 1
  BY <1>1, <1>2, <1>3, <1>4, SumExcess
<1>7. SumOf(Charges, B \cup D) = SumOf(Charges, B) + SumOf(Charges, D)
  BY <1>1, <1>2, <1>4, SumUnion
<1>8. SumOf(Charges, B \cup D) <= SumOf(Charges, Files)
  BY <1>1, <1>2, Bounds, SumMonotone
<1>9. /\ SumOf(Charges, B) \in Nat /\ SumOf(Charges, D) \in Nat /\ SumOf(Size, B) \in Nat
      /\ SumOf(Size, D) \in Nat /\ SumOf(Charges, Files) \in Nat
  BY <1>1, <1>2, <1>4, Bounds, SumType
<1>10. Cardinality(B) * 0 = 0 /\ Cardinality(D) * 1 = Cardinality(D)
  BY <1>4
<1>11. SumOf(Size, B) + SumOf(Size, D) <= SumOf(Charges, Files) + Cardinality(D)
  BY <1>4, <1>5, <1>6, <1>7, <1>8, <1>9, <1>10
<1> QED
  BY <1>11 DEF B, D


\* A step that charges no file more than before keeps the floor.
LEMMA DiskShrinks ==
  ASSUME StoreInv, StoreInv', DiskInv, \A g \in Files : Charge(g)' <= Charge(g)
  PROVE  DiskInv'
<1> DEFINE v == Charges'
           w == Charges
<1>1. /\ \A g \in Files : w[g] = Charge(g) /\ w[g] \in Nat
      /\ \A g \in Files : v[g] = Charge(g)' /\ v[g] \in Nat
  <2>1. \A g \in Files : w[g] = Charge(g) /\ w[g] \in Nat
    BY SizeTypes
  <2>2. \A g \in Files : Charge(g)' \in Nat
    BY Bounds DEF StoreInv, StoreTypes, Uploads, Charge
  <2>3. \A g \in Files : v[g] = Charge(g)'
    BY DEF Charges
  <2> QED
    BY <2>1, <2>2, <2>3
<1>2. \A g \in Files : v[g] \in Nat /\ w[g] \in Nat /\ v[g] <= w[g] + 0
  BY <1>1
<1> HIDE DEF v, w
<1>3. SumOf(v, Files) <= SumOf(w, Files) + Cardinality(Files) * 0
  BY <1>2, Bounds, SumExcess
<1>4. Cardinality(Files) * 0 = 0
  BY FileSets
<1>5. SumOf(v, Files) \in Nat /\ SumOf(w, Files) \in Nat
  BY <1>2, Bounds, SumType
<1>6. SumOf(w, Files) + MinFreeDiskBytes <= DiskBytes
  BY DEF DiskInv, w
<1>7. SumOf(v, Files) + MinFreeDiskBytes <= DiskBytes
  BY <1>3, <1>4, <1>5, <1>6, Bounds
<1> QED
  BY <1>7 DEF DiskInv, v

\* An upload that is let in finds room for a whole file besides what everyone else was promised.
LEMMA DiskAcquire ==
  ASSUME StoreInv, StoreInv', DiskInv, NEW f \in Files, NEW u \in Users, AcquireUpload(f, u)
  PROVE  DiskInv'
<1> DEFINE v == Charges'
           w == Charges
           n == Cardinality(Waiting)
           m == Cardinality(Uploading)
           written == SumOf(Size, bytes) + SumOf(Size, Staged \cup debris)
<1>1. /\ up[f].pc = "idle" /\ UNCHANGED <<bytes, debris>>
      /\ up' = [up EXCEPT ![f] = [pc |-> "slot", owner |-> u, size |-> 0]]
      /\ DiskFreeBytes - MinFreeDiskBytes - m * MaxFileBytes >= MaxFileBytes
  BY DEF AcquireUpload
<1>2. \A g \in Files : w[g] = Charge(g) /\ w[g] \in Nat
  BY SizeTypes
<1>3. ASSUME NEW g \in Files PROVE v[g] = IF g = f THEN MaxFileBytes ELSE w[g]
  <2>1. v[g] = Charge(g)'
    BY DEF Charges
  <2>2. Charge(g)' = IF g = f THEN MaxFileBytes ELSE Charge(g)
    <3>1. g # f => up'[g] = up[g]
      BY <1>1 DEF StoreInv, StoreTypes
    <3>2. up'[f].pc = "slot"
      BY <1>1 DEF StoreInv, StoreTypes
    <3> QED
      BY <1>1, <3>1, <3>2 DEF Charge, Staged
  <2> QED
    BY <1>2, <2>1, <2>2
<1>4. w[f] \in Nat
  BY <1>2
<1>5. written \in Nat /\ DiskFreeBytes = DiskBytes - written
  <2>1. /\ bytes \in SUBSET Files /\ Staged \cup debris \in SUBSET Files
        /\ Bytes(bytes) = SumOf(Size, bytes)
        /\ Bytes(Staged \cup debris) = SumOf(Size, Staged \cup debris)
    BY DiskSets, BytesSum DEF BytesAreSums
  <2>2. SumOf(Size, bytes) \in Nat /\ SumOf(Size, Staged \cup debris) \in Nat
    <3>1. \A g \in Files : Size[g] \in Nat
      BY SizeTypes
    <3> QED
      BY <2>1, <3>1, FileSets, SumType
  <2> QED
    BY <2>1, <2>2, Bounds DEF DiskFreeBytes
<1>6. SumOf(w, Files) <= written + n * MaxFileBytes
  BY ChargesCovered
<1>7. n * MaxFileBytes <= m * MaxFileBytes /\ n * MaxFileBytes \in Nat /\ m * MaxFileBytes \in Nat
  <2>1. Waiting \in SUBSET Uploading /\ Uploading \in SUBSET Files
    BY DEF Waiting, Uploading
  <2>2. IsFiniteSet(Uploading) /\ n \in Nat /\ m \in Nat
    BY <2>1, FileSets
  <2>3. n <= m
    BY <2>1, <2>2, FS_Subset
  <2> HIDE DEF n, m
  <2> QED
    BY <2>2, <2>3, TimesMonotone, Bounds
<1> HIDE DEF v, w, n, m, written
<1>8. SumOf(v, Files) = SumOf(w, Files) - w[f] + v[f]
  <2>1. \A g \in Files : v[g] \in Nat
    BY <1>2, <1>3, Bounds
  <2> QED
    BY <1>2, <1>3, <2>1, Bounds, SumChange
<1>9. SumOf(w, Files) \in Nat /\ v[f] = MaxFileBytes
  BY <1>2, <1>3, Bounds, SumType
<1>10. SumOf(v, Files) + MinFreeDiskBytes <= DiskBytes
  <2>1. DiskBytes - written - MinFreeDiskBytes - m * MaxFileBytes >= MaxFileBytes
    BY <1>1, <1>5
  <2>2. SumOf(v, Files) <= SumOf(w, Files) + MaxFileBytes /\ SumOf(v, Files) \in Int
    BY <1>4, <1>8, <1>9, Bounds
  <2> DEFINE a == n * MaxFileBytes
             b == m * MaxFileBytes
  <2>3. /\ SumOf(w, Files) <= written + a /\ a <= b /\ a \in Nat /\ b \in Nat
        /\ DiskBytes - written - MinFreeDiskBytes - b >= MaxFileBytes
    BY <1>6, <1>7, <2>1
  <2> HIDE DEF a, b
  <2> QED
    BY <1>5, <1>9, <2>2, <2>3, Bounds
<1> QED
  BY <1>10 DEF DiskInv, v

LEMMA DiskStep ==
  ASSUME StoreInv, StoreInv', DiskInv, StoreMove
  PROVE  DiskInv'
<1> USE Bounds
<1>0. ASSUME NEW f \in Files, OnlyFile(f), Charge(f)' <= Charge(f) PROVE DiskInv'
  <2>1. ASSUME NEW g \in Files \ {f} PROVE Charge(g)' = Charge(g)
    BY <1>0, <2>1 DEF OnlyFile, Charge, Staged
  <2>2. \A g \in Files : Charge(g) \in Nat
    BY SizeTypes
  <2> QED
    BY <1>0, <2>1, <2>2, DiskShrinks
<1>1. ASSUME NEW f \in Files, Stage(f) PROVE OnlyFile(f) /\ Charge(f)' <= Charge(f)
  <2>1. up[f].pc = "slot" /\ UNCHANGED <<row, bytes, removing, debris, strays>>
        /\ \A g \in Files \ {f} : up'[g] = up[g]
    BY <1>1 DEF Stage, StoreInv, StoreTypes
  <2>2. up'[f].pc \in {"staged", "done"} /\ up'[f].size \in Nat
    <3>1. up'[f].size \in Nat
      BY DEF StoreInv, StoreTypes, Uploads
    <3>2. CASE up' = [up EXCEPT ![f].pc = "done"]
      BY <3>1, <3>2 DEF StoreInv, StoreTypes, Uploads
    <3>3. ASSUME NEW n, up' = [up EXCEPT ![f] = [pc |-> "staged", owner |-> @.owner, size |-> n]]
          PROVE  up'[f].pc = "staged"
      BY <3>3 DEF StoreInv, StoreTypes
    <3> QED
      BY <1>1, <3>1, <3>2, <3>3, Zenon DEF Stage
  <2>3. Charge(f) = MaxFileBytes
    BY <2>1 DEF Charge
  <2>4. Charge(f)' <= MaxFileBytes
    BY <2>2 DEF Charge
  <2> QED
    BY <2>1, <2>3, <2>4 DEF OnlyFile
<1>2. ASSUME NEW f \in Files, ~Stage(f), OnlyFile(f), up'[f].size = up[f].size,
             up[f].pc # "slot", up'[f].pc # "slot",
             f \in bytes' \cup Staged' \cup debris' => f \in bytes \cup Staged \cup debris
      PROVE  Charge(f)' <= Charge(f)
  <2>1. up[f].size \in Nat
    BY DEF StoreInv, StoreTypes, Uploads
  <2> QED
    BY <1>2, <2>1 DEF Charge
<1>3. ASSUME NEW f \in Files, StoreUpload(f) PROVE OnlyFile(f) /\ Charge(f)' <= Charge(f)
  <2>1. OnlyFile(f)
    BY <1>3 DEF StoreUpload, StoreInv, StoreTypes, OnlyFile
  <2>2. /\ up'[f].size = up[f].size /\ up[f].pc = "staged" /\ up'[f].pc # "slot" /\ f \in Staged
    BY <1>3 DEF StoreUpload, StoreInv, StoreTypes, Uploads, Staged
  <2>3. ~Stage(f)
    BY <2>2 DEF Stage
  <2> QED
    BY <1>2, <2>1, <2>2, <2>3
<1>4. ASSUME NEW f \in Files, Incomplete(f) \/ CommitUpload(f) \/ resolveUploadCommit(f)
      PROVE  OnlyFile(f) /\ Charge(f)' <= Charge(f)
  <2>1. OnlyFile(f)
    BY <1>4 DEF Incomplete, CommitUpload, resolveUploadCommit, RemoveStoredFile, StoreInv, StoreTypes,
                OnlyFile
  <2>2. /\ up'[f].size = up[f].size /\ up[f].pc \in {"stored", "unknown"}
        /\ up'[f].pc \in {"done", "unknown"}
    BY <1>4 DEF Incomplete, CommitUpload, resolveUploadCommit, StoreInv, StoreTypes, Uploads
  <2>3. UNCHANGED debris /\ bytes' \in SUBSET bytes
    BY <1>4 DEF Incomplete, CommitUpload, resolveUploadCommit, RemoveStoredFile
  <2>4. f \notin Staged' /\ ~Stage(f)
    BY <2>2 DEF Staged, Stage
  <2> QED
    BY <1>2, <2>1, <2>2, <2>3, <2>4
<1>5. ASSUME NEW f \in Files, Delete(f) \/ DeleteBytes(f) PROVE OnlyFile(f) /\ Charge(f)' <= Charge(f)
  <2>1. OnlyFile(f)
    BY <1>5 DEF Delete, DeleteBytes, RemoveStoredFile, StoreInv, StoreTypes, OnlyFile
  <2>2. UNCHANGED <<up, debris>> /\ bytes' \in SUBSET bytes
    BY <1>5 DEF Delete, DeleteBytes, RemoveStoredFile
  <2>3. Staged' = Staged
    BY <2>2 DEF Staged
  <2>4. up[f].size \in Nat
    BY DEF StoreInv, StoreTypes, Uploads
  <2> QED
    BY <2>1, <2>2, <2>3, <2>4 DEF Charge
<1> QED
  BY <1>0, <1>1, <1>3, <1>4, <1>5, DiskAcquire DEF StoreMove

LEMMA RestartLimits ==
  ASSUME StoreInv, QuotaInv, DiskInv, Restart
  PROVE  QuotaInv' /\ DiskInv'
<1>0. StoreInv'
  BY RestartStore
<1>1. /\ up' = [f \in Files |-> IF f \in Uploading THEN [up[f] EXCEPT !.pc = "done"] ELSE up[f]]
      /\ UNCHANGED <<row, bytes>> /\ debris' = debris \cup Staged
  BY DEF Restart
<1>2. ASSUME NEW f \in Files
      PROVE  /\ up'[f].owner = up[f].owner /\ up'[f].size = up[f].size
             /\ up'[f].pc \in {"idle", "done"} /\ (up'[f].pc = "idle" => up[f].pc = "idle")
  <2>1. up[f] \in Uploads
    BY DEF StoreInv, StoreTypes
  <2> QED
    BY <1>1, <2>1 DEF Uploading, Uploads
<1>3. QuotaInv'
  BY <1>0, <1>1, <1>2, QuotaShrinks
<1>4. ASSUME NEW f \in Files PROVE Charge(f)' <= Charge(f)
  <2>1. up[f].size \in Nat
    BY DEF StoreInv, StoreTypes, Uploads
  <2>2. f \notin Staged' /\ (f \in debris' <=> f \in debris \cup Staged) /\ (f \in bytes' <=> f \in bytes)
    BY <1>1, <1>2 DEF Staged
  <2> QED
    BY <1>2, <2>1, <2>2, Bounds DEF Charge
<1> QED
  BY <1>0, <1>3, <1>4, DiskShrinks

-----------------------------------------------------------------------------
(* Shares and requests *)

IsShare(x) ==
  /\ x = [f \in DOMAIN x |-> x[f]]
  /\ DOMAIN x = {"file", "access", "members", "secret", "expires", "max", "count", "revoked"}
  /\ x.file \in Files \cup {None} /\ x.access \in {"none", "public", "authenticated", "members"}
  /\ x.members \in SUBSET Users /\ x.secret \in {"none", "code", "password"}
  /\ x.expires \in Nat /\ x.max \in Nat /\ x.count \in Nat /\ x.revoked \in BOOLEAN

\* A share belongs to a file that was committed, and counted what it handed out.
ShareInv ==
  /\ active \in SUBSET Users /\ clock \in 0..MaxTime /\ crashes \in 0..MaxCrashes
  /\ share = [s \in Shares |-> share[s]] /\ served \in [Shares -> Nat]
  /\ \A s \in Shares :
       /\ IsShare(share[s])
       /\ share[s] = NoShare \/ (share[s].file \in Files /\ row[share[s].file] # "none")
       /\ served[s] <= share[s].count
       /\ share[s].max > 0 => share[s].count <= share[s].max

IsReq(x) ==
  /\ x = [f \in DOMAIN x |-> x[f]]
  /\ DOMAIN x = {"pc", "share", "client", "viewer", "until", "right"}
  /\ x.pc \in {"idle", "unlock", "compare", "open"} /\ x.share \in Shares \cup {None}
  /\ x.client \in Clients \cup {None} /\ x.viewer \in Users \cup {None}
  /\ x.until \in Nat /\ x.right \in BOOLEAN

\* A request under way is about a share there is, and its cookie would not outlive a grant from now.
ReqInv ==
  /\ req = [r \in Requests |-> req[r]]
  /\ \A r \in Requests :
       /\ IsReq(req[r])
       /\ req[r].pc # "idle" => /\ req[r].share \in Shares /\ req[r].client \in Clients
                                /\ share[req[r].share] # NoShare
       /\ req[r].pc # "idle" => req[r].until <= clock + GrantLifetime

\* A cookie was given for a right secret, at most a lifetime before its end.
JarInv ==
  /\ jar \in [Shares \X Clients -> [key : Nat, until : Nat]]
  /\ knows \in [Shares \X Clients -> [key : Nat, at : Nat]]
  /\ key \in Nat /\ key > 0
  /\ \A sc \in Shares \X Clients :
       \/ jar[sc].key = 0
       \/ knows[sc].key = jar[sc].key /\ jar[sc].until <= knows[sc].at + GrantLifetime

\* A row is never taken back.
LEMMA RowsStay ==
  ASSUME StoreInv, StoreMove
  PROVE  \A f \in Files : row[f] # "none" => row'[f] # "none"
<1>1. \E f \in Files : row' = row \/ row' = [row EXCEPT ![f] = "live"] \/ row' = [row EXCEPT ![f] = "deleted"]
  BY DEF StoreMove, AcquireUpload, Stage, StoreUpload, Incomplete, CommitUpload, resolveUploadCommit,
         Delete, DeleteBytes
<1> QED
  BY <1>1 DEF StoreInv, StoreTypes

LEMMA NoShareType == IsShare(NoShare) /\ NoShare.count = 0 /\ NoShare.max = 0 /\ NoShare.file = None
  BY DEF IsShare, NoShare

LEMMA IdleType == IsReq(Idle) /\ Idle.pc = "idle" /\ Idle.right = FALSE
  BY DEF IsReq, Idle

\* One share changes, or none.
LEMMA OneShare ==
  ASSUME ShareInv, NEW s \in Shares, NEW x, IsShare(x), share' = [share EXCEPT ![s] = x],
         UNCHANGED <<active, clock, crashes, row>>,
         x.file \in Files, row[x.file] # "none",
         served' \in [Shares -> Nat], \A t \in Shares \ {s} : served'[t] = served[t],
         served'[s] <= x.count, x.max > 0 => x.count <= x.max
  PROVE  ShareInv'
<1>1. ASSUME NEW t \in Shares
      PROVE  /\ IsShare(share'[t])
             /\ share'[t] = NoShare \/ (share'[t].file \in Files /\ row'[share'[t].file] # "none")
             /\ served'[t] <= share'[t].count
             /\ share'[t].max > 0 => share'[t].count <= share'[t].max
  <2>1. CASE t = s
    <3>1. share'[t] = x
      BY <2>1 DEF ShareInv
    <3> QED
      BY <3>1, <2>1
  <2>2. CASE t # s
    <3>1. share'[t] = share[t] /\ served'[t] = served[t]
      BY <2>2 DEF ShareInv
    <3> QED
      BY <3>1, <2>2 DEF ShareInv
  <2> QED
    BY <2>1, <2>2
<1>2. share' = [t \in Shares |-> share'[t]]
  BY DEF ShareInv
<1> QED
  BY <1>1, <1>2 DEF ShareInv

LEMMA CreateStep ==
  ASSUME StoreInv, ShareInv, NEW s \in Shares, NEW f \in Files, NEW in \in ShareInputs, CreateShare(s, f, in)
  PROVE  ShareInv'
<1> DEFINE e == IF in.life = 0 THEN 0 ELSE clock + in.life
           m == in.members \ {up[f].owner}
           x == [file |-> f, access |-> in.access, members |-> m, secret |-> in.secret, expires |-> e,
                 max |-> in.max, count |-> 0, revoked |-> FALSE]
<1>1. /\ share[s] = NoShare /\ row[f] = "live" /\ share' = [share EXCEPT ![s] = x]
      /\ UNCHANGED <<active, clock, crashes, row, served>>
  BY DEF CreateShare, InsertFileShare, FindShare, store, past
<1>2. /\ in.access \in {"public", "authenticated", "members"} /\ in.members \in SUBSET Users
      /\ in.secret \in {"none", "code", "password"} /\ in.life \in Nat /\ in.max \in Nat
  BY FileShareAssumption
<1>3. clock \in Nat /\ served \in [Shares -> Nat] /\ served[s] <= 0
  BY <1>1, NoShareType, Bounds DEF ShareInv
<1>4. e \in Nat /\ m \in SUBSET Users
  BY <1>2, <1>3
<1> HIDE DEF e, m
<1>5. IsShare(x) /\ x.file = f /\ x.count = 0 /\ x.max \in Nat
  BY <1>2, <1>4 DEF IsShare
<1>6. row[f] # "none" /\ served' = served /\ (x.max > 0 => x.count <= x.max)
  BY <1>1, <1>5
<1> HIDE DEF x
<1> QED
  BY <1>1, <1>3, <1>5, <1>6, OneShare

LEMMA ChangedShare ==
  ASSUME NEW x, IsShare(x)
  PROVE  /\ LET y == [x EXCEPT !.revoked = TRUE]
            IN  IsShare(y) /\ y.file = x.file /\ y.count = x.count /\ y.max = x.max
         /\ LET y == [x EXCEPT !.count = @ + 1]
            IN  IsShare(y) /\ y.file = x.file /\ y.count = x.count + 1 /\ y.max = x.max
<1>1. DOMAIN x = {"file", "access", "members", "secret", "expires", "max", "count", "revoked"}
  BY DEF IsShare
<1>2. /\ x.file \in Files \cup {None} /\ x.access \in {"none", "public", "authenticated", "members"}
      /\ x.members \in SUBSET Users /\ x.secret \in {"none", "code", "password"}
      /\ x.expires \in Nat /\ x.max \in Nat /\ x.count \in Nat /\ x.count + 1 \in Nat
      /\ x.revoked \in BOOLEAN
  BY DEF IsShare
<1> DEFINE y == [x EXCEPT !.revoked = TRUE]
           z == [x EXCEPT !.count = @ + 1]
<1>3. /\ y = [f \in DOMAIN y |-> y[f]] /\ DOMAIN y = DOMAIN x /\ y.file = x.file /\ y.access = x.access
      /\ y.members = x.members /\ y.secret = x.secret /\ y.expires = x.expires /\ y.max = x.max
      /\ y.count = x.count
  BY <1>1
<1>4. y.revoked = TRUE
  BY <1>1
<1>5. /\ z = [f \in DOMAIN z |-> z[f]] /\ DOMAIN z = DOMAIN x /\ z.file = x.file /\ z.access = x.access
      /\ z.members = x.members /\ z.secret = x.secret /\ z.expires = x.expires /\ z.max = x.max
      /\ z.count = x.count + 1
  BY <1>1
<1>6. z.revoked = x.revoked
  BY <1>1
<1> HIDE DEF y, z
<1>7. y.revoked \in BOOLEAN /\ z.revoked \in BOOLEAN
  BY <1>2, <1>4, <1>6
<1>8. IsShare(y) /\ IsShare(z)
  BY <1>1, <1>2, <1>3, <1>5, <1>7 DEF IsShare
<1> QED
  BY <1>3, <1>5, <1>8 DEF y, z

LEMMA RevokeStep ==
  ASSUME StoreInv, ShareInv, NEW s \in Shares, RevokeShare(s)
  PROVE  ShareInv'
<1> DEFINE x == [share[s] EXCEPT !.revoked = TRUE]
<1>1. /\ share[s] # NoShare /\ share' = [share EXCEPT ![s] = x]
      /\ UNCHANGED <<active, clock, crashes, row, served>>
  BY DEF RevokeShare, FindShare, store, past
<1>2. IsShare(share[s]) /\ share[s].file \in Files /\ row[share[s].file] # "none"
      /\ served[s] <= share[s].count /\ (share[s].max > 0 => share[s].count <= share[s].max)
      /\ served \in [Shares -> Nat]
  BY <1>1 DEF ShareInv
<1>3. IsShare(x) /\ x.file = share[s].file /\ x.count = share[s].count /\ x.max = share[s].max
  BY <1>2, ChangedShare
<1> HIDE DEF x
<1> QED
  BY <1>1, <1>2, <1>3, OneShare

LEMMA DownloadStep ==
  ASSUME StoreInv, ShareInv, ReqInv, NEW r \in Requests, DownloadCommit(r)
  PROVE  ShareInv'
<1> DEFINE s == req[r].share
           x == [share[s] EXCEPT !.count = @ + 1]
<1>1. /\ UNCHANGED <<active, clock, crashes, row>> /\ req[r].pc = "open"
      /\ \/ UNCHANGED <<share, served>>
         \/ /\ ~Exhausted(s) /\ share' = [share EXCEPT ![s] = x]
            /\ served' = [served EXCEPT ![s] = @ + 1] \/ served' = served
  BY DEF DownloadCommit, IncrementDownloadCount, store
<1>2. s \in Shares /\ share[s] # NoShare
  BY <1>1 DEF ReqInv
<1>3. /\ IsShare(share[s]) /\ share[s].file \in Files /\ row[share[s].file] # "none"
      /\ served[s] <= share[s].count /\ served \in [Shares -> Nat]
      /\ (share[s].max > 0 => share[s].count <= share[s].max)
  BY <1>2 DEF ShareInv
<1>4. IsShare(x) /\ x.file = share[s].file /\ x.count = share[s].count + 1 /\ x.max = share[s].max
  BY <1>3, ChangedShare
<1>5. share[s].count \in Nat /\ share[s].max \in Nat
  BY <1>3 DEF IsShare
<1>6. ~Exhausted(s) => ~(share[s].max > 0 /\ share[s].count >= share[s].max)
  BY DEF Exhausted
<1> HIDE DEF x, s
<1>7. CASE UNCHANGED <<share, served>>
  BY <1>1, <1>7 DEF ShareInv
<1>8. CASE ~Exhausted(s) /\ share' = [share EXCEPT ![s] = x]
           /\ (served' = [served EXCEPT ![s] = @ + 1] \/ served' = served)
  <2>1. x.max > 0 => x.count <= x.max
    BY <1>4, <1>5, <1>6, <1>8
  <2>2. served' \in [Shares -> Nat] /\ (\A t \in Shares \ {s} : served'[t] = served[t])
        /\ served'[s] <= x.count
    BY <1>2, <1>3, <1>4, <1>5, <1>8
  <2> QED
    BY <1>1, <1>2, <1>3, <1>4, <1>8, <2>1, <2>2, OneShare
<1> QED
  BY <1>1, <1>7, <1>8

LEMMA ShareStep ==
  ASSUME StoreInv, ShareInv, ReqInv, [Next]_vars
  PROVE  ShareInv'
<1>1. CASE StoreMove /\ UNCHANGED <<active, share, door, clock, crashes, past>>
  <2>1. UNCHANGED <<active, share, clock, crashes, served>>
    BY <1>1 DEF past
  <2> QED
    BY <1>1, <2>1, RowsStay DEF ShareInv
<1>2. CASE ShareMove
  BY <1>2, CreateStep, RevokeStep DEF ShareMove
<1>3. ASSUME UNCHANGED <<active, row, share, served, clock, crashes>> PROVE ShareInv'
  BY <1>3 DEF ShareInv
<1>4. CASE DoorMove /\ UNCHANGED <<active, store, key, clock, crashes>>
  <2>1. (\E r \in Requests : DownloadCommit(r)) \/ UNCHANGED <<share, served>>
    <3>1. ASSUME NEW r \in Requests, NEW s \in Shares, NEW c \in Clients, NEW v \in Users \cup {None},
                 UnlockBegin(r, s, c, v) \/ DownloadOpen(r, s, c, v)
          PROVE  UNCHANGED <<share, served>>
      BY <3>1 DEF UnlockBegin, DownloadOpen, past
    <3>2. ASSUME NEW r \in Requests, NEW right \in BOOLEAN, UnlockAttempt(r, right)
          PROVE  UNCHANGED <<share, served>>
      BY <3>2 DEF UnlockAttempt
    <3>3. ASSUME NEW r \in Requests, UnlockFinish(r) PROVE UNCHANGED <<share, served>>
      BY <3>3 DEF UnlockFinish
    <3> QED
      BY <1>4, <3>1, <3>2, <3>3, Zenon DEF DoorMove
  <2> QED
    BY <1>3, <1>4, <2>1, DownloadStep DEF store
<1>5. ASSUME NEW u \in Users, SetActive(u) PROVE ShareInv'
  <2>1. active' \in SUBSET Users /\ UNCHANGED <<row, share, served, clock, crashes>>
    BY <1>5 DEF SetActive, ShareInv, store, past
  <2> QED
    BY <2>1 DEF ShareInv
<1>6. CASE Tick
  <2>1. clock' \in 0..MaxTime /\ UNCHANGED <<active, row, share, served, crashes>>
    BY <1>6, Bounds DEF Tick, ShareInv, store, past
  <2> QED
    BY <2>1 DEF ShareInv
<1>7. CASE Restart
  <2>1. crashes' \in 0..MaxCrashes /\ UNCHANGED <<active, row, share, served, clock>>
    BY <1>7, Bounds DEF Restart, ShareInv
  <2> QED
    BY <2>1 DEF ShareInv
<1>8. CASE UNCHANGED vars
  BY <1>3, <1>8 DEF vars, store, past
<1> QED
  BY <1>1, <1>2, <1>4, <1>5, <1>6, <1>7, <1>8, Moves

\* A share stays with its file, and is never taken back.
LEMMA SharesStay ==
  ASSUME StoreInv, ShareInv, ReqInv, [Next]_vars, NEW s \in Shares, share[s] # NoShare
  PROVE  share'[s] # NoShare /\ share'[s].file = share[s].file
<1>0. share[s].file \in Files /\ IsShare(share[s])
  BY DEF ShareInv
<1>1. SUFFICES share'[s].file = share[s].file
  BY <1>0, NoShareType, Bounds
<1>2. CASE ShareMove
  <2>1. ASSUME NEW t \in Shares, NEW f \in Files, NEW in \in ShareInputs, CreateShare(t, f, in)
        PROVE  share'[s] = share[s]
    BY <2>1 DEF CreateShare, FindShare, InsertFileShare, ShareInv
  <2>2. ASSUME NEW t \in Shares, RevokeShare(t) PROVE share'[s].file = share[s].file
    <3>1. share' = [share EXCEPT ![t].revoked = TRUE]
      BY <2>2 DEF RevokeShare
    <3> QED
      BY <3>1, <1>0 DEF ShareInv, IsShare
  <2> QED
    BY <1>2, <2>1, <2>2 DEF ShareMove
<1>3. ASSUME NEW r \in Requests, DownloadCommit(r) PROVE share'[s].file = share[s].file
  <2>1. share' = share \/ share' = [share EXCEPT ![req[r].share].count = @ + 1]
    BY <1>3 DEF DownloadCommit, IncrementDownloadCount
  <2>2. DOMAIN share = Shares
    BY DEF ShareInv
  <2>3. CASE share' = share
    BY <2>3
  <2>4. CASE share' = [share EXCEPT ![req[r].share].count = @ + 1]
    <3>1. "file" # "count"
      OBVIOUS
    <3>2. share'[s] = share[s] \/ share'[s] = [share[s] EXCEPT !.count = @ + 1]
      BY <2>2, <2>4
    <3> QED
      BY <3>1, <3>2, <1>0 DEF IsShare
  <2> QED
    BY <2>1, <2>3, <2>4
<1>4. CASE DoorMove /\ UNCHANGED <<active, store, key, clock, crashes>>
  <2>1. ASSUME NEW r \in Requests, NEW t \in Shares, NEW c \in Clients, NEW v \in Users \cup {None},
               UnlockBegin(r, t, c, v) \/ DownloadOpen(r, t, c, v)
        PROVE  UNCHANGED share
    BY <2>1 DEF UnlockBegin, DownloadOpen
  <2>2. ASSUME NEW r \in Requests, NEW right \in BOOLEAN, UnlockAttempt(r, right) PROVE UNCHANGED share
    BY <2>2 DEF UnlockAttempt
  <2>3. ASSUME NEW r \in Requests, UnlockFinish(r) PROVE UNCHANGED share
    BY <2>3 DEF UnlockFinish
  <2> QED
    BY <1>3, <1>4, <2>1, <2>2, <2>3, Zenon DEF DoorMove
<1>5. CASE Tick \/ Restart
  BY <1>5 DEF Tick, Restart
<1> QED
  BY <1>2, <1>4, <1>5, Moves DEF vars

\* One request takes a step.
LEMMA OneReq ==
  ASSUME ReqInv, NEW r \in Requests, NEW x, IsReq(x), req' = [req EXCEPT ![r] = x],
         UNCHANGED clock, \A s \in Shares : share[s] # NoShare => share'[s] # NoShare,
         x.pc # "idle" => /\ x.share \in Shares /\ x.client \in Clients /\ share[x.share] # NoShare
                          /\ x.until <= clock + GrantLifetime
  PROVE  ReqInv'
<1>1. ASSUME NEW q \in Requests
      PROVE  /\ IsReq(req'[q])
             /\ req'[q].pc # "idle" => /\ req'[q].share \in Shares /\ req'[q].client \in Clients
                                       /\ share'[req'[q].share] # NoShare
             /\ req'[q].pc # "idle" => req'[q].until <= clock' + GrantLifetime
  <2>1. CASE q = r
    <3>1. req'[q] = x
      BY <2>1 DEF ReqInv
    <3> QED
      BY <3>1
  <2>2. CASE q # r
    <3>1. req'[q] = req[q]
      BY <2>2 DEF ReqInv
    <3> QED
      BY <3>1 DEF ReqInv
  <2> QED
    BY <2>1, <2>2
<1>2. req' = [q \in Requests |-> req'[q]]
  BY DEF ReqInv
<1> QED
  BY <1>1, <1>2 DEF ReqInv

LEMMA EarlierBound ==
  ASSUME NEW a \in Nat, NEW b \in Nat
  PROVE  Earlier(a, b) \in Nat /\ Earlier(a, b) <= a
  BY DEF Earlier

LEMMA DoorReqs ==
  ASSUME StoreInv, ShareInv, ReqInv, DoorMove, UNCHANGED clock,
         \A s \in Shares : share[s] # NoShare => share'[s] # NoShare
  PROVE  ReqInv'
<1>0. clock \in Nat
  BY Bounds DEF ShareInv
<1>1. ASSUME NEW r \in Requests, req' = [req EXCEPT ![r] = Idle] PROVE ReqInv'
  BY <1>1, IdleType, OneReq
<1>2. ASSUME NEW r \in Requests, NEW s \in Shares, NEW c \in Clients, NEW v \in Users \cup {None},
             UnlockBegin(r, s, c, v)
      PROVE  ReqInv'
  <2> DEFINE e == Earlier(clock + GrantLifetime, share[s].expires)
             x == [pc |-> "unlock", share |-> s, client |-> c, viewer |-> None, until |-> e, right |-> FALSE]
  <2>1. req' = [req EXCEPT ![r] = x] /\ share[s] # NoShare
    BY <1>2 DEF UnlockBegin, resolveShare, FindShare
  <2>2. e \in Nat /\ e <= clock + GrantLifetime
    BY <1>0, EarlierBound, Bounds DEF ShareInv, IsShare
  <2> HIDE DEF e
  <2>3. IsReq(x) /\ x.share = s /\ x.client = c /\ x.until = e
    BY <2>2 DEF IsReq
  <2> HIDE DEF x
  <2> QED
    BY <2>1, <2>2, <2>3, OneReq
<1>3. ASSUME NEW r \in Requests, NEW s \in Shares, NEW c \in Clients, NEW v \in Users \cup {None},
             DownloadOpen(r, s, c, v)
      PROVE  ReqInv'
  <2> DEFINE x == [pc |-> "open", share |-> s, client |-> c, viewer |-> v, until |-> 0, right |-> FALSE]
  <2>1. req' = [req EXCEPT ![r] = x] /\ share[s] # NoShare
    BY <1>3 DEF DownloadOpen, resolveShare, FindShare
  <2>2. 0 <= clock + GrantLifetime
    BY <1>0, Bounds
  <2>3. IsReq(x) /\ x.share = s /\ x.client = c /\ x.until = 0
    BY DEF IsReq
  <2> HIDE DEF x
  <2> QED
    BY <2>1, <2>2, <2>3, OneReq
<1>4. ASSUME NEW r \in Requests, NEW right \in BOOLEAN, UnlockAttempt(r, right) PROVE ReqInv'
  <2> DEFINE x == [req[r] EXCEPT !.pc = "compare", !.right = right]
             y == [req[r] EXCEPT !.pc = "compare"]
             z == [y EXCEPT !.right = right]
  <2>1. req[r].pc = "unlock"
    BY <1>4 DEF UnlockAttempt
  <2>2. req' = [req EXCEPT ![r] = x] \/ req' = [req EXCEPT ![r] = Idle]
    BY <1>4 DEF UnlockAttempt
  <2>3. /\ IsReq(req[r]) /\ req[r].share \in Shares /\ req[r].client \in Clients
        /\ share[req[r].share] # NoShare /\ req[r].until <= clock + GrantLifetime
    BY <2>1 DEF ReqInv
  <2>4. DOMAIN req[r] = {"pc", "share", "client", "viewer", "until", "right"}
    BY <2>3 DEF IsReq
  <2>5. /\ y.pc = "compare" /\ DOMAIN y = DOMAIN req[r] /\ y.share = req[r].share
        /\ y.client = req[r].client /\ y.viewer = req[r].viewer /\ y.until = req[r].until
    BY <2>4
  <2>6. x = z
    OBVIOUS
  <2> HIDE DEF x, y
  <2>7. /\ z = [f \in DOMAIN z |-> z[f]] /\ z.pc = "compare" /\ DOMAIN z = DOMAIN req[r]
        /\ z.share = req[r].share
        /\ z.client = req[r].client /\ z.viewer = req[r].viewer /\ z.until = req[r].until
    BY <2>4, <2>5
  <2>8. z.right = right
    BY <2>4, <2>5
  <2> HIDE DEF z
  <2>9. z.right \in BOOLEAN
    BY <2>8
  <2>10. IsReq(z)
    BY <2>3, <2>4, <2>7, <2>9 DEF IsReq
  <2> QED
    BY <1>1, <2>2, <2>3, <2>6, <2>7, <2>10, OneReq
<1>5. ASSUME NEW r \in Requests, UnlockFinish(r) \/ DownloadCommit(r)
      PROVE  ReqInv'
  <2>1. req' = [req EXCEPT ![r] = Idle]
    BY <1>5 DEF UnlockFinish, DownloadCommit
  <2> QED
    BY <1>1, <2>1
<1> QED
  BY <1>2, <1>3, <1>4, <1>5, Zenon DEF DoorMove

LEMMA ReqStep ==
  ASSUME StoreInv, ShareInv, ReqInv, [Next]_vars
  PROVE  ReqInv'
<1>0. \A s \in Shares : share[s] # NoShare => share'[s] # NoShare
  BY SharesStay
<1>1. ASSUME UNCHANGED req, clock' \in Nat, clock <= clock' PROVE ReqInv'
  <2>1. clock \in Nat /\ GrantLifetime \in Nat
    BY Bounds DEF ShareInv
  <2>2. ASSUME NEW r \in Requests, req[r].pc # "idle" PROVE req[r].until <= clock' + GrantLifetime
    <3>1. req[r].until \in Nat /\ req[r].until <= clock + GrantLifetime
      BY <2>2 DEF ReqInv, IsReq
    <3> QED
      BY <1>1, <2>1, <3>1
  <2> QED
    BY <1>0, <1>1, <2>2 DEF ReqInv
<1>2. clock \in Nat /\ clock <= clock
  BY Bounds DEF ShareInv
<1>3. CASE UNCHANGED <<req, clock>>
  BY <1>1, <1>2, <1>3
<1>4. CASE Tick
  <2>1. UNCHANGED req /\ clock' = clock + 1
    BY <1>4 DEF Tick, door
  <2> QED
    BY <1>1, <1>2, <2>1
<1>5. CASE Restart
  BY <1>5, IdleType DEF Restart, ReqInv
<1>6. CASE DoorMove /\ UNCHANGED <<active, store, key, clock, crashes>>
  BY <1>0, <1>6, DoorReqs
<1> QED
  BY <1>3, <1>4, <1>5, <1>6, Moves DEF vars, door

\* Only a right secret gives a cookie.
LEMMA DoorJars ==
  ASSUME DoorMove
  PROVE  \/ UNCHANGED <<jar, knows>>
         \/ \E q \in Requests : UnlockFinish(q) /\ req[q].right
<1>1. ASSUME NEW q \in Requests, NEW s \in Shares, NEW c \in Clients, NEW v \in Users \cup {None},
             UnlockBegin(q, s, c, v) \/ DownloadOpen(q, s, c, v)
      PROVE  UNCHANGED <<jar, knows>>
  BY <1>1 DEF UnlockBegin, DownloadOpen, past
<1>2. ASSUME NEW q \in Requests, NEW right \in BOOLEAN, UnlockAttempt(q, right) PROVE UNCHANGED <<jar, knows>>
  BY <1>2 DEF UnlockAttempt
<1>3. ASSUME NEW q \in Requests, DownloadCommit(q) PROVE UNCHANGED <<jar, knows>>
  BY <1>3 DEF DownloadCommit
<1>4. ASSUME NEW q \in Requests, UnlockFinish(q), ~req[q].right PROVE UNCHANGED <<jar, knows>>
  BY <1>4 DEF UnlockFinish
<1> QED
  BY <1>1, <1>2, <1>3, <1>4, Zenon DEF DoorMove

LEMMA JarStep ==
  ASSUME ShareInv, ReqInv, JarInv, [Next]_vars
  PROVE  JarInv'
<1>1. ASSUME UNCHANGED <<jar, knows>>, key' \in Nat, key' > 0 PROVE JarInv'
  BY <1>1 DEF JarInv
<1>2. ASSUME NEW r \in Requests, UnlockFinish(r), req[r].right, UNCHANGED key PROVE JarInv'
  <2> DEFINE sc == <<req[r].share, req[r].client>>
             n == req[r].until
  <2>1. /\ jar' = [jar EXCEPT ![sc] = [key |-> key, until |-> n]]
        /\ knows' = [knows EXCEPT ![sc] = [key |-> key, at |-> clock]] /\ req[r].pc = "compare"
    BY <1>2 DEF UnlockFinish, signGrant
  <2>2. sc \in Shares \X Clients /\ n \in Nat /\ n <= clock + GrantLifetime
    BY <2>1 DEF ReqInv, IsReq
  <2>3. clock \in Nat
    BY Bounds DEF ShareInv
  <2> HIDE DEF sc, n
  <2> QED
    BY <1>2, <2>1, <2>2, <2>3 DEF JarInv
<1>3. CASE Restart
  <2>1. UNCHANGED <<jar, knows>> /\ key' = key + 1
    BY <1>3 DEF Restart
  <2> QED
    BY <1>1, <2>1 DEF JarInv
<1>4. CASE UNCHANGED <<jar, knows, key>>
  BY <1>1, <1>4 DEF JarInv
<1>5. CASE DoorMove /\ UNCHANGED <<active, store, key, clock, crashes>>
  BY <1>2, <1>4, <1>5, DoorJars
<1> QED
  BY <1>3, <1>4, <1>5, Moves DEF Tick, vars, door, past

-----------------------------------------------------------------------------
(* Attempts *)

Counters == [count : Nat, expires : Nat]

\* What the entry e of a client says about the attempts l it has made until now: while its window
\* runs, those it does not count were made before the window, and more than a whole count before, a
\* window earlier still; once it is over, all but a whole count are a window old.
Explains(e, l, now) ==
  /\ e \in Counters /\ l \in Seq(0..MaxTime)
  /\ \A i \in DOMAIN l : l[i] <= now
  /\ IF e.expires > now
     THEN /\ e.count <= MaxAttempts /\ e.expires <= now + AttemptWindow
          /\ \A i \in DOMAIN l :
               /\ i <= Len(l) - e.count => l[i] + AttemptWindow <= e.expires
               /\ i <= Len(l) - e.count - MaxAttempts => l[i] + 2 * AttemptWindow <= e.expires
     ELSE \A i \in DOMAIN l : i <= Len(l) - MaxAttempts => l[i] + AttemptWindow <= now

Spaced(l) == \A i, j \in DOMAIN l : j = i + 2 * MaxAttempts => l[j] >= l[i] + AttemptWindow

AttemptInv ==
  /\ attempts = [sc \in Shares \X Clients |-> attempts[sc]]
  /\ tries = [sc \in Shares \X Clients |-> tries[sc]]
  /\ \A sc \in Shares \X Clients : Explains(attempts[sc], tries[sc], clock) /\ Spaced(tries[sc])

LEMMA ExplainsNothing ==
  ASSUME NEW t \in Nat
  PROVE  Explains(NoEntry, NoTries, t) /\ Spaced(NoTries)
  BY Bounds DEF Explains, NoEntry, NoTries, Counters, Spaced

\* An entry that is over tells no more than none.
LEMMA ExplainsOver ==
  ASSUME NEW e, NEW l, NEW t \in Nat, Explains(e, l, t), ~(e.expires > t)
  PROVE  Explains(NoEntry, l, t)
  BY DEF Explains, NoEntry, Counters

LEMMA ExplainsLater ==
  ASSUME NEW e, NEW l, NEW t \in Nat, NEW u \in Nat, t <= u, Explains(e, l, t)
  PROVE  Explains(e, l, u)
<1> USE Bounds
<1>1. /\ e.count \in Nat /\ e.expires \in Nat /\ l \in Seq(0..MaxTime) /\ Len(l) \in Nat
      /\ DOMAIN l = 1..Len(l) /\ \A i \in DOMAIN l : l[i] \in 0..MaxTime
  BY DEF Explains, Counters
<1>2. \A i \in DOMAIN l : l[i] <= u
  BY <1>1 DEF Explains
<1>3. CASE e.expires > u
  BY <1>1, <1>2, <1>3 DEF Explains
<1>4. CASE ~(e.expires > u)
  <2>1. ASSUME NEW i \in DOMAIN l, i <= Len(l) - MaxAttempts PROVE l[i] + AttemptWindow <= u
    <3>1. CASE e.expires > t
      <4>1. e.count <= MaxAttempts /\ (i <= Len(l) - e.count => l[i] + AttemptWindow <= e.expires)
        BY <3>1 DEF Explains
      <4>2. i <= Len(l) - e.count
        BY <1>1, <2>1, <4>1
      <4> QED
        BY <1>1, <1>4, <4>1, <4>2
    <3>2. CASE ~(e.expires > t)
      <4>1. l[i] + AttemptWindow <= t
        BY <2>1, <3>2 DEF Explains
      <4> QED
        BY <1>1, <4>1
    <3> QED
      BY <3>1, <3>2
  <2> QED
    BY <1>2, <1>4, <2>1 DEF Explains
<1> QED
  BY <1>3, <1>4

\* The entry after an attempt at t, and what it has counted before.
CountOf(e, t) == IF e.expires <= t THEN 0 ELSE e.count
CountedEntry(e, t) ==
  [count |-> CountOf(e, t) + 1, expires |-> IF e.expires <= t THEN t + AttemptWindow ELSE e.expires]

\* An attempt that is let through is counted, and is far enough from the ones before it.
LEMMA ExplainsCounted ==
  ASSUME NEW e, NEW l, NEW t \in 0..MaxTime, Explains(e, l, t), Spaced(l), CountOf(e, t) < MaxAttempts
  PROVE  Explains(CountedEntry(e, t), Append(l, t), t) /\ Spaced(Append(l, t))
<1> USE Bounds
<1> DEFINE m == Append(l, t)
           n == Len(l)
           k == CountOf(e, t)
           x == IF e.expires <= t THEN t + AttemptWindow ELSE e.expires
           new == [count |-> k + 1, expires |-> x]
<1>1. /\ l \in Seq(0..MaxTime) /\ n \in Nat /\ DOMAIN l = 1..n /\ t \in Nat
      /\ \A i \in DOMAIN l : l[i] \in 0..MaxTime /\ l[i] <= t
  BY DEF Explains
<1>2. /\ m \in Seq(0..MaxTime) /\ Len(m) = n + 1 /\ DOMAIN m = 1..(n + 1) /\ m[n + 1] = t
      /\ \A i \in 1..n : m[i] = l[i]
  BY <1>1
<1>3. e.count \in Nat /\ e.expires \in Nat
  BY DEF Explains, Counters
<1>4. k \in Nat /\ k < MaxAttempts /\ x \in Nat /\ x > t /\ x <= t + AttemptWindow
  <2>1. CASE e.expires <= t
    BY <1>1, <2>1 DEF CountOf
  <2>2. CASE ~(e.expires <= t)
    BY <1>1, <1>3, <2>2 DEF CountOf, Explains
  <2> QED
    BY <2>1, <2>2
<1>5. ASSUME NEW i \in 1..n
      PROVE  /\ i <= n - k => l[i] + AttemptWindow <= x
             /\ i <= n - k - MaxAttempts => l[i] + 2 * AttemptWindow <= x
  <2>1. CASE e.expires <= t
    <3>1. k = 0 /\ x = t + AttemptWindow
      BY <2>1 DEF CountOf
    <3>2. i <= n - MaxAttempts => l[i] + AttemptWindow <= t
      <4>1. ~(e.expires > t)
        BY <1>1, <1>3, <2>1
      <4>2. \A h \in DOMAIN l : h <= Len(l) - MaxAttempts => l[h] + AttemptWindow <= t
        BY <4>1 DEF Explains
      <4> QED
        BY <1>1, <4>2
    <3>3. l[i] \in Nat /\ l[i] <= t
      BY <1>1
    <3> HIDE DEF k, x, n
    <3> QED
      BY <1>1, <3>1, <3>2, <3>3
  <2>2. CASE ~(e.expires <= t)
    <3>1. k = e.count /\ x = e.expires
      BY <2>2 DEF CountOf
    <3>2. e.expires > t
      BY <1>1, <1>3, <2>2
    <3>3. \A h \in DOMAIN l :
            /\ h <= Len(l) - e.count => l[h] + AttemptWindow <= e.expires
            /\ h <= Len(l) - e.count - MaxAttempts => l[h] + 2 * AttemptWindow <= e.expires
      BY <3>2 DEF Explains
    <3> HIDE DEF k, x
    <3> QED
      BY <1>1, <3>1, <3>3
  <2> QED
    BY <2>1, <2>2
<1>0. CountedEntry(e, t) = new
  BY DEF CountedEntry
<1>6. new \in Counters /\ new.count = k + 1 /\ new.expires = x
  BY <1>4 DEF Counters
<1> HIDE DEF m, n, k, x, new
<1>7. ASSUME NEW i \in DOMAIN m
      PROVE  /\ m[i] <= t
             /\ i <= Len(m) - new.count => m[i] + AttemptWindow <= x
             /\ i <= Len(m) - new.count - MaxAttempts => m[i] + 2 * AttemptWindow <= x
  <2>0. Len(m) - new.count = n - k /\ n - k <= n
    <3>1. n \in Int /\ k \in Int /\ k >= 0
      BY <1>1, <1>4
    <3> QED
      BY <1>2, <1>6, <3>1, BothOneMore
  <2>1. CASE i = n + 1
    <3>1. ~(i <= n - k) /\ ~(i <= n - k - MaxAttempts)
      BY <1>1, <1>4, <2>1
    <3> QED
      BY <1>1, <1>2, <2>0, <2>1, <3>1
  <2>2. CASE i # n + 1
    <3>1. i \in 1..n /\ m[i] = l[i]
      BY <1>1, <1>2, <2>2
    <3> QED
      BY <1>1, <1>5, <2>0, <3>1
  <2> QED
    BY <2>1, <2>2
<1>8. ASSUME NEW i \in DOMAIN m, NEW j \in DOMAIN m, j = i + 2 * MaxAttempts
      PROVE  m[j] >= m[i] + AttemptWindow
  <2>1. CASE j = n + 1
    <3>1. i \in 1..n /\ i <= n - k - MaxAttempts
      BY <1>1, <1>2, <1>4, <1>8, <2>1
    <3>2. l[i] + 2 * AttemptWindow <= x /\ l[i] \in 0..MaxTime
      BY <3>1, <1>5, <1>1
    <3>3. m[j] = t /\ m[i] = l[i]
      BY <3>1, <1>2, <2>1
    <3> QED
      BY <3>2, <3>3, <1>1, <1>4
  <2>2. CASE j # n + 1
    <3>1. i \in DOMAIN l /\ j \in DOMAIN l /\ m[i] = l[i] /\ m[j] = l[j]
      BY <1>1, <1>2, <1>8, <2>2
    <3> QED
      BY <3>1, <1>8 DEF Spaced
  <2> QED
    BY <2>1, <2>2
<1>9. Explains(new, m, t)
  <2>1. new.count <= MaxAttempts /\ new.expires > t /\ new.expires <= t + AttemptWindow
    BY <1>4, <1>6
  <2> QED
    BY <1>2, <1>6, <1>7, <2>1 DEF Explains
<1>10. Spaced(m)
  BY <1>8 DEF Spaced
<1> QED
  BY <1>0, <1>9, <1>10 DEF m

\* What UnlockAttempt does to the table and to the attempts.
LEMMA AttemptTaken ==
  ASSUME ShareInv, ReqInv, AttemptInv, NEW r \in Requests, NEW right \in BOOLEAN, UnlockAttempt(r, right)
  PROVE  LET sc == <<req[r].share, req[r].client>>
             swept == Swept(attempts, sc)
         IN  /\ sc \in Shares \X Clients
             /\ \/ attempts' = swept /\ UNCHANGED tries
                \/ /\ CountOf(attempts[sc], clock) < MaxAttempts
                   /\ Over(attempts[sc]) => Cardinality(Entries(swept)) < MaxAttemptKeys
                   /\ attempts' = [swept EXCEPT ![sc] = CountedEntry(attempts[sc], clock)]
                   /\ tries' = [tries EXCEPT ![sc] = Append(@, clock)]
<1> DEFINE sc == <<req[r].share, req[r].client>>
<1>1. req[r].pc = "unlock"
  BY DEF UnlockAttempt
<1>2. sc \in Shares \X Clients
  BY <1>1 DEF ReqInv
<1>3. \/ attempts' = Swept(attempts, sc) /\ UNCHANGED tries
      \/ AttemptAllowed(sc) /\ allowSecretAttempt(sc)
  BY DEF UnlockAttempt
<1> HIDE DEF sc
<1>4. Counted(sc) = CountOf(attempts[sc], clock)
  BY DEF Counted, Fresh, Over, CountOf
<1>5. [count |-> Counted(sc) + 1,
       expires |-> IF Fresh(sc) THEN clock + AttemptWindow ELSE attempts[sc].expires]
        = CountedEntry(attempts[sc], clock)
  BY <1>4 DEF Fresh, Over, CountedEntry
<1>6. AttemptAllowed(sc) =>
        /\ CountOf(attempts[sc], clock) < MaxAttempts
        /\ Over(attempts[sc]) => Cardinality(Entries(Swept(attempts, sc))) < MaxAttemptKeys
  BY <1>4, Zenon DEF AttemptAllowed, Fresh
<1>7. allowSecretAttempt(sc) =>
        /\ attempts' = [Swept(attempts, sc) EXCEPT ![sc] = CountedEntry(attempts[sc], clock)]
        /\ tries' = [tries EXCEPT ![sc] = Append(@, clock)]
  BY <1>5, Zenon DEF allowSecretAttempt
<1>8. /\ sc \in Shares \X Clients
      /\ \/ attempts' = Swept(attempts, sc) /\ UNCHANGED tries
         \/ /\ CountOf(attempts[sc], clock) < MaxAttempts
            /\ Over(attempts[sc]) => Cardinality(Entries(Swept(attempts, sc))) < MaxAttemptKeys
            /\ attempts' = [Swept(attempts, sc) EXCEPT ![sc] = CountedEntry(attempts[sc], clock)]
            /\ tries' = [tries EXCEPT ![sc] = Append(@, clock)]
  BY <1>2, <1>3, <1>6, <1>7, Zenon
<1> QED
  BY <1>8 DEF sc

\* The sweep takes only what is over.
LEMMA SweptEntries ==
  ASSUME AttemptInv, NEW sc
  PROVE  LET swept == Swept(attempts, sc)
         IN  /\ swept = [x \in Shares \X Clients |-> swept[x]]
             /\ \A x \in Shares \X Clients :
                  swept[x] = attempts[x] \/ (swept[x] = NoEntry /\ Over(attempts[x]))
  BY DEF AttemptInv, Swept

\* Only these touch the attempts.
LEMMA DoorAttempts ==
  ASSUME DoorMove
  PROVE  \/ UNCHANGED <<attempts, tries>> /\ Comparing' \in SUBSET Comparing
         \/ \E r \in Requests, right \in BOOLEAN : UnlockAttempt(r, right)
         \/ \E r \in Requests : UnlockFinish(r)
<1>1. ASSUME NEW r \in Requests, NEW s \in Shares, NEW c \in Clients, NEW v \in Users \cup {None},
             UnlockBegin(r, s, c, v) \/ DownloadOpen(r, s, c, v)
      PROVE  UNCHANGED <<attempts, tries>> /\ Comparing' \in SUBSET Comparing
  <2>1. UNCHANGED <<attempts, tries>>
    BY <1>1 DEF UnlockBegin, DownloadOpen, past
  <2>2. \E x : req' = [req EXCEPT ![r] = x] /\ x.pc # "compare"
    BY <1>1 DEF UnlockBegin, DownloadOpen
  <2>3. Comparing' \in SUBSET Comparing
    BY <2>2 DEF Comparing
  <2> QED
    BY <2>1, <2>3
<1>2. ASSUME NEW r \in Requests, DownloadCommit(r)
      PROVE  UNCHANGED <<attempts, tries>> /\ Comparing' \in SUBSET Comparing
  <2>1. UNCHANGED <<attempts, tries>> /\ req' = [req EXCEPT ![r] = Idle]
    BY <1>2 DEF DownloadCommit
  <2> QED
    BY <2>1, IdleType DEF Comparing
<1> QED
  BY <1>1, <1>2, Zenon DEF DoorMove

\* The attempts of every client stay explained, and spaced, whoever is swept, refused or let in.
LEMMA AttemptStep ==
  ASSUME ShareInv, ReqInv, AttemptInv, [Next]_vars
  PROVE  AttemptInv'
<1> USE Bounds
<1>0. clock \in 0..MaxTime /\ clock \in Nat
  BY DEF ShareInv
<1>1. ASSUME NEW r \in Requests, NEW right \in BOOLEAN, UnlockAttempt(r, right), UNCHANGED clock
      PROVE  AttemptInv'
  <2> DEFINE sc == <<req[r].share, req[r].client>>
             swept == Swept(attempts, sc)
             new == CountedEntry(attempts[sc], clock)
             more == Append(tries[sc], clock)
  <2>1. /\ sc \in Shares \X Clients
        /\ \/ attempts' = swept /\ UNCHANGED tries
           \/ /\ CountOf(attempts[sc], clock) < MaxAttempts
              /\ attempts' = [swept EXCEPT ![sc] = new]
              /\ tries' = [tries EXCEPT ![sc] = Append(@, clock)]
    BY <1>1, AttemptTaken, Zenon
  <2>2. /\ swept = [x \in Shares \X Clients |-> swept[x]]
        /\ \A x \in Shares \X Clients :
             swept[x] = attempts[x] \/ (swept[x] = NoEntry /\ Over(attempts[x]))
    BY SweptEntries
  <2>3. ASSUME NEW x \in Shares \X Clients PROVE Explains(swept[x], tries[x], clock) /\ Spaced(tries[x])
    <3>1. Explains(attempts[x], tries[x], clock) /\ Spaced(tries[x])
      BY DEF AttemptInv
    <3>2. Over(attempts[x]) => ~(attempts[x].expires > clock)
      BY <1>0, <3>1 DEF Over, Explains, Counters
    <3> QED
      BY <1>0, <2>2, <3>1, <3>2, ExplainsOver
  <2>4. CountOf(attempts[sc], clock) < MaxAttempts => Explains(new, more, clock) /\ Spaced(more)
    BY <1>0, <2>1, ExplainsCounted DEF AttemptInv
  <2> HIDE DEF sc, swept, new, more
  <2>5. CASE attempts' = swept /\ UNCHANGED tries
    BY <1>1, <2>2, <2>3, <2>5 DEF AttemptInv
  <2>6. CASE /\ CountOf(attempts[sc], clock) < MaxAttempts
             /\ attempts' = [swept EXCEPT ![sc] = new]
             /\ tries' = [tries EXCEPT ![sc] = Append(@, clock)]
    <3>1. attempts' = [x \in Shares \X Clients |-> attempts'[x]]
          /\ tries' = [x \in Shares \X Clients |-> tries'[x]]
      BY <2>2, <2>6 DEF AttemptInv
    <3>2. ASSUME NEW x \in Shares \X Clients
          PROVE  Explains(attempts'[x], tries'[x], clock) /\ Spaced(tries'[x])
      <4>1. CASE x = sc
        <5>1. attempts'[x] = new /\ tries'[x] = more
          BY <2>1, <2>2, <2>6, <4>1 DEF AttemptInv, more
        <5> QED
          BY <5>1, <2>4, <2>6
      <4>2. CASE x # sc
        <5>1. attempts'[x] = swept[x] /\ tries'[x] = tries[x]
          BY <2>2, <2>6, <4>2 DEF AttemptInv
        <5> QED
          BY <5>1, <2>3
      <4> QED
        BY <4>1, <4>2
    <3> QED
      BY <1>1, <3>1, <3>2 DEF AttemptInv
  <2> QED
    BY <2>1, <2>5, <2>6
<1>2. ASSUME NEW r \in Requests, UnlockFinish(r), UNCHANGED clock PROVE AttemptInv'
  <2> DEFINE sc == <<req[r].share, req[r].client>>
  <2>1. \/ UNCHANGED <<attempts, tries>>
        \/ attempts' = [attempts EXCEPT ![sc] = NoEntry] /\ tries' = [tries EXCEPT ![sc] = NoTries]
    BY <1>2 DEF UnlockFinish, clearSecretAttempts
  <2> HIDE DEF sc
  <2> QED
    BY <1>0, <1>2, <2>1, ExplainsNothing DEF AttemptInv
<1>3. CASE Tick
  <2>1. clock' \in Nat /\ clock <= clock' /\ UNCHANGED <<attempts, tries>>
    BY <1>0, <1>3 DEF Tick, door, past
  <2> QED
    BY <1>0, <2>1, ExplainsLater DEF AttemptInv
<1>4. CASE Restart
  BY <1>0, <1>4, ExplainsNothing DEF Restart, AttemptInv
<1>5. CASE UNCHANGED <<attempts, tries, clock>>
  BY <1>5 DEF AttemptInv
<1>6. CASE DoorMove /\ UNCHANGED <<active, store, key, clock, crashes>>
  BY <1>1, <1>2, <1>5, <1>6, DoorAttempts
<1> QED
  BY <1>3, <1>4, <1>5, <1>6, Moves DEF vars, door, past

\* No more comparisons than the gate lets in, no more entries than the table holds.
GateInv ==
  /\ Cardinality(Comparing) <= BcryptGate
  /\ Cardinality(Entries(attempts)) <= MaxAttemptKeys

LEMMA SmallSets ==
  /\ \A S \in SUBSET Requests : IsFiniteSet(S) /\ Cardinality(S) \in Nat
  /\ \A S \in SUBSET (Shares \X Clients) : IsFiniteSet(S) /\ Cardinality(S) \in Nat
<1>1. IsFiniteSet(Shares \X Clients)
  BY Bounds, FS_Product
<1> QED
  BY <1>1, Bounds, FS_Subset, FS_CardinalityType

LEMMA GateStep ==
  ASSUME ShareInv, ReqInv, AttemptInv, AttemptInv', GateInv, [Next]_vars
  PROVE  GateInv'
<1> USE Bounds
<1>0. /\ Comparing \in SUBSET Requests /\ Comparing' \in SUBSET Requests
      /\ Entries(attempts) \in SUBSET (Shares \X Clients)
      /\ Entries(attempts') \in SUBSET (Shares \X Clients)
  BY DEF Comparing, Entries, AttemptInv
<1>1. ASSUME Comparing' \in SUBSET Comparing PROVE Cardinality(Comparing') <= BcryptGate
  BY <1>0, <1>1, SmallSets, Fewer DEF GateInv
<1>2. ASSUME Entries(attempts') \in SUBSET Entries(attempts)
      PROVE  Cardinality(Entries(attempts')) <= MaxAttemptKeys
  BY <1>0, <1>2, SmallSets, Fewer DEF GateInv
<1>3. ASSUME NEW r \in Requests, NEW right \in BOOLEAN, UnlockAttempt(r, right) PROVE GateInv'
  <2>1. Cardinality(Comparing') <= BcryptGate
    <3>1. CASE req' = [req EXCEPT ![r] = Idle]
      <4>1. Comparing' \in SUBSET Comparing
        BY <3>1, IdleType DEF Comparing
      <4> QED
        BY <4>1, <1>1
    <3>2. CASE Cardinality(Comparing) < BcryptGate /\ \E x : req' = [req EXCEPT ![r] = x]
      <4>1. Comparing' \in SUBSET (Comparing \cup {r})
        BY <3>2 DEF Comparing, ReqInv
      <4>2. Cardinality(Comparing') <= Cardinality(Comparing) + 1
        BY <4>1, <1>0, SmallSets, OneMore
      <4>3. Cardinality(Comparing') \in Nat /\ Cardinality(Comparing) \in Nat
        BY <1>0, SmallSets
      <4> QED
        BY <4>2, <4>3, <3>2
    <3>3. \/ req' = [req EXCEPT ![r] = Idle]
          \/ Cardinality(Comparing) < BcryptGate /\ \E x : req' = [req EXCEPT ![r] = x]
      <4>1. CASE Cardinality(Comparing) < BcryptGate
        <5>1. req' = [req EXCEPT ![r] = [req[r] EXCEPT !.pc = "compare", !.right = right]]
              \/ req' = [req EXCEPT ![r] = Idle]
          BY <1>3 DEF UnlockAttempt
        <5> QED
          BY <4>1, <5>1
      <4>2. CASE ~(Cardinality(Comparing) < BcryptGate)
        BY <1>3, <4>2 DEF UnlockAttempt
      <4> QED
        BY <4>1, <4>2
    <3> QED
      BY <3>1, <3>2, <3>3
  <2>2. Cardinality(Entries(attempts')) <= MaxAttemptKeys
    <3> DEFINE sc == <<req[r].share, req[r].client>>
               S == Swept(attempts, sc)
    <3>1. /\ sc \in Shares \X Clients
          /\ \/ attempts' = S
             \/ /\ Over(attempts[sc]) => Cardinality(Entries(S)) < MaxAttemptKeys
                /\ \E x : attempts' = [S EXCEPT ![sc] = x]
      BY <1>3, AttemptTaken, Zenon
    <3>2. /\ S = [x \in Shares \X Clients |-> S[x]]
          /\ \A x \in Shares \X Clients : S[x] = attempts[x] \/ (S[x] = NoEntry /\ Over(attempts[x]))
      BY SweptEntries
    <3> HIDE DEF S, sc
    <3>3. Entries(S) \in SUBSET Entries(attempts) /\ Entries(S) \in SUBSET (Shares \X Clients)
      BY <3>2 DEF Entries, AttemptInv
    <3>4. Cardinality(Entries(S)) <= MaxAttemptKeys
      BY <1>0, <3>3, SmallSets, Fewer DEF GateInv
    <3>5. CASE attempts' = S
      BY <3>4, <3>5
    <3>6. ASSUME NEW x, attempts' = [S EXCEPT ![sc] = x],
                 Over(attempts[sc]) => Cardinality(Entries(S)) < MaxAttemptKeys
          PROVE  Cardinality(Entries(attempts')) <= MaxAttemptKeys
      <4>1. Entries(attempts') \in SUBSET (Entries(S) \cup {sc})
        BY <3>2, <3>6 DEF Entries
      <4>2. CASE Over(attempts[sc])
        <5>1. Cardinality(Entries(attempts')) <= Cardinality(Entries(S)) + 1
          BY <4>1, <3>3, SmallSets, OneMore
        <5>2. Cardinality(Entries(attempts')) \in Nat /\ Cardinality(Entries(S)) \in Nat
          BY <1>0, <3>3, SmallSets
        <5> QED
          BY <5>1, <5>2, <4>2, <3>6
      <4>3. CASE ~Over(attempts[sc])
        <5>1. S[sc] = attempts[sc]
          BY <3>1, <3>2, <4>3
        <5>2. Over(NoEntry)
          BY DEF Over, NoEntry, ShareInv
        <5>3. sc \in Entries(S)
          BY <3>1, <3>2, <4>3, <5>1, <5>2 DEF Entries
        <5>4. Entries(attempts') \in SUBSET Entries(S)
          BY <4>1, <5>3
        <5> QED
          BY <5>4, <3>3, <3>4, SmallSets, Fewer
      <4> QED
        BY <4>2, <4>3
    <3> QED
      BY <3>1, <3>5, <3>6
  <2> QED
    BY <2>1, <2>2 DEF GateInv, Entries
<1>4. ASSUME NEW r \in Requests, UnlockFinish(r) PROVE GateInv'
  <2>1. Comparing' \in SUBSET Comparing
    <3>1. req' = [req EXCEPT ![r] = Idle]
      BY <1>4 DEF UnlockFinish
    <3> QED
      BY <3>1, IdleType DEF Comparing
  <2>2. Entries(attempts') \in SUBSET Entries(attempts)
    <3>1. attempts' = attempts \/ \E sc : attempts' = [attempts EXCEPT ![sc] = NoEntry]
      BY <1>4 DEF UnlockFinish, clearSecretAttempts
    <3> QED
      BY <3>1 DEF Entries
  <2> QED
    BY <2>1, <2>2, <1>1, <1>2 DEF GateInv, Entries
<1>5. CASE Restart
  <2>1. Comparing' \in SUBSET Comparing
    BY <1>5, IdleType DEF Restart, Comparing
  <2>2. Entries(attempts') \in SUBSET Entries(attempts)
    BY <1>5 DEF Restart, Entries
  <2> QED
    BY <2>1, <2>2, <1>1, <1>2 DEF GateInv, Entries
<1>6. ASSUME UNCHANGED attempts, Comparing' \in SUBSET Comparing PROVE GateInv'
  BY <1>1, <1>6 DEF GateInv, Entries
<1>7. CASE UNCHANGED <<req, attempts>>
  BY <1>6, <1>7 DEF Comparing
<1>8. CASE DoorMove /\ UNCHANGED <<active, store, key, clock, crashes>>
  BY <1>3, <1>4, <1>6, <1>8, DoorAttempts
<1> QED
  BY <1>5, <1>7, <1>8, Moves DEF vars, door, Tick

-----------------------------------------------------------------------------
(* The invariant and what it shows *)

Inv ==
  /\ StoreInv /\ QuotaInv /\ DiskInv
  /\ ShareInv /\ ReqInv /\ JarInv /\ AttemptInv /\ GateInv

LEMMA InvInit == Init => Inv
<1> SUFFICES ASSUME Init PROVE Inv
  OBVIOUS
<1> USE Bounds
<1>1. StoreInv
  <2>1. StoreTypes
    BY DEF Init, StoreTypes, NoUpload, Uploads, Steps
  <2>2. ASSUME NEW f \in Files PROVE FileInv(f)
    BY DEF Init, FileInv, NoUpload
  <2> QED
    BY <2>1, <2>2 DEF StoreInv
<1>2. QuotaInv
  <2>1. ASSUME NEW u \in Users PROVE Owned(u) = {}
    BY DEF Init, Owned
  <2>2. Cardinality({}) = 0 /\ SumOf(Size, {}) = 0
    BY FS_EmptySet, SumEmpty
  <2> QED
    BY <2>1, <2>2 DEF QuotaInv
<1>3. DiskInv
  <2>1. ASSUME NEW f \in Files PROVE Charges[f] = 0
    BY DEF Init, Charges, Charge, NoUpload, Staged
  <2>2. SumOf(Charges, Files) = 0
    BY <2>1, SumNone
  <2> QED
    BY <2>2 DEF DiskInv
<1>4. ShareInv
  BY NoShareType DEF Init, ShareInv
<1>5. ReqInv
  BY IdleType DEF Init, ReqInv
<1>6. JarInv
  BY DEF Init, JarInv, NoCookie, NoProof
<1>7. AttemptInv
  BY ExplainsNothing DEF Init, AttemptInv
<1>8. GateInv
  <2>1. Comparing = {} /\ Entries(attempts) = {}
    BY IdleType DEF Init, Comparing, Entries
  <2> QED
    BY <2>1, FS_EmptySet DEF GateInv
<1> QED
  BY <1>1, <1>2, <1>3, <1>4, <1>5, <1>6, <1>7, <1>8 DEF Inv

LEMMA LimitsStep ==
  ASSUME StoreInv, QuotaInv, DiskInv, [Next]_vars
  PROVE  StoreInv' /\ QuotaInv' /\ DiskInv'
<1>1. CASE StoreMove
  BY <1>1, StoreStep, QuotaStep, DiskStep
<1>2. CASE Restart
  BY <1>2, RestartStore, RestartLimits
<1>3. CASE UNCHANGED store
  <2>1. StoreInv'
    BY <1>3 DEF store, StoreInv, StoreTypes, FileInv
  <2>2. QuotaInv'
    BY <1>3 DEF store, QuotaInv, Owned, Size
  <2>3. DiskInv'
    BY <1>3 DEF store, DiskInv, Charges, Charge, Staged
  <2> QED
    BY <2>1, <2>2, <2>3
<1> QED
  BY <1>1, <1>2, <1>3, Moves DEF Tick, vars

LEMMA InvStep == Inv /\ [Next]_vars => Inv'
  BY LimitsStep, ShareStep, ReqStep, JarStep, AttemptStep, GateStep DEF Inv

LEMMA InvHolds == Spec => []Inv
  BY InvInit, InvStep, PTL DEF Spec

LEMMA InvTypes == Inv => TypeOK
<1> SUFFICES ASSUME Inv PROVE TypeOK
  OBVIOUS
<1>1. /\ active \subseteq Users /\ clock \in 0..MaxTime /\ crashes \in 0..MaxCrashes
      /\ served \in [Shares -> Nat]
  BY DEF Inv, ShareInv
<1>2. /\ up \in [Files -> [pc : {"idle", "slot", "staged", "stored", "unknown", "done"},
                           owner : Users \cup {None}, size : Nat]]
      /\ row \in [Files -> {"none", "live", "deleted"}]
      /\ bytes \subseteq Files /\ removing \subseteq Files /\ strays \subseteq Files
      /\ debris \subseteq Files
  BY DEF Inv, StoreInv, StoreTypes, Uploads, Steps
<1>3. share \in [Shares -> [file : Files \cup {None},
                            access : {"none", "public", "authenticated", "members"},
                            members : SUBSET Users, secret : {"none", "code", "password"},
                            expires : Nat, max : Nat, count : Nat, revoked : BOOLEAN]]
  <2> DEFINE R == [file : Files \cup {None}, access : {"none", "public", "authenticated", "members"},
                   members : SUBSET Users, secret : {"none", "code", "password"},
                   expires : Nat, max : Nat, count : Nat, revoked : BOOLEAN]
  <2>1. ASSUME NEW s \in Shares PROVE share[s] \in R
    <3>1. IsShare(share[s])
      BY DEF Inv, ShareInv
    <3> QED
      BY <3>1 DEF IsShare
  <2> HIDE DEF R
  <2>2. share \in [Shares -> R]
    BY <2>1, Zenon DEF Inv, ShareInv
  <2> QED
    BY <2>2 DEF R
<1>4. req \in [Requests -> [pc : {"idle", "unlock", "compare", "open"},
                            share : Shares \cup {None}, client : Clients \cup {None},
                            viewer : Users \cup {None}, until : Nat, right : BOOLEAN]]
  <2> DEFINE R == [pc : {"idle", "unlock", "compare", "open"},
                   share : Shares \cup {None}, client : Clients \cup {None},
                   viewer : Users \cup {None}, until : Nat, right : BOOLEAN]
  <2>1. ASSUME NEW r \in Requests PROVE req[r] \in R
    <3>1. IsReq(req[r])
      BY DEF Inv, ReqInv
    <3> QED
      BY <3>1 DEF IsReq
  <2> HIDE DEF R
  <2>2. req \in [Requests -> R]
    BY <2>1, Zenon DEF Inv, ReqInv
  <2> QED
    BY <2>2 DEF R
<1>5. attempts \in [Shares \X Clients -> [count : Nat, expires : Nat]]
  <2>1. \A sc \in Shares \X Clients : attempts[sc] \in Counters
    BY DEF Inv, AttemptInv, Explains
  <2>2. attempts \in [Shares \X Clients -> Counters]
    BY <2>1, Zenon DEF Inv, AttemptInv
  <2> QED
    BY <2>2 DEF Counters
<1>6. tries \in [Shares \X Clients -> Seq(0..MaxTime)]
  <2>1. \A sc \in Shares \X Clients : tries[sc] \in Seq(0..MaxTime)
    BY DEF Inv, AttemptInv, Explains
  <2> QED
    BY <2>1, Zenon DEF Inv, AttemptInv
<1>7. /\ jar \in [Shares \X Clients -> [key : Nat, until : Nat]] /\ key \in Nat
      /\ knows \in [Shares \X Clients -> [key : Nat, at : Nat]]
  BY DEF Inv, JarInv
<1> QED
  BY <1>1, <1>2, <1>3, <1>4, <1>5, <1>6, <1>7, Zenon DEF TypeOK

\* The bytes of every live file are in place, and bytes without a row belong to an upload or a delete
\* under way or to a removal that was given up, for any number of uploads, deletes, unknown commits
\* and crashes (UploadReserved, resolveUploadCommit, Delete).
THEOREM FilesAgreeWithRows == Spec => []FilesMatchRows
<1>1. ASSUME Inv PROVE LiveFilesKept
  BY <1>1 DEF Inv, StoreInv, FileInv, LiveFilesKept
<1>2. ASSUME Inv PROVE BytesAccounted
  <2> SUFFICES ASSUME NEW f \in bytes PROVE row[f] = "live" \/ f \in Uploading \cup removing \cup strays
    BY DEF BytesAccounted
  <2>1. f \in Files /\ FileInv(f) /\ row[f] \in {"none", "live", "deleted"}
    BY <1>2 DEF Inv, StoreInv, StoreTypes
  <2> QED
    BY <2>1 DEF FileInv, Uploading
<1>3. Inv => FilesMatchRows
  BY <1>1, <1>2, InvTypes DEF FilesMatchRows
<1> QED
  BY InvHolds, <1>3, PTL

\* No user's quota, no disk and no share is exhausted by requests that run side by side, for any
\* number of users, files, shares and requests and any sizes (checkQuota, AcquireUpload,
\* IncrementDownloadCount).
THEOREM LimitsHold == Spec => []WithinLimits
<1>1. ASSUME Inv PROVE WithinQuota
  <2> SUFFICES ASSUME NEW u \in Users
               PROVE  Cardinality(Owned(u)) <= MaxFilesPerUser /\ Bytes(Owned(u)) <= MaxUserBytes
    BY DEF WithinQuota
  <2>1. Owned(u) \in SUBSET Files
    BY DEF Owned
  <2>2. Bytes(Owned(u)) = SumOf(Size, Owned(u))
    BY <2>1, BytesSum DEF BytesAreSums
  <2> QED
    BY <1>1, <2>2 DEF Inv, QuotaInv
<1>2. ASSUME Inv PROVE DiskFloor
  <2> DEFINE a == SumOf(Size, bytes)
             b == SumOf(Size, Staged \cup debris)
             c == SumOf(Charges, Files)
             n == Cardinality(Staged \cup debris)
  <2>0. StoreInv /\ DiskInv
    BY <1>2 DEF Inv
  <2>1. a + b <= c + n
    BY <2>0, WrittenCovered
  <2>2. c + MinFreeDiskBytes <= DiskBytes
    BY <2>0 DEF DiskInv
  <2>3. bytes \in SUBSET Files /\ Staged \cup debris \in SUBSET Files
    BY <2>0, DiskSets
  <2>4. Bytes(bytes) = a /\ Bytes(Staged \cup debris) = b
    BY <2>3, BytesSum DEF BytesAreSums
  <2>5. a \in Nat /\ b \in Nat /\ c \in Nat /\ n \in Nat
    <3>1. \A f \in Files : Size[f] \in Nat /\ Charges[f] \in Nat
      BY <2>0, SizeTypes
    <3> QED
      BY <2>3, <3>1, FileSets, SumType, Bounds
  <2>6. DiskFreeBytes = DiskBytes - a - b
    BY <2>4 DEF DiskFreeBytes
  <2> HIDE DEF a, b, c, n
  <2>7. DiskBytes - a - b >= MinFreeDiskBytes - n
    BY <2>1, <2>2, <2>5, Bounds
  <2> QED
    BY <2>6, <2>7 DEF DiskFloor, n
<1>3. ASSUME Inv PROVE CountsCover
  BY <1>3 DEF Inv, ShareInv, CountsCover
<1>4. Inv => WithinLimits
  BY <1>1, <1>2, <1>3 DEF WithinLimits
<1> QED
  BY InvHolds, <1>4, PTL

\* Between two right answers a client has at most twice the allowed attempts within a window, and
\* the comparisons and the table of attempts keep to their limits, for any number of clients, shares
\* and requests (allowSecretAttempt with its sweep, Unlock).
THEOREM AttemptsAreBounded == Spec => []AttemptsBounded
<1>1. Inv => AttemptsBounded
  BY DEF Inv, AttemptInv, GateInv, AttemptsBounded, AttemptsSpaced, Spaced
<1> QED
  BY InvHolds, <1>1, PTL

\* What a download finds when it may go ahead.
LEMMA AvailableAdmits ==
  ASSUME Inv, NEW r \in Requests, req[r].pc = "open",
         Downloadable(req[r].share, req[r].client, req[r].viewer)
  PROVE  Admitted(r)
<1> DEFINE s == req[r].share
           c == req[r].client
           v == req[r].viewer
           f == share[s].file
           sc == <<s, c>>
<1>1. s \in Shares /\ c \in Clients /\ share[s] # NoShare /\ sc \in Shares \X Clients
  BY DEF Inv, ReqInv
<1>2. f \in Files /\ row[f] # "none" /\ row[f] \in {"none", "live", "deleted"}
  BY <1>1 DEF Inv, ShareInv, StoreInv, StoreTypes
<1>3. {up[f].owner} \cup ({v} \ {None}) \subseteq active
  BY DEF Downloadable
<1>4. PublicState(s, v, grantAuthorized(s, c)) = "available"
  BY DEF Downloadable, Available
<1>5. /\ row[f] # "deleted" /\ ~share[s].revoked /\ ~Expired(s)
      /\ ~(share[s].access # "public" /\ v = None)
      /\ ~(share[s].access = "members" /\ v # up[f].owner /\ ~IsFileShareMember(s, v))
      /\ ~(share[s].secret # "none" /\ v # up[f].owner /\ ~grantAuthorized(s, c))
  <2> HIDE DEF s, c, v, f
  <2> DEFINE g == share[s].file
  <2>1. g = f
    BY DEF f
  <2> QED
    BY <1>4, <2>1 DEF PublicState
<1>6. grantAuthorized(s, c) => knows[sc].key = key /\ clock < knows[sc].at + GrantLifetime
  <2> SUFFICES ASSUME grantAuthorized(s, c)
               PROVE  knows[sc].key = key /\ clock < knows[sc].at + GrantLifetime
    OBVIOUS
  <2>1. jar[sc].key = key /\ jar[sc].until > clock
    BY Zenon DEF grantAuthorized
  <2> HIDE DEF sc, s, c
  <2>2. /\ key \in Nat /\ key > 0 /\ jar[sc].until \in Nat /\ knows[sc].at \in Nat /\ clock \in Nat
        /\ jar[sc].key = 0 \/ (knows[sc].key = jar[sc].key /\ jar[sc].until <= knows[sc].at + GrantLifetime)
    BY <1>1, Bounds DEF Inv, JarInv, ShareInv
  <2> QED
    BY <2>1, <2>2, Bounds
<1>7. {up[f].owner, v} \subseteq active \cup {None}
  BY <1>3
<1>8. row[f] = "live"
  BY <1>2, <1>5
<1> QED
  BY <1>5, <1>6, <1>7, <1>8, Zenon DEF Admitted, IsFileShareMember

\* Every download that is handed out is admitted at that moment, whatever happened to the share, the
\* file, the accounts or the process since the request opened the file (PrepareDownload).
THEOREM DownloadsAreAdmitted == Spec => DownloadsAdmitted
<1>1. ASSUME Inv, [Next]_vars, NEW s \in Shares, served'[s] > served[s]
      PROVE  \E r \in Requests : req[r].pc = "open" /\ req'[r].pc = "idle"
                                 /\ req[r].share = s /\ Admitted(r)
  <2>0. served'[s] # served[s]
    BY <1>1 DEF Inv, ShareInv
  <2>1. PICK r \in Requests : DownloadCommit(r)
    <3>1. DoorMove
      BY <1>1, <2>0, Moves DEF past, vars, Tick, Restart
    <3>2. ASSUME NEW r \in Requests, NEW t \in Shares, NEW c \in Clients, NEW v \in Users \cup {None},
                 UnlockBegin(r, t, c, v) \/ DownloadOpen(r, t, c, v)
          PROVE  UNCHANGED served
      BY <3>2 DEF UnlockBegin, DownloadOpen, past
    <3>3. ASSUME NEW r \in Requests, NEW right \in BOOLEAN, UnlockAttempt(r, right) PROVE UNCHANGED served
      BY <3>3 DEF UnlockAttempt
    <3>4. ASSUME NEW r \in Requests, UnlockFinish(r) PROVE UNCHANGED served
      BY <3>4 DEF UnlockFinish
    <3> QED
      BY <2>0, <3>1, <3>2, <3>3, <3>4, Zenon DEF DoorMove
  <2>2. /\ req[r].pc = "open" /\ req' = [req EXCEPT ![r] = Idle]
        /\ \/ UNCHANGED served
           \/ /\ Downloadable(req[r].share, req[r].client, req[r].viewer)
              /\ served' = [served EXCEPT ![req[r].share] = @ + 1]
    BY <2>1 DEF DownloadCommit
  <2>3. req'[r].pc = "idle"
    BY <1>1, <2>2, IdleType DEF Inv, ReqInv
  <2>4. req[r].share = s /\ Downloadable(req[r].share, req[r].client, req[r].viewer)
    BY <1>1, <2>0, <2>2 DEF Inv, ShareInv
  <2> QED
    BY <1>1, <2>2, <2>3, <2>4, AvailableAdmits
<1>2. Inv /\ [Next]_vars =>
        [\A s \in Shares : served'[s] > served[s] =>
           \E r \in Requests : req[r].pc = "open" /\ req'[r].pc = "idle"
                               /\ req[r].share = s /\ Admitted(r)]_vars
  BY <1>1
<1> QED
  BY InvHolds, <1>2, PTL DEF Spec, DownloadsAdmitted

=============================================================================
