------------------------------- MODULE Manuals -------------------------------
(***************************************************************************)
(* The manuals of one owner: their items, the files behind the items, and  *)
(* the uploads that put both there.                                        *)
(*                                                                         *)
(* The writing transactions of an owner are serialised by the owner's      *)
(* mutex and by the locked row of the manual, so each of them is one step. *)
(* An upload is many: it checks the owner, reserves disk space, writes a   *)
(* staging directory, makes a preview, renames the directory to its final  *)
(* place, and only then commits the row.  Its transaction may commit and   *)
(* still report an error; it is then looked up again before the directory  *)
(* is given up.  The process may crash between any two of these steps.     *)
(*                                                                         *)
(* A body stands for everything the request hash covers.  Names, texts,    *)
(* categories and access modes only change with the revision (the access   *)
(* rules are in CursorLists), so a patch of them is a patch of nothing.    *)
(* 0 and None stand for NULL.                                              *)
(***************************************************************************)
EXTENDS Integers, FiniteSets, FiniteSetsExt

CONSTANTS Manuals, Items, Requests, Keys, None,
          Bodies,              \* [kind, size] of what clients send
          \* manuals.* of the configuration
          MaxManualsPerUser, MaxItemsPerManual, MaxManualBytes, MaxUserBytes,
          MaxFileBytes, PDFPreviewOutputLimitBytes, MinFreeDiskBytes,
          MaxConcurrentPDFPreviews,
          DiskBytes,           \* size of the file system
          \* bounds of the model
          MaxRevision, MaxCrashes

ASSUME ManualsAssumption ==
  /\ {MaxManualsPerUser, MaxItemsPerManual, MaxManualBytes, MaxUserBytes, MaxFileBytes,
      PDFPreviewOutputLimitBytes, MinFreeDiskBytes, MaxConcurrentPDFPreviews,
      MaxRevision} \subseteq Nat \ {0}
  /\ DiskBytes >= MinFreeDiskBytes /\ DiskBytes \in Nat /\ MaxCrashes \in Nat
  /\ Bodies \subseteq [kind : {"text", "image", "pdf"}, size : 1..MaxFileBytes]
  /\ None \notin Items \cup Keys \cup Bodies \cup Manuals
  /\ \A S \in {Manuals, Items, Requests} : IsFiniteSet(S)

VARIABLES
  manual,    \* manuals
  item,      \* manual_items
  dirs,      \* final directories: bytes and whether a thumbnail is in it
  req,       \* uploads between their steps
  reserved,  \* reservedBytes of the process
  debris,    \* bytes of staging directories a crash left behind
  strays,    \* history: directories given up without being removed
  crashes

vars == <<manual, item, dirs, req, reserved, debris, strays, crashes>>

NoManual == [status |-> "none", rev |-> 0, cover |-> None, key |-> None, body |-> None]
NoItem   == [manual |-> None, key |-> None, body |-> None, pos |-> 0, deleted |-> FALSE,
             preview |-> "none"]
NoDir    == [bytes |-> 0, thumb |-> FALSE]
Idle     == [pc |-> "idle", manual |-> None, key |-> None, body |-> None, item |-> None,
             preview |-> "none"]

Init ==
  /\ manual = [m \in Manuals |-> NoManual]
  /\ item = [i \in Items |-> NoItem]
  /\ dirs = [i \in Items |-> NoDir]
  /\ req = [r \in Requests |-> Idle]
  /\ reserved = 0 /\ debris = 0 /\ strays = {} /\ crashes = 0

-----------------------------------------------------------------------------
Rows(m)   == {i \in Items : item[i].manual = m}
Active(m) == {i \in Rows(m) : ~item[i].deleted}
Exists(m) == manual[m].status \in {"draft", "active"}

\* Deleted items, and those of deleted manuals, keep counting: their files stay.
SumBytes(S) == MapThenSumSet(LAMBDA i : item[i].body.size, S)
SumManualItemBytes(m) == SumBytes(Rows(m))
SumUserManualItemBytes == SumBytes({i \in Items : item[i].manual # None})

FindActive(m, key) == {i \in Active(m) : item[i].key = key}

\* FindManualItemByRequestID, deleted items included.
Find(m, key) == {i \in Rows(m) : item[i].key = key}

\* Ids are 63 random bits: no live one is drawn again.
Fresh(i) ==
  /\ item[i] = NoItem /\ dirs[i] = NoDir
  /\ \A r \in Requests : req[r].item # i

\* A directory with a preview, which is bounded by the preview's output limit.
Bytes(body, preview) ==
  body.size + IF preview = "ready" THEN PDFPreviewOutputLimitBytes ELSE 0

StagingBytes(r) ==
  CASE req[r].pc \in {"staged", "gate"} -> req[r].body.size
    [] req[r].pc = "inspected" -> Bytes(req[r].body, req[r].preview)
    [] OTHER -> 0

Staged == MapThenSumSet(StagingBytes, Requests)
DiskFreeBytes ==
  DiskBytes - debris - Staged - MapThenSumSet(LAMBDA i : dirs[i].bytes, Items)

-----------------------------------------------------------------------------
(***************************************************************************)
(* Manuals and inline items.                                               *)
(***************************************************************************)

CountUserManuals == Cardinality({m \in Manuals : Exists(m)})

\* A repeated request finds the row it made before and changes nothing.
Create(m, key, body) ==
  /\ manual[m] = NoManual
  /\ \A x \in Manuals : manual[x].key # key
  /\ CountUserManuals < MaxManualsPerUser
  /\ manual' = [manual EXCEPT ![m] = [status |-> "draft", rev |-> 1, cover |-> None,
                                      key |-> key, body |-> body]]
  /\ UNCHANGED <<item, dirs, req, reserved, debris, strays, crashes>>

checkItemQuota(m, size) ==
  /\ Cardinality(Active(m)) < MaxItemsPerManual
  /\ SumManualItemBytes(m) + size <= MaxManualBytes
  /\ SumUserManualItemBytes + size <= MaxUserBytes

InsertKeepingRevision(m, i, key, body, preview) ==
  /\ Exists(m) /\ Find(m, key) = {} /\ checkItemQuota(m, body.size)
  /\ item' = [item EXCEPT ![i] = [manual |-> m, key |-> key, body |-> body,
                                  pos |-> Cardinality(Active(m)) + 1, deleted |-> FALSE,
                                  preview |-> preview]]
  /\ UNCHANGED manual

\* The part of appendItem that inserts: the request id is new.
Insert(m, i, key, body, preview) ==
  /\ Exists(m) /\ Find(m, key) = {}
  /\ checkItemQuota(m, body.size)
  /\ manual[m].rev < MaxRevision
  /\ item' = [item EXCEPT ![i] = [manual |-> m, key |-> key, body |-> body,
                                  pos |-> Cardinality(Active(m)) + 1, deleted |-> FALSE,
                                  preview |-> preview]]
  /\ manual' = [manual EXCEPT ![m].rev = @ + 1]

AddInline(m, i, key, body) ==
  /\ body.kind = "text" /\ Fresh(i)
  /\ Insert(m, i, key, body, "none")
  /\ UNCHANGED <<dirs, req, reserved, debris, strays, crashes>>

\* parseCompleteItemOrder: every active item once, at the positions 1..n.
Orders(m) ==
  {f \in [Active(m) -> 1..Cardinality(Active(m))] :
     \A a, b \in Active(m) : f[a] = f[b] => a = b}

\* patchItems: the new order of the items.
PatchItems(m, order) ==
  [i \in Items |-> IF i \in Active(m) THEN [item[i] EXCEPT !.pos = order[i]] ELSE item[i]]

\* applyManualPatch; "keep" leaves a field out of the patch.
Update(m, status, cover, order) ==
  /\ Exists(m) /\ manual[m].rev < MaxRevision
  /\ cover \in Active(m) \cup {None, "keep"}
  /\ status \in {"keep", manual[m].status, "active"}
  /\ status = "active" => Active(m) # {}
  /\ manual' = [manual EXCEPT ![m].rev = @ + 1,
                              ![m].status = IF status = "keep" THEN @ ELSE status,
                              ![m].cover = IF cover = "keep" THEN @ ELSE cover]
  /\ item' = PatchItems(m, order)
  /\ UNCHANGED <<dirs, req, reserved, debris, strays, crashes>>

\* Delete keeps the items and their files.
Delete(m) ==
  /\ Exists(m) /\ manual[m].rev < MaxRevision
  /\ manual' = [manual EXCEPT ![m].rev = @ + 1, ![m].status = "deleted"]
  /\ UNCHANGED <<item, dirs, req, reserved, debris, strays, crashes>>

\* What is left of the items, and of the cover, without item i.
CompactManualItemPositions(m, i) ==
  [x \in Items |->
     IF x = i THEN [item[x] EXCEPT !.deleted = TRUE]
     ELSE IF x \in Active(m) /\ item[x].pos > item[i].pos
     THEN [item[x] EXCEPT !.pos = @ - 1] ELSE item[x]]

CoverWithout(m, i) == IF manual[m].cover = i THEN None ELSE manual[m].cover

Deletable(m, i) == i \in Active(m) /\ (manual[m].status = "active" => Active(m) # {i})

DeleteItem(m, i) ==
  /\ Exists(m) /\ manual[m].rev < MaxRevision
  /\ Deletable(m, i)
  /\ item' = CompactManualItemPositions(m, i)
  /\ manual' = [manual EXCEPT ![m].rev = @ + 1, ![m].cover = CoverWithout(m, i)]
  /\ UNCHANGED <<dirs, req, reserved, debris, strays, crashes>>

-----------------------------------------------------------------------------
(***************************************************************************)
(* Uploads.                                                                *)
(***************************************************************************)

\* The handler ends: its reservation is released and its staging directory,
\* if there is one, removed.
End(r) ==
  /\ req' = [req EXCEPT ![r] = Idle]
  /\ reserved' = reserved - (MaxFileBytes + PDFPreviewOutputLimitBytes)

\* CheckUploadOwner, before anything is locked or reserved.
CheckUploadOwner(r, m) ==
  /\ req[r].pc = "idle" /\ Exists(m)
  /\ req' = [req EXCEPT ![r] = [Idle EXCEPT !.pc = "checked", !.manual = m]]
  /\ UNCHANGED <<manual, item, dirs, reserved, debris, strays, crashes>>

IgnoringOtherUploads ==
  DiskFreeBytes - MinFreeDiskBytes >= MaxFileBytes + PDFPreviewOutputLimitBytes

\* The reservation fits what the disk has left above its floor.
SpaceLeft ==
  DiskFreeBytes - MinFreeDiskBytes - reserved >= MaxFileBytes + PDFPreviewOutputLimitBytes

AcquireUpload(r) ==
  /\ req[r].pc = "checked" /\ SpaceLeft
  /\ reserved' = reserved + MaxFileBytes + PDFPreviewOutputLimitBytes
  /\ req' = [req EXCEPT ![r].pc = "reserved"]
  /\ UNCHANGED <<manual, item, dirs, debris, strays, crashes>>

\* StoreFile: the original is written to a staging directory of its own.
WriteOriginal(r, i, key, body) ==
  /\ req[r].pc = "reserved" /\ Fresh(i)
  /\ req' = [req EXCEPT ![r] = [@ EXCEPT !.pc = "staged", !.key = key, !.body = body, !.item = i]]
  /\ UNCHANGED <<manual, item, dirs, reserved, debris, strays, crashes>>

\* Images and PDFs wait for one of the preview slots ...
EnterGate(r) ==
  /\ req[r].pc = "staged" /\ req[r].body.kind # "text"
  /\ Cardinality({x \in Requests : req[x].pc = "gate"}) < MaxConcurrentPDFPreviews
  /\ req' = [req EXCEPT ![r].pc = "gate"]
  /\ UNCHANGED <<manual, item, dirs, reserved, debris, strays, crashes>>

\* ... and hold it while the preview is made.  An image without one is refused.
Thumbnail(r) ==
  /\ req[r].pc = "gate" /\ req[r].body.kind = "image"
  /\ req' = [req EXCEPT ![r].pc = "inspected", ![r].preview = "ready"]
  /\ UNCHANGED <<manual, item, dirs, reserved, debris, strays, crashes>>

\* A PDF does without: it waited too long or could not be rendered.
RenderPDFPreview(r, preview) ==
  /\ req[r].pc = "gate" \/ (req[r].pc = "staged" /\ preview = "unavailable")
  /\ req[r].body.kind = "pdf"
  /\ req' = [req EXCEPT ![r].pc = "inspected", ![r].preview = preview]
  /\ UNCHANGED <<manual, item, dirs, reserved, debris, strays, crashes>>

ReadPlainText(r) ==
  /\ req[r].pc = "staged" /\ req[r].body.kind = "text"
  /\ req' = [req EXCEPT ![r].pc = "inspected"]
  /\ UNCHANGED <<manual, item, dirs, reserved, debris, strays, crashes>>

\* inspectStoredFile goes by what the bytes are, not by the name.
Inspect(r) ==
  \/ EnterGate(r)
  \/ Thumbnail(r)
  \/ \E preview \in {"ready", "unavailable"} : RenderPDFPreview(r, preview)
  \/ ReadPlainText(r)

\* The finished directory is renamed to its place; a text keeps none.
Rename(r) ==
  LET u == req[r] IN
  /\ u.pc = "inspected"
  /\ dirs' = IF u.body.kind = "text" THEN dirs
             ELSE [dirs EXCEPT ![u.item] = [bytes |-> Bytes(u.body, u.preview),
                                            thumb |-> u.preview = "ready"]]
  /\ req' = [req EXCEPT ![r].pc = "stored"]
  /\ UNCHANGED <<manual, item, reserved, debris, strays, crashes>>

\* RemoveStoredFile, whose error is ignored.
RemoveStoredFile(i) ==
  \/ dirs' = [dirs EXCEPT ![i] = NoDir] /\ UNCHANGED strays
  \/ dirs[i] # NoDir /\ strays' = strays \cup {i} /\ UNCHANGED dirs

\* The handler ends before it has stored anything, in whatever way.
AbandonUpload(r) ==
  /\ req[r].pc \notin {"idle", "stored", "unsure"}
  /\ IF req[r].pc = "checked"
     THEN req' = [req EXCEPT ![r] = Idle] /\ UNCHANGED reserved
     ELSE End(r)
  /\ UNCHANGED <<manual, item, dirs, debris, strays, crashes>>

\* appendItem commits the new row; the handler may not hear of it.
Commit(r, heard) ==
  LET u == req[r] IN
  /\ u.pc = "stored"
  /\ Insert(u.manual, u.item, u.key, u.body, u.preview)
  /\ IF heard THEN End(r) ELSE req' = [req EXCEPT ![r].pc = "unsure"] /\ UNCHANGED reserved
  /\ UNCHANGED <<dirs, debris, strays, crashes>>

\* appendItem returned the item of an earlier request, or refused this one for
\* good (the manual is gone, the quota is reached, the key was used for another
\* body or for an item since deleted, the session has ended).
Discard(r) == RemoveStoredFile(req[r].item)

ReplayOrRefuse(r) ==
  /\ req[r].pc = "stored"
  /\ Discard(r)
  /\ End(r)
  /\ UNCHANGED <<manual, item, debris, crashes>>

\* appendItem failed on the database and did not commit.
LoseCommit(r) ==
  /\ req[r].pc = "stored"
  /\ req' = [req EXCEPT ![r].pc = "unsure"]
  /\ UNCHANGED <<manual, item, dirs, reserved, debris, strays, crashes>>

SettleByRemoving(r, answered) == RemoveStoredFile(req[r].item)

\* resolveFileCommit: what becomes of the directory, by what the lookup of the
\* request id shows, or when it fails too.
Settle(r, answered) ==
  LET u == req[r] IN
  IF ~answered
  THEN UNCHANGED dirs /\ strays' = IF item[u.item] = NoItem THEN strays \cup {u.item} ELSE strays
  ELSE IF Find(u.manual, u.key) = {u.item} THEN UNCHANGED <<dirs, strays>>
  ELSE RemoveStoredFile(u.item)

resolveFileCommit(r, answered) ==
  /\ req[r].pc = "unsure"
  /\ Settle(r, answered)
  /\ End(r)
  /\ UNCHANGED <<manual, item, debris, crashes>>

\* The process stops: reservations are forgotten, directories stay.
Crash ==
  /\ crashes < MaxCrashes
  /\ crashes' = crashes + 1
  /\ debris' = debris + Staged
  /\ strays' = strays \cup {i \in Items : dirs[i] # NoDir /\ item[i] = NoItem}
  /\ req' = [r \in Requests |-> Idle] /\ reserved' = 0
  /\ UNCHANGED <<manual, item, dirs>>

-----------------------------------------------------------------------------
Owner ==
  \E m \in Manuals :
    \/ \E key \in Keys, body \in Bodies : Create(m, key, body)
    \/ \E i \in Items, key \in Keys, body \in Bodies : AddInline(m, i, key, body)
    \/ \E status \in {"keep", "draft", "active"}, cover \in Items \cup {None, "keep"},
          order \in Orders(m) : Update(m, status, cover, order)
    \/ Delete(m)
    \/ \E i \in Items : DeleteItem(m, i)

Upload(r) ==
  \/ \E m \in Manuals : CheckUploadOwner(r, m)
  \/ AcquireUpload(r)
  \/ \E i \in Items, key \in Keys, body \in Bodies : WriteOriginal(r, i, key, body)
  \/ Inspect(r)
  \/ Rename(r)
  \/ AbandonUpload(r)
  \/ \E heard \in BOOLEAN : Commit(r, heard)
  \/ ReplayOrRefuse(r)
  \/ LoseCommit(r)
  \/ \E answered \in BOOLEAN : resolveFileCommit(r, answered)

Next == Owner \/ (\E r \in Requests : Upload(r)) \/ Crash

Spec == Init /\ [][Next]_vars

-----------------------------------------------------------------------------
(***************************************************************************)
(* Properties.                                                             *)
(***************************************************************************)

Directory == [bytes : Nat, thumb : BOOLEAN]

\* Manuals, items, directories and uploads are well formed, and reservations
\* are those of the uploads in flight.
TypeOK ==
  /\ manual \in [Manuals -> [status : {"none", "draft", "active", "deleted"},
                             rev : 0..MaxRevision, cover : Items \cup {None},
                             key : Keys \cup {None}, body : Bodies \cup {None}]]
  /\ item \in [Items -> [manual : Manuals \cup {None}, key : Keys \cup {None},
                         body : Bodies \cup {None}, pos : Nat, deleted : BOOLEAN,
                         preview : {"none", "ready", "unavailable"}]]
  /\ dirs \in [Items -> Directory]
  /\ req \in [Requests -> [pc : {"idle", "checked", "reserved", "staged", "gate", "inspected",
                                 "stored", "unsure"},
                           manual : Manuals \cup {None}, key : Keys \cup {None},
                           body : Bodies \cup {None}, item : Items \cup {None},
                           preview : {"none", "ready", "unavailable"}]]
  /\ reserved = (MaxFileBytes + PDFPreviewOutputLimitBytes)
                  * Cardinality({r \in Requests : req[r].pc \notin {"idle", "checked"}})
  /\ debris \in Nat /\ strays \subseteq Items /\ crashes \in 0..MaxCrashes

\* ResourceItem finds only items of a kind that has a directory; the thumbnail
\* only when the preview is ready.
ResourceItem(i, thumbnail) ==
  /\ item[i] # NoItem /\ ~item[i].deleted
  /\ item[i].body.kind # "text"
  /\ thumbnail => item[i].preview = "ready"

\* OpenStoredFile on the item's storage or thumbnail key.
OpenStoredFile(i, thumbnail) == dirs[i] # NoDir /\ (thumbnail => dirs[i].thumb)

\* Every file the server offers is there, whatever commits, lost acknowledgements,
\* replays, failed lookups and crashes there were: resolveFileCommit and the
\* replay path never remove the directory of a committed row.
FilesKept ==
  \A i \in Items, thumbnail \in BOOLEAN :
    ResourceItem(i, thumbnail) => OpenStoredFile(i, thumbnail)

\* A client that repeats a request id, in parallel, after a lost answer or after the
\* item was deleted, never makes a second item (appendItem).
OneRowPerRequest ==
  \A m \in Manuals : \A i, j \in Rows(m) : item[i].key = item[j].key => i = j

\* However items are appended, reordered and deleted, the active items of a manual
\* are at the positions 1..n (appendItem takes n + 1, DeleteItem compacts).
PositionsDense ==
  \A m \in Manuals : {item[i].pos : i \in Active(m)} = 1..Cardinality(Active(m))

\* An active manual is never left without an item (Update, DeleteItem).
PublishedNotEmpty ==
  \A m \in Manuals : manual[m].status = "active" => Active(m) # {}

\* "position ASC", and the ready images and PDFs among the items.
First(S) == {i \in S : \A x \in S : item[i].pos <= item[x].pos}
Ready(S) == {i \in S : item[i].body.kind # "text" /\ item[i].preview = "ready"}

\* chooseDetailCover on the ordered items of the manual.
DetailCover(m) ==
  IF manual[m].cover \in Active(m) THEN {manual[m].cover}
  ELSE IF Ready(Active(m)) # {} THEN First(Ready(Active(m))) ELSE First(Active(m))

\* listDecorations: the explicit cover by its id, the automatic one by rank.
ListCover(m) ==
  IF manual[m].cover # None
  THEN {i \in Items : i = manual[m].cover /\ item[i] # NoItem /\ ~item[i].deleted}
  ELSE IF Ready(Active(m)) # {} THEN First(Ready(Active(m))) ELSE First(Active(m))

\* The list and the manual's own page show the same cover: the one the owner chose
\* is cleared together with its item and never dangles.
CoversAgree == \A m \in Manuals : Exists(m) => DetailCover(m) = ListCover(m)

\* The rows of a manual make sense together, whatever sequence of requests made them.
RowsConsistent ==
  TypeOK /\ OneRowPerRequest /\ PositionsDense /\ PublishedNotEmpty /\ CoversAgree

\* The counts and byte sums of an owner stay within the configured limits, however
\* uploads and inline items race (the quota is checked in the inserting transaction).
QuotaKept ==
  /\ CountUserManuals <= MaxManualsPerUser
  /\ \A m \in Manuals : /\ Cardinality(Active(m)) <= MaxItemsPerManual
                        /\ SumManualItemBytes(m) <= MaxManualBytes
  /\ SumUserManualItemBytes <= MaxUserBytes

\* Concurrent uploads, with what crashes and lost commits left behind, never take
\* the disk below min_free_disk_bytes (AcquireUpload, alone on the file system).
DiskFloor == DiskFreeBytes >= MinFreeDiskBytes

\* Neither the owner's quota nor the disk is exhausted by uploads that run side by side.
WithinLimits == QuotaKept /\ DiskFloor

\* A directory without a row belongs to an upload in flight, or was given up where
\* nothing else could be done: a crash, a failed removal, a failed lookup.
NoUnexplainedOrphans ==
  \A i \in Items : dirs[i] # NoDir /\ item[i] = NoItem =>
    i \in strays \/ \E r \in Requests : req[r].item = i /\ req[r].pc \in {"stored", "unsure"}

\* Rows and directories agree, though an upload makes one long before the other.
FilesMatchRows == FilesKept /\ NoUnexplainedOrphans

Content(m) == [manual |-> [manual[m] EXCEPT !.rev = 0],
               items |-> {<<i, item[i]>> : i \in Rows(m)}]

\* A revision names one content of the manual: whatever changes it, or its items,
\* moves to the next revision, so an editor holding a revision is never wrong about
\* what it edits; and a deleted manual does not change any more.
RevisionNamesContent ==
  [][\A m \in Manuals :
       /\ Content(m)' # Content(m) => manual'[m].rev = manual[m].rev + 1
       /\ manual[m].status = "deleted" => Content(m)' = Content(m)]_vars
=============================================================================
