----------------------------- MODULE CursorLists -----------------------------
(***************************************************************************)
(* Walking a list page by page while it changes.                           *)
(*                                                                         *)
(* Every list of the site reads one row more than the page holds, answers  *)
(* the page, and gives the key of its last row as the cursor of the next.  *)
(* Rows are written, hidden, shown and deleted between the pages, ids      *)
(* taken earlier may be committed later, and a page may fail or its answer *)
(* be lost, so that the reader asks for it again.                          *)
(*                                                                         *)
(* The library of manuals reads the rows of a page, then their passwords,  *)
(* then their covers, each in a query of its own, and hides the            *)
(* description and the cover of a manual that has a password.              *)
(*                                                                         *)
(* One table of rows stands for whichever list is walked.  Search terms    *)
(* and the optional filters of a list pick a part of the table, and are    *)
(* left out.                                                               *)
(***************************************************************************)
EXTENDS Naturals, Sequences, SequencesExt

CONSTANTS MaxId, PageSize,
          MaxChanges                \* bound of the model

ASSUME ListsAssumption == {MaxId, PageSize} \subseteq Nat \ {0} /\ MaxChanges \in Nat

VARIABLES
  row,      \* the rows, by id
  open,     \* what the list belongs to is there: the account, the project, the file, the discussion
  walk,     \* the reader's walk
  changes,  \* counter for the bound
  steady    \* history: rows the walk could see ever since it began

listVars == <<row, open, walk, changes, steady>>

Ids == 1..MaxId
Viewers == {"anonymous", "user", "owner"}

\* A text is known by the change that wrote it; 0 is any text that is nobody's secret.
NoRow == [status |-> "none", access |-> "public", time |-> 0, protected |-> FALSE,
          text |-> 0, cover |-> "open"]
NoCursor == <<>>
NoWalk == [pc |-> "idle"]

ListInit ==
  /\ row = [i \in Ids |-> NoRow] /\ open = TRUE
  /\ walk = NoWalk /\ changes = 0 /\ steady = {}

-----------------------------------------------------------------------------
(* The lists: which rows they show, their order (id and time downwards,     *)
(* name and sequence upwards), and whether a page is refused once what the  *)
(* list belongs to is gone.                                                 *)

List(shows, order, refuses) == [shows |-> shows, order |-> order, refuses |-> refuses]

ListManuals == List("visible", "id", FALSE)
ListOwnManuals == List("own", "id", FALSE)
Categories == List("visible", "name", FALSE)
OwnCategories == List("own", "name", FALSE)

ListOwnedProjects == List("kept", "id", FALSE)
ListReleases == List("all", "id", FALSE)
ListAllProjects == List("all", "id", TRUE)

ListFiles == List("kept", "id", FALSE)
ListShares == List("all", "id", TRUE)

ListUsers == List("kept", "id", FALSE)
ListAudit == List("all", "id", FALSE)
History == List("all", "id", FALSE)
ListApplicationCredentials == List("all", "id", FALSE)
ListSessions == List("usable", "time", TRUE)
AdminUserSessions == List("usable", "time", FALSE)

ListThreads == List("kept", "id", TRUE)
Events == List("all", "sequence", TRUE)

Lists == {ListManuals, ListOwnManuals, Categories, OwnCategories, ListOwnedProjects, ListReleases,
          ListAllProjects, ListFiles, ListShares, ListUsers, ListAudit, History,
          ListApplicationCredentials, ListSessions, AdminUserSessions, ListThreads, Events}

-----------------------------------------------------------------------------
(* What a list shows *)

Exists(i) == row[i].status # "none"

\* visibleManualQuery, of the library and of one's own manuals.
visibleManual(viewer, i) ==
  /\ open
  /\ \/ viewer = "owner" /\ row[i].status # "deleted"
     \/ row[i].status = "active" /\ row[i].access = "public"
     \/ row[i].status = "active" /\ row[i].access = "authenticated" /\ viewer # "anonymous"
ownManual(i) == open /\ row[i].status # "deleted"

\* CanReadManual, when one manual is opened.
CanReadManual(viewer, i) ==
  /\ row[i].status # "deleted"
  /\ \/ viewer = "owner"
     \/ /\ row[i].status = "active"
        /\ row[i].access = "public" \/ (row[i].access = "authenticated" /\ viewer # "anonymous")

\* findReadableManual.
ReadableManual(viewer, i) == Exists(i) /\ open /\ CanReadManual(viewer, i)

\* activeSessionQuery: not revoked, not expired, and of the account's present version.
activeSession(i) == open /\ row[i].status = "active"

Listed(list, viewer, i) ==
  /\ Exists(i)
  /\ list.shows = "visible" => visibleManual(viewer, i)
  /\ list.shows = "own" => ownManual(i)
  /\ list.shows = "kept" => row[i].status # "deleted"
  /\ list.shows = "usable" => activeSession(i)

-----------------------------------------------------------------------------
(* A page *)

Upwards(list) == list.order \in {"name", "sequence"}

Key(list, i) == IF list.order = "time" THEN <<row[i].time, i>> ELSE <<0, i>>

Below(k, l) == k[1] < l[1] \/ (k[1] = l[1] /\ k[2] < l[2])

BeyondTime(list, k, cursor) ==
  \/ cursor = NoCursor
  \/ IF Upwards(list) THEN Below(cursor, k)
     ELSE IF list.order = "time" THEN k[1] < cursor[1] ELSE Below(k, cursor)

\* The rows that follow the cursor, in the order of the list.
Beyond(list, k, cursor) ==
  \/ cursor = NoCursor
  \/ IF Upwards(list) THEN Below(cursor, k) ELSE Below(k, cursor)

\* ORDER BY ... LIMIT limit + 1.
Query(list, viewer, cursor) ==
  LET found == {i \in Ids : Listed(list, viewer, i) /\ Beyond(list, Key(list, i), cursor)}
      sorted == CHOOSE s \in SetToSeqs(found) : \A m, n \in DOMAIN s :
                  m < n => Upwards(list) = Below(Key(list, s[m]), Key(list, s[n]))
  IN  SubSeq(sorted, 1, IF Len(sorted) > PageSize THEN PageSize + 1 ELSE Len(sorted))

\* Without the extra row that only says whether there is more.
Cut(rows) == SubSeq(rows, 1, IF Len(rows) > PageSize THEN PageSize ELSE Len(rows))

\* The reader's first page has no cursor.  Only the library is open to others.
Start(list, viewer) ==
  /\ walk = NoWalk
  /\ list.shows # "visible" => viewer = "owner"
  /\ walk' = [pc |-> "next", list |-> list, viewer |-> viewer, cursor |-> NoCursor,
              listed |-> [i \in Ids |-> 0], page |-> <<>>, more |-> FALSE, masked |-> {}]
  /\ steady' = {i \in Ids : Listed(list, viewer, i)}
  /\ UNCHANGED <<row, open, changes>>

\* The rows of a page; their texts are part of what is read.
ReadPage ==
  LET rows == Query(walk.list, walk.viewer, walk.cursor)  page == Cut(rows) IN
  /\ walk.pc = "next" /\ (walk.list.refuses => open)
  /\ walk' = [walk EXCEPT !.pc = "rows", !.more = Len(rows) > PageSize,
                !.page = [n \in DOMAIN page |-> [id |-> page[n], key |-> Key(walk.list, page[n]),
                                                 text |-> row[page[n]].text, cover |-> "none"]]]
  /\ UNCHANGED <<row, open, changes>>

\* What the list belongs to is gone.
Refuse ==
  /\ walk.pc = "next" /\ walk.list.refuses /\ ~open
  /\ walk' = [walk EXCEPT !.pc = "refused"]
  /\ UNCHANGED <<row, open, changes>>

\* The passwords of the page's manuals.  Other lists read counts, members and names.
ReadStates ==
  /\ walk.pc = "rows"
  /\ walk' = [walk EXCEPT !.pc = "states",
                !.masked = {i \in {walk.page[n].id : n \in DOMAIN walk.page} : row[i].protected}]
  /\ UNCHANGED <<row, open, changes>>

ShownCoverOnly(item) ==
  IF item.id \in walk.masked /\ walk.viewer # "owner" THEN [item EXCEPT !.cover = "hidden"]
  ELSE [item EXCEPT !.cover = row[item.id].cover]

\* A manual with a password loses its description and its cover, but for its owner.
Shown(item) ==
  IF item.id \in walk.masked /\ walk.viewer # "owner"
    THEN [item EXCEPT !.text = 0, !.cover = "hidden"]
  ELSE [item EXCEPT !.cover = row[item.id].cover]

\* The key of the last row of the page.
NextCursor(page) == IF walk.more THEN page[Len(page)].key ELSE walk.cursor

\* How often a row has been listed, counted up to two.
CountedRows(listed) ==
  [i \in Ids |-> IF \E n \in DOMAIN walk.page : walk.page[n].id = i
                 THEN IF listed[i] = 0 THEN 1 ELSE 2 ELSE listed[i]]

DecorateEndless ==
  /\ walk.pc = "states"
  /\ walk' = [walk EXCEPT !.pc = "next",
                !.page = [n \in DOMAIN walk.page |-> Shown(walk.page[n])],
                !.cursor = NextCursor(walk.page),
                !.listed = CountedRows(@)]
  /\ UNCHANGED <<row, open, changes>>

\* The covers are read last, and the page is answered.
Decorate ==
  /\ walk.pc = "states"
  /\ walk' = [walk EXCEPT !.pc = IF walk.more THEN "next" ELSE "done",
                !.page = [n \in DOMAIN walk.page |-> Shown(walk.page[n])],
                !.cursor = NextCursor(walk.page),
                !.listed = CountedRows(@)]
  /\ UNCHANGED <<row, open, changes>>

-----------------------------------------------------------------------------
(* What happens meanwhile *)

Changing == changes < MaxChanges /\ changes' = changes + 1

\* A query fails or the answer is lost: the reader asks for the same page again.
Fail ==
  /\ Changing /\ walk.pc \in {"rows", "states"}
  /\ walk' = [walk EXCEPT !.pc = "next", !.page = <<>>, !.masked = {}]
  /\ UNCHANGED <<row, open>>

Change(i, new) == Changing /\ row' = [row EXCEPT ![i] = new] /\ UNCHANGED <<open, walk>>

\* Ids, times and names come in any order; only events and revisions are numbered under a lock.
Insert(i, time) ==
  /\ ~Exists(i)
  /\ walk # NoWalk /\ walk.list.order = "sequence" => \A j \in Ids : Exists(j) => j < i
  /\ Change(i, [NoRow EXCEPT !.status = "active", !.time = time])

\* Deleted manuals and ended sessions stay so; projects are restored.
SetStatus(i, status) ==
  /\ Exists(i) /\ row[i].status # status
  /\ row[i].status = "deleted" => walk # NoWalk /\ walk.list.shows = "kept"
  /\ Change(i, [row[i] EXCEPT !.status = status])

\* An active owner changes a manual until it is deleted.
Editable(i) == open /\ row[i].status \notin {"none", "deleted"}

SetAccess(i, access) ==
  /\ Editable(i) /\ row[i].access # access
  /\ Change(i, [row[i] EXCEPT !.access = access])

\* Without a password nothing of a manual is secret any more.
SetResourcePassword(i) ==
  /\ Editable(i)
  /\ Change(i, IF row[i].protected
               THEN [row[i] EXCEPT !.protected = FALSE, !.text = 0, !.cover = "open"]
               ELSE [row[i] EXCEPT !.protected = TRUE])

\* What the owner writes behind a password is for its readers only.
Write(i) ==
  /\ Editable(i) /\ row[i].protected
  /\ \/ Change(i, [row[i] EXCEPT !.text = changes'])
     \/ Change(i, [row[i] EXCEPT !.cover = "secret"])

SetOpen == Changing /\ open' = ~open /\ UNCHANGED <<row, walk>>

Meanwhile ==
  \/ \E i \in Ids : \/ \E time \in {0, 1} : Insert(i, time)
                    \/ \E status \in {"draft", "active", "deleted"} : SetStatus(i, status)
                    \/ \E access \in {"owner", "authenticated", "public"} : SetAccess(i, access)
                    \/ SetResourcePassword(i)
                    \/ Write(i)
  \/ SetOpen

\* What the walk has been able to see ever since it began.
StillSteady ==
  steady' = IF walk = NoWalk THEN {} ELSE {i \in steady : Listed(walk.list, walk.viewer, i)'}

Serve == (ReadPage \/ Refuse \/ ReadStates \/ Decorate) /\ UNCHANGED steady

ListNext ==
  \/ \E list \in Lists, viewer \in Viewers : Start(list, viewer)
  \/ Serve
  \/ Fail /\ UNCHANGED steady
  \/ Meanwhile /\ StillSteady

ListSpec == ListInit /\ [][ListNext]_listVars

\* The server answers every page it is asked for, and the reader asks for the next.
FairListSpec == ListSpec /\ WF_listVars(Serve)

-----------------------------------------------------------------------------
\* A page is never longer than asked for.
ListTypes ==
  /\ row \in [Ids -> [status : {"none", "draft", "active", "deleted"},
                      access : {"owner", "authenticated", "public"}, time : {0, 1},
                      protected : BOOLEAN, text : 0..MaxChanges, cover : {"open", "secret"}]]
  /\ open \in BOOLEAN /\ changes \in 0..MaxChanges /\ steady \subseteq Ids
  /\ walk # NoWalk => /\ walk.list \in Lists /\ walk.viewer \in Viewers
                      /\ Len(walk.page) <= PageSize

\* A walk lists every row it could see throughout, and lists none twice, whatever is written,
\* hidden and deleted between its pages, in whatever order ids are committed, and however often a
\* page is asked for again.
ExactlyOnce ==
  walk.pc = "done" =>
    /\ \A i \in steady : walk.listed[i] = 1
    /\ \A i \in Ids : walk.listed[i] <= 1

\* The library lists exactly the manuals its viewer can open (dal/manual.go and manuals/service.go
\* state the rule separately).
ListsWhatOpens == \A i \in Ids, viewer \in Viewers : Exists(i) =>
  (visibleManual(viewer, i) <=> ReadableManual(viewer, i))

\* A walk through a list shows what its reader may see, all of it, and once.
WalksComplete == ListTypes /\ ExactlyOnce /\ ListsWhatOpens

Answered == walk.pc \in {"next", "done"} /\ walk.list = ListManuals /\ walk.viewer # "owner"

\* What the owner wrote into a description behind a password is not listed to others, however the
\* password and the text change while the page is put together.
DescriptionsHidden ==
  [][walk.pc = "states" /\ Answered' =>
       \A n \in DOMAIN walk'.page : walk'.page[n].text # 0 =>
         row[walk'.page[n].id].text # walk'.page[n].text]_listVars

\* Every walk comes to its end, though rows keep coming.
Ends == walk.pc = "next" ~> walk.pc \in {"done", "refused"}
=============================================================================
