----------------------------- MODULE WebComments -----------------------------
(***************************************************************************)
(* The discussions of one web project, behind its reading password.        *)
(*                                                                         *)
(* A handler first checks, without locks, that the caller may read the     *)
(* project and holds a grant for its password.  Mutate then runs in one    *)
(* transaction that locks the accounts and the project, checks the access  *)
(* rules again (the password is not among them), looks for an event with   *)
(* the same request id, and writes the thread and its event.  Meanwhile    *)
(* the owner uploads, publishes, prunes, changes access and the password.  *)
(*                                                                         *)
(* Texts, anchors and pages only matter as parts of a request's digest and *)
(* are left out; a request is its action, thread, revision and release.    *)
(* 0 stands for no release and for a release id the request did not give.  *)
(***************************************************************************)
EXTENDS ResourcePasswords

CONSTANTS Users, Owner, Threads, Calls, Requests, Releases,
          MaxEvents     \* bound of the model

ASSUME CommentsAssumption ==
  /\ Owner \in Users /\ None \notin Users \cup Threads
  /\ Releases \subseteq Nat \ {0} /\ MaxEvents \in Nat \ {0}

VARIABLES
  state,     \* enabled, disabled, or barred: moderated, or its owner not active
  readers,   \* other users, active, whom the access mode and the members admit
  enhanced,  \* container_mode = "enhanced"
  current,   \* current_release_id
  releases,  \* web_project_release rows of this project, whatever their status
  thread,    \* web_comment_thread
  events,    \* web_comment_event, per thread in order of sequence
  call,      \* handlers between their check and their transaction
  ever,      \* history: releases that were ever uploaded to this project
  published  \* history: those of them that were ever published

projectVars == <<state, readers, enhanced, current, releases, ever, published>>
vars == <<pwVars, projectVars, thread, events, call>>

NoThread == [status |-> "none", revision |-> 0, release |-> 0, original |-> 0, author |-> None]
NoCall   == [pc |-> "idle", user |-> None, client |-> None, version |-> 0, protected |-> FALSE,
             secret |-> 0]

Init ==
  /\ PasswordInit
  /\ state = "enabled" /\ readers = Users \ {Owner} /\ enhanced = TRUE
  /\ current = 0 /\ releases = {} /\ ever = {} /\ published = {}
  /\ thread = [t \in Threads |-> NoThread] /\ events = [t \in Threads |-> <<>>]
  /\ call = [k \in Calls |-> NoCall]

-----------------------------------------------------------------------------
(* The project *)

\* UploadRelease: a row with an id never drawn before.
Upload(rel) ==
  /\ rel \notin ever
  /\ releases' = releases \cup {rel} /\ ever' = ever \cup {rel}
  /\ UNCHANGED <<pwVars, state, readers, enhanced, current, published, thread, events, call>>

\* PublishRelease.  That it takes ready rows only is left out: more may be published here.
Publish(rel) ==
  /\ rel \in releases
  /\ current' = rel /\ published' = published \cup {rel}
  /\ UNCHANGED <<pwVars, state, readers, enhanced, releases, ever, thread, events, call>>

Prune(rel) ==
  /\ rel \in releases \ {current}
  /\ releases' = releases \ {rel}
  /\ UNCHANGED <<pwVars, state, readers, enhanced, current, ever, published, thread, events, call>>

ChangeProject ==
  /\ \/ state' \in {"enabled", "disabled", "barred"} /\ UNCHANGED <<readers, enhanced>>
     \/ \E u \in Users \ {Owner} :
          readers' = (IF u \in readers THEN readers \ {u} ELSE readers \cup {u})
        /\ UNCHANGED <<state, enhanced>>
     \/ enhanced' = ~enhanced /\ UNCHANGED <<state, readers>>
  /\ UNCHANGED <<pwVars, current, releases, ever, published, thread, events, call>>

CanRead(u) == state = "enabled" /\ current # 0 /\ u \in readers \cup {Owner}

\* SetResourcePassword: the owner of a disabled project may change its password, a barred one not.
SetResourcePassword(password, version) ==
  /\ state # "barred"
  /\ SetTx(password, version)
  /\ UNCHANGED <<projectVars, thread, events, call>>

\* unlockProject: only a project somebody can read is unlocked.
UnlockProject(r, c) ==
  /\ \E u \in Users : CanRead(u)
  /\ UnlockRead(r, c)
  /\ UNCHANGED <<projectVars, thread, events, call>>

-----------------------------------------------------------------------------
(* Comments *)

\* comments(): who may read, and with which password, at the time of the check.
Begin(k, u, c) ==
  /\ call[k].pc = "idle"
  /\ CanRead(u) /\ Authorize(u = Owner, c)
  /\ call' = [call EXCEPT ![k] = [pc |-> "checked", user |-> u, client |-> c,
                version |-> record.version, protected |-> PasswordProtected, secret |-> secret]]
  /\ UNCHANGED <<pwVars, projectVars, thread, events>>

\* Mutate fails and rolls back, for any reason.
Refuse(k) ==
  /\ call[k].pc = "checked"
  /\ call' = [call EXCEPT ![k] = NoCall]
  /\ UNCHANGED <<pwVars, projectVars, thread, events>>

Seen(u, req) ==
  \E t \in Threads : \E i \in DOMAIN events[t] :
    events[t][i].actor = u /\ events[t][i].request = req

\* knownProjectRelease: any row of the project, published or not; a pruned release is still known by
\* what refers to it.
knownProjectRelease(rel) ==
  \/ rel \in releases
  \/ \E t \in Threads : \/ rel \in {thread[t].release, thread[t].original}
                        \/ \E i \in DOMAIN events[t] : events[t][i].source = rel

MayClose(u, t) == u \in {thread[t].author, Owner}

\* The rules of the actions that carry an If-Match revision.
Moderate(u, t, action, revision) ==
  /\ MayClose(u, t) /\ revision = thread[t].revision
  /\ thread[t].status = "deleted" => action = "reopen"
  /\ action = "resolve" => thread[t].status = "open"
  /\ action = "reopen" => thread[t].status \in {"resolved", "deleted"}

NewStatus == [reply |-> "same", reanchor |-> "same", resolve |-> "resolved", reopen |-> "open",
              delete |-> "deleted"]

\* The thread after an action other than a first comment.
Advanced(t, action, rel) ==
  [thread[t] EXCEPT
     !.status = IF NewStatus[action] = "same" THEN @ ELSE NewStatus[action],
     !.revision = @ + 1,
     !.release = IF action = "reanchor" THEN rel ELSE @]

\* The event row; its sequence is the revision it made, its place in events[t].
Event(k, action, revision, req, rel) ==
  [kind |-> action, actor |-> call[k].user, request |-> req, seen |-> revision, source |-> rel]

Log(t, e) == events' = [events EXCEPT ![t] = Append(@, e)]

CommentUnchecked(k, t, req, rel) ==
  LET u == call[k].user
  IN /\ call[k].pc = "checked" /\ rel = current /\ current # 0 /\ ~Seen(u, req)
     /\ thread[t] = NoThread
     /\ thread' = [thread EXCEPT ![t] = [status |-> "open", revision |-> 1, release |-> rel,
                                         original |-> rel, author |-> u]]
     /\ Log(t, Event(k, "comment", 0, req, rel))
     /\ call' = [call EXCEPT ![k] = NoCall]
     /\ UNCHANGED <<pwVars, projectVars>>

\* Mutate, action "comment".
Comment(k, t, req, rel) ==
  LET u == call[k].user
  IN /\ call[k].pc = "checked" /\ CanRead(u) /\ enhanced
     /\ ~Seen(u, req)
     /\ rel = current
     /\ thread[t] = NoThread
     /\ thread' = [thread EXCEPT ![t] = [status |-> "open", revision |-> 1, release |-> rel,
                                         original |-> rel, author |-> u]]
     /\ Log(t, Event(k, "comment", 0, req, rel))
     /\ call' = [call EXCEPT ![k] = NoCall]
     /\ UNCHANGED <<pwVars, projectVars>>

MutateAgain(k, t, action, revision, req, rel) ==
  LET u == call[k].user
  IN /\ call[k].pc = "checked" /\ CanRead(u) /\ enhanced /\ thread[t] # NoThread
     /\ IF action = "reply" THEN thread[t].status # "deleted" ELSE Moderate(u, t, action, revision)
     /\ IF action = "reanchor" THEN rel = current ELSE rel = 0 \/ knownProjectRelease(rel)
     /\ thread' = [thread EXCEPT ![t] = Advanced(t, action, rel)]
     /\ Log(t, Event(k, action, revision, req, IF rel = 0 THEN current ELSE rel))
     /\ call' = [call EXCEPT ![k] = NoCall]
     /\ UNCHANGED <<pwVars, projectVars>>

\* Mutate, the other actions.  A request id the caller used before changes nothing: the same request
\* gets the thread as it is, another one a conflict.
Mutate(k, t, action, revision, req, rel) ==
  LET u == call[k].user
  IN /\ call[k].pc = "checked" /\ CanRead(u) /\ enhanced
     /\ ~Seen(u, req)
     /\ thread[t] # NoThread
     /\ IF action = "reply" THEN revision = 0 /\ thread[t].status # "deleted"
                            ELSE Moderate(u, t, action, revision)
     /\ IF action = "reanchor" THEN rel = current ELSE rel = 0 \/ knownProjectRelease(rel)
     /\ thread' = [thread EXCEPT ![t] = Advanced(t, action, rel)]
     /\ Log(t, Event(k, action, revision, req, IF rel = 0 THEN current ELSE rel))
     /\ call' = [call EXCEPT ![k] = NoCall]
     /\ UNCHANGED <<pwVars, projectVars>>

Restart ==
  /\ NewService
  /\ call' = [k \in Calls |-> NoCall]
  /\ UNCHANGED <<projectVars, thread, events>>

Next ==
  \/ \E p \in Passwords \cup {None}, v \in 0..MaxVersion : SetResourcePassword(p, v)
  \/ PasswordStep /\ UNCHANGED <<projectVars, thread, events, call>>
  \/ \E r \in Unlocks, c \in Clients : UnlockProject(r, c)
  \/ \E rel \in Releases : Upload(rel) \/ Publish(rel) \/ Prune(rel)
  \/ ChangeProject
  \/ \E k \in Calls :
       \/ \E u \in Users, c \in Clients : Begin(k, u, c)
       \/ Refuse(k)
       \/ \E t \in Threads, req \in Requests, rel \in Releases \cup {0} :
            /\ Len(events[t]) < MaxEvents
            /\ \/ Comment(k, t, req, rel)
               \/ \E action \in DOMAIN NewStatus, revision \in 0..MaxEvents :
                    Mutate(k, t, action, revision, req, rel)
  \/ Restart

Spec == Init /\ [][Next]_vars

-----------------------------------------------------------------------------
(* Properties *)

LogEvents ==
  [kind : DOMAIN NewStatus \cup {"comment"}, actor : Users, request : Requests,
   seen : 0..MaxEvents, source : Releases]

CommentTypeOK ==
  /\ state \in {"enabled", "disabled", "barred"} /\ enhanced \in BOOLEAN /\ readers \subseteq Users \ {Owner}
  /\ current \in Releases \cup {0} /\ releases \subseteq Releases
  /\ ever \subseteq Releases /\ published \subseteq Releases
  /\ thread \in [Threads -> [status : {"none", "open", "resolved", "deleted"}, revision : Nat,
                             release : Releases \cup {0}, original : Releases \cup {0},
                             author : Users \cup {None}]]
  /\ \A t \in Threads : \A i \in DOMAIN events[t] : events[t][i] \in LogEvents

TypeOK == PasswordTypeOK /\ CommentTypeOK

\* What readers are shown of a discussion.
Shown == [t \in Threads |-> [status |-> thread[t].status, revision |-> thread[t].revision]]

Promise == INSTANCE CommentLog WITH log <- events, summary <- Shown

\* Discussions keep their promise: the thread row is at every moment the summary of an append-only
\* log in which no request appears twice and no one closes, deletes, reopens or moves what he has not
\* seen to its end, although handlers interleave, retry and die (Mutate).
KeepsPromise == Promise!Spec

\* An event is written only while the project is enabled, its author may read it and comments are on,
\* whatever has changed since the handler looked (the second half of Authorize, under locks; the
\* password is not looked at again).  Its discussion stands on releases that readers were shown, and
\* the release the event names was uploaded to this project, even if it was never published or is
\* pruned by now: it is never another project's (knownProjectRelease).
WritesAllowed ==
  [][\A t \in Threads : events'[t] # events[t] =>
       LET e == events'[t][Len(events'[t])]
       IN /\ state = "enabled" /\ enhanced /\ e.actor \in readers \cup {Owner}
          /\ e.source \in ever
          /\ {thread'[t].release, thread'[t].original} \subseteq published]_vars

\* A handler past its check belongs to the owner, or found the project without a password, or comes
\* from a client that has given this process a right password; and the version the check was made
\* under is at most one the record had until now.
ChecksProved ==
  \A k \in Calls : call[k].pc = "checked" =>
    /\ \/ call[k].user = Owner \/ ~call[k].protected
       \/ proof[call[k].client].secret = secret /\ proof[call[k].client].version > 0
    /\ call[k].version <= record.version

\* Whoever is let past the password gave it, to this process, while it was in force.
PasswordsProved == TypeOK /\ GrantsProved /\ ChecksProved
=============================================================================
