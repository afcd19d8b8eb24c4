--------------------------- MODULE MCWebReleases ---------------------------
(* Small instances of WebReleases for TLC. *)
EXTENDS WebReleases, TLC

CONSTANTS p1, p2, u1, u2, e1, e2, k1

\* Projects and upload requests are interchangeable.
Symmetry == Permutations(Projects) \cup Permutations(Uploads)

-----------------------------------------------------------------------------
(* Bounds of the safety run: two cases. *)

\* The sizes of the bodies uploaded so far.
Sent ==
  {req[u].size : u \in {v \in Uploads : upc[v] # "idle"}}
    \cup {rsize[r] : r \in {s \in Releases : rstatus[s] # "none"}}

\* The life of one project: one upload at a time, of the large size, beside an editor, the
\* administrator and maintenance, with a crash, with the switch flipped or with a client that
\* guesses the revision one ahead.  A second editor at a time before anything is uploaded.
\* After a crash or a flip no owner edits: the administrator deletes and restores.
Guessing == ahead # {} \/ \E e \in Editors : edit[e].rev > edit[e].seen

OneProject ==
  /\ \E p \in Projects : status[p] = "none"
  /\ \E u \in Uploads : upc[u] = "idle"
  /\ 1 \notin Sent /\ nextId <= 3
  /\ crashes = 0 \/ switches = 0
  /\ \A p \in Projects : revision[p] <= 4
  /\ switches + crashes > 0 => /\ \A p \in Projects : revision[p] <= 3
                              /\ \A e \in Editors : edit[e] = Idle
  /\ Guessing => /\ switches + crashes = 0 /\ nextId <= 2
                 /\ ahead = {} \/ \A e \in Editors : edit[e] = Idle
  /\ edit[e2] # Idle => nextId = 1 /\ phase = "idle" /\ \A u \in Uploads : upc[u] = "idle"

\* Two uploads of any size at a time into two projects of the owner.
TwoProjects ==
  /\ \A p \in Projects : status[p] # "none" /\ revision[p] <= 1
  /\ \A e \in Editors : edit[e] = Idle
  /\ crashes = 0 /\ switches = 0 /\ now = 0

Focus == OneProject \/ TwoProjects

-----------------------------------------------------------------------------
(* Bounds of the liveness run: two cases. *)

\* One upload at a time, without a key, and maintenance: what is retired is removed.  Lost
\* acknowledgements belong to the other case.
Retiring ==
  /\ upc[u2] = "idle" /\ ver = 1 /\ nextId <= 3
  /\ \A u \in Uploads : req[u].key = NoKey
  /\ \A r \in Releases : rkey[r] = NoKey
  /\ \A u \in Uploads : upc[u] = "discard" => rstatus[urel[u]] # "ready"

\* Two uploads at a time, the second always with the key, while maintenance rests.
Retrying ==
  /\ phase = "idle" /\ crashes = 0 /\ switches = 0 /\ now = 0
  /\ \A p \in Projects : revision[p] <= 1
  /\ req[u2].key = IF upc[u2] = "idle" THEN NoKey ELSE k1
  /\ ver = 2 => nextId <= 3

LiveFocus == Retiring \/ Retrying
=============================================================================
