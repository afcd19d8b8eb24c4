----------------------------- MODULE MCAccounts -----------------------------
(* A small instance of Accounts for TLC. *)
EXTENDS Accounts, TLC

CONSTANTS r1, r2, a1, a2, a3

\* Scope sets asked for, and the permission that covers them.
LibraryScopes == {{"library:write"}}
LibraryGrants == {Library}

\* Requests are interchangeable.
Symmetry == Permutations(Requests)

-----------------------------------------------------------------------------
(* Bounds: three cases that share their beginning. *)

\* Sessions: three logins and whatever ends them, before there is any application.  The hash is
\* replaced before the third login only.
Logins ==
  /\ \A a \in Apps : app[a] = NoApp
  /\ \A r \in Requests : op[r] # "application"
  /\ granted = {} /\ now <= 1 /\ (hash > 1 => nextS <= 3)

OneLogin == nextS <= 2 /\ hash = 1 /\ limit = 1 /\ ~must

\* One application and its tokens, under two requests at a time.
OneApplication ==
  /\ OneLogin /\ now <= 1
  /\ \A a \in Apps \ {a1} : app[a] = NoApp
  /\ app[a1] # NoApp => \A r \in Requests : op[r] \in {"none", "application"}

\* Three applications for two slots, one request at a time.
Slots ==
  /\ OneLogin /\ now = 0 /\ ver = 1 /\ status = "active" /\ nextT = 1
  /\ \E r \in Requests : pc[r] = "idle"
  /\ \A a \in Apps : app[a].rev <= 2

Focus == Logins \/ OneApplication \/ Slots
=============================================================================
