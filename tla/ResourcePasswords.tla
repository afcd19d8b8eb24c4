-------------------------- MODULE ResourcePasswords --------------------------
(***************************************************************************)
(* The reading password of one resource (a web project or a manual).       *)
(*                                                                         *)
(* The owner sets or removes it under a version that only grows.  A reader *)
(* unlocks in three steps: the record is read without a lock, the attempt  *)
(* is counted and a bcrypt slot taken, and the password is compared with   *)
(* what was read first.  The grant that follows is a cookie signed with a  *)
(* secret of this process, for the version that was read.                  *)
(*                                                                         *)
(* A client stands for one browser: its cookie and the address its         *)
(* attempts are counted under.  Passwords are model values, None is none.  *)
(***************************************************************************)
EXTENDS Integers, Sequences, FiniteSets, FiniteSetsExt

CONSTANTS Clients, Unlocks, Passwords, None,
          MaxKeys, MaxConcurrent, MaxAttempts, Window,   \* 4096, 8, 8, 1 min
          GrantTTL,
          \* bounds of the model
          MaxVersion, MaxTime, MaxRestarts

ASSUME PasswordsAssumption ==
  /\ {MaxKeys, MaxConcurrent, MaxAttempts, Window, GrantTTL, MaxVersion} \subseteq Nat \ {0}
  /\ MaxTime \in Nat /\ MaxRestarts \in Nat /\ None \notin Clients \cup Passwords
  /\ IsFiniteSet(Clients) /\ IsFiniteSet(Unlocks)

VARIABLES
  record,    \* resource_password: version 0 stands for no row
  unlock,    \* Unlock between its steps
  entries,   \* attemptLimiter.entries
  cookie,    \* the grant each client holds
  secret,    \* Service.secret: one per start of the process
  time,
  proof,     \* history: password version, process and time of a client's last right password
  tries      \* history: the times of the attempts let through since then

pwVars == <<record, unlock, entries, cookie, secret, time, proof, tries>>

Idle    == [pc |-> "idle", client |-> None, record |-> [hash |-> None, version |-> 0],
            guess |-> None]
NoEntry == [count |-> 0, windowStart |-> 0, lastSeen |-> 0, held |-> FALSE]
NoGrant == [version |-> 0, secret |-> 0, expires |-> 0]
NoProof == [version |-> 0, secret |-> 0, at |-> 0]
NoTries == <<>>

PasswordInit ==
  /\ record = [hash |-> None, version |-> 0]
  /\ unlock = [r \in Unlocks |-> Idle]
  /\ entries = [c \in Clients |-> NoEntry] /\ cookie = [c \in Clients |-> NoGrant]
  /\ secret = 1 /\ time = 0
  /\ proof = [c \in Clients |-> NoProof] /\ tries = [c \in Clients |-> NoTries]

-----------------------------------------------------------------------------

PasswordProtected == record.hash # None

\* SetTx with the version its caller last saw; removing the password keeps the row and its version.
SetTx(password, expectedVersion) ==
  /\ record.version < MaxVersion
  /\ expectedVersion = record.version
  /\ record' = [hash |-> password, version |-> record.version + 1]
  /\ UNCHANGED <<unlock, entries, cookie, secret, time, proof, tries>>

\* Unlock up to the limiter.  Without a password there is nothing to unlock, and the handler drops
\* the client's old grant.
UnlockRead(r, c) ==
  /\ unlock[r].pc = "idle"
  /\ \/ /\ PasswordProtected
        /\ unlock' = [unlock EXCEPT ![r] = [pc |-> "read", client |-> c, record |-> record,
                                            guess |-> None]]
        /\ UNCHANGED cookie
     \/ /\ ~PasswordProtected
        /\ cookie' = [cookie EXCEPT ![c] = NoGrant] /\ UNCHANGED unlock
  /\ UNCHANGED <<record, entries, secret, time, proof, tries>>

\* acquire, first half: entries not seen for a window go.
Evicted ==
  [c \in Clients |-> IF entries[c].held /\ time - entries[c].lastSeen >= Window
                     THEN NoEntry ELSE entries[c]]

Held(E) == {c \in Clients : E[c].held}

\* The entry acquire works on: a new one, or the old one with its window restarted when it is over.
Opened(E, c) ==
  IF ~E[c].held \/ time - E[c].windowStart >= Window
  THEN [count |-> 0, windowStart |-> time, lastSeen |-> time, held |-> TRUE]
  ELSE [E[c] EXCEPT !.lastSeen = time]

Comparing == {r \in Unlocks : unlock[r].pc = "compare"}

\* The attempt is let through; whether it is compared depends on a free slot.
Admit(r, guess) ==
  /\ tries' = [tries EXCEPT ![unlock[r].client] = Append(@, time)]
  /\ unlock' = [unlock EXCEPT ![r] = IF Cardinality(Comparing) < MaxConcurrent
                                    THEN [@ EXCEPT !.pc = "compare", !.guess = guess] ELSE Idle]

AcquireUncounted(r, guess) ==
  LET c == unlock[r].client
  IN /\ unlock[r].pc = "read"
     /\ Opened(Evicted, c).count < MaxAttempts
     /\ entries' = [Evicted EXCEPT ![c] = Opened(Evicted, c)]
     /\ Admit(r, guess)
     /\ UNCHANGED <<record, cookie, secret, time, proof>>

\* acquire: no room for a new key, too many attempts, or counted and then let in if a slot is free.
Acquire(r, guess) ==
  LET c == unlock[r].client
      full == ~Evicted[c].held /\ Cardinality(Held(Evicted)) >= MaxKeys
      entry == Opened(Evicted, c)
  IN /\ unlock[r].pc = "read"
     /\ \/ /\ full
           /\ entries' = Evicted /\ unlock' = [unlock EXCEPT ![r] = Idle] /\ UNCHANGED tries
        \/ /\ ~full /\ entry.count >= MaxAttempts
           /\ entries' = [Evicted EXCEPT ![c] = entry]
           /\ unlock' = [unlock EXCEPT ![r] = Idle] /\ UNCHANGED tries
        \/ /\ ~full /\ entry.count < MaxAttempts
           /\ entries' = [Evicted EXCEPT ![c] = [entry EXCEPT !.count = @ + 1]]
           /\ Admit(r, guess)
     /\ UNCHANGED <<record, cookie, secret, time, proof>>

issueGrantReread(version) == [version |-> record.version, secret |-> secret, expires |-> time + GrantTTL]

issueGrant(version) == [version |-> version, secret |-> secret, expires |-> time + GrantTTL]

\* The rest of Unlock: the guess is compared with the hash that was read first.
Compare(r) ==
  LET c == unlock[r].client
  IN /\ unlock[r].pc = "compare"
     /\ unlock' = [unlock EXCEPT ![r] = Idle]
     /\ IF unlock[r].guess = unlock[r].record.hash
        THEN /\ entries' = [entries EXCEPT ![c] = NoEntry]
             /\ cookie' = [cookie EXCEPT ![c] = issueGrant(unlock[r].record.version)]
             /\ proof' = [proof EXCEPT ![c] = [version |-> unlock[r].record.version,
                                               secret |-> secret, at |-> time]]
             /\ tries' = [tries EXCEPT ![c] = NoTries]
        ELSE UNCHANGED <<entries, cookie, proof, tries>>
     /\ UNCHANGED <<record, secret, time>>

\* validGrant: this process signed it, for the version in force, and it is not over.
validGrant(c) ==
  /\ cookie[c].secret = secret /\ cookie[c].version = record.version /\ cookie[c].expires > time

\* Authorize: the owner and readers of an unprotected resource need no grant.
Authorize(owner, c) == ~PasswordProtected \/ owner \/ validGrant(c)

Tick ==
  /\ time < MaxTime /\ time' = time + 1
  /\ UNCHANGED <<record, unlock, entries, cookie, secret, proof, tries>>

\* A new process draws a new secret and starts with no attempts.
NewService ==
  /\ secret <= MaxRestarts /\ secret' = secret + 1
  /\ unlock' = [r \in Unlocks |-> Idle] /\ entries' = [c \in Clients |-> NoEntry]
  /\ tries' = [c \in Clients |-> NoTries]
  /\ UNCHANGED <<record, cookie, time, proof>>

PasswordStep ==
  \/ \E r \in Unlocks : Compare(r) \/ \E p \in Passwords : Acquire(r, p)
  \/ Tick

-----------------------------------------------------------------------------
(* Properties *)

PasswordTypeOK ==
  /\ record \in [hash : Passwords \cup {None}, version : 0..MaxVersion]
  /\ unlock \in [Unlocks -> [pc : {"idle", "read", "compare"}, client : Clients \cup {None},
                             record : [hash : Passwords \cup {None}, version : 0..MaxVersion],
                             guess : Passwords \cup {None}]]
  /\ entries \in [Clients -> [count : 0..MaxAttempts, windowStart : 0..MaxTime,
                              lastSeen : 0..MaxTime, held : BOOLEAN]]
  /\ cookie \in [Clients -> [version : 0..MaxVersion, secret : Nat, expires : Nat]]
  /\ secret \in Nat \ {0} /\ time \in 0..MaxTime
  /\ proof \in [Clients -> [version : 0..MaxVersion, secret : Nat, at : Nat]]
  /\ tries \in [Clients -> Seq(0..MaxTime)]

\* A client whose grant is accepted gave this process the password that is in force now, and did so
\* no longer ago than the lifetime of a grant: a password changed or removed and set again while the
\* unlock was under way, or later, revives no grant (SetTx against Unlock).
GrantsProved ==
  \A c \in Clients : PasswordProtected /\ validGrant(c) =>
    /\ proof[c].version = record.version /\ proof[c].secret = secret
    /\ time < proof[c].at + GrantTTL

\* Until it gives the right password a client has at most twice the allowed attempts in any span as
\* long as the window: the attempt that many later is made no earlier than a window after.
AttemptsSpaced ==
  \A c \in Clients : \A i, j \in DOMAIN tries[c] :
    j = i + 2 * MaxAttempts => tries[c][j] >= tries[c][i] + Window

\* A client's attempts are so limited, whatever is evicted, restarted or refused in between; no more
\* passwords are compared at once than there are slots, and the table keeps to its size (acquire).
GuessesBounded ==
  /\ AttemptsSpaced
  /\ Cardinality(Comparing) <= MaxConcurrent
  /\ Cardinality(Held(entries)) <= MaxKeys
=============================================================================
