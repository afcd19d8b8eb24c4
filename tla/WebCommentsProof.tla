--------------------------- MODULE WebCommentsProof ---------------------------
(***************************************************************************)
(* Proofs about ResourcePasswords and WebComments for any number of        *)
(* clients, unlocks, passwords, readers, threads, handlers and requests.   *)
(***************************************************************************)
EXTENDS WebComments, SumLemmas, SequenceTheorems, TLAPS

LEMMA PasswordBounds ==
  /\ MaxKeys \in Nat /\ MaxKeys > 0 /\ MaxConcurrent \in Nat /\ MaxConcurrent > 0
  /\ MaxAttempts \in Nat /\ MaxAttempts > 0 /\ Window \in Nat /\ Window > 0
  /\ GrantTTL \in Nat /\ MaxVersion \in Nat /\ MaxTime \in Nat /\ MaxRestarts \in Nat
  /\ None \notin Clients /\ None \notin Passwords
  BY PasswordsAssumption

-----------------------------------------------------------------------------
(* The password *)

\* What a step of the system may do to the password and its attempts.
PasswordMove ==
  \/ \E p \in Passwords \cup {None}, v \in 0..MaxVersion : SetTx(p, v)
  \/ \E r \in Unlocks, c \in Clients : UnlockRead(r, c)
  \/ \E r \in Unlocks, p \in Passwords : Acquire(r, p)
  \/ \E r \in Unlocks : Compare(r)
  \/ Tick
  \/ NewService

Hashes == Passwords \cup {None}
Records == [hash : Hashes, version : 0..MaxVersion]

IsUnlock(x) ==
  /\ x \in [pc : {"idle", "read", "compare"}, client : Clients \cup {None}, record : Records,
            guess : Hashes]
  /\ x.pc # "idle" => x.client \in Clients /\ x.record.version > 0 /\ x.record.hash # None

\* The password and the unlocks: an unlock under way read a version no later than the one in force.
UnlockInv ==
  /\ record \in Records /\ (record.hash # None => record.version > 0)
  /\ unlock = [r \in Unlocks |-> unlock[r]]
  /\ \A r \in Unlocks : IsUnlock(unlock[r]) /\ unlock[r].record.version <= record.version
  /\ secret \in Nat \ {0} /\ time \in 0..MaxTime

LEMMA IdleUnlock == IsUnlock(Idle) /\ Idle.record.version = 0 /\ Idle.pc = "idle"
  BY PasswordBounds DEF IsUnlock, Idle, Records, Hashes

LEMMA UnlockStep ==
  ASSUME UnlockInv, PasswordMove
  PROVE  UnlockInv' /\ record.version <= record'.version
<1> USE PasswordBounds
<1>1. ASSUME NEW p \in Hashes, NEW v \in 0..MaxVersion, SetTx(p, v)
      PROVE  UnlockInv' /\ record.version <= record'.version
  <2>1. record' \in Records /\ record'.version = record.version + 1
    BY <1>1 DEF SetTx, Records, UnlockInv
  <2>2. /\ UNCHANGED <<unlock, secret, time>> /\ record.version \in 0..MaxVersion
        /\ \A r \in Unlocks : unlock[r].record.version \in 0..MaxVersion
    BY <1>1 DEF SetTx, UnlockInv, Records, IsUnlock
  <2>3. \A r \in Unlocks : unlock[r].record.version <= record'.version
    BY <2>1, <2>2 DEF UnlockInv
  <2>4. record'.version > 0 /\ record.version <= record'.version
    BY <2>1, <2>2
  <2> QED
    BY <2>1, <2>2, <2>3, <2>4 DEF UnlockInv
<1>2. ASSUME NEW r \in Unlocks, NEW c \in Clients, UnlockRead(r, c) PROVE UnlockInv'
  <2> DEFINE new == [pc |-> "read", client |-> c, record |-> record, guess |-> None]
  <2>1. UNCHANGED <<record, secret, time>>
        /\ (UNCHANGED unlock \/ (unlock' = [unlock EXCEPT ![r] = new] /\ record.hash # None))
    BY <1>2 DEF UnlockRead, PasswordProtected
  <2>2. record.hash # None => IsUnlock(new) /\ new.record.version = record.version
    BY DEF IsUnlock, UnlockInv, Hashes
  <2> HIDE DEF new
  <2> QED
    BY <2>1, <2>2 DEF UnlockInv, Records
<1>3. ASSUME NEW r \in Unlocks, NEW p \in Passwords, Acquire(r, p) PROVE UnlockInv'
  <2> DEFINE new == [unlock[r] EXCEPT !.pc = "compare", !.guess = p]
  <2>1. UNCHANGED <<record, secret, time>> /\ unlock[r].pc = "read"
        /\ (unlock' = [unlock EXCEPT ![r] = new] \/ unlock' = [unlock EXCEPT ![r] = Idle])
    BY <1>3 DEF Acquire, Admit, UnlockInv
  <2>2. IsUnlock(new) /\ new.record.version = unlock[r].record.version
    BY <2>1 DEF IsUnlock, UnlockInv, Hashes
  <2> HIDE DEF new
  <2>3. record.version \in 0..MaxVersion /\ unlock[r].record.version <= record.version
    BY DEF UnlockInv, Records
  <2>4. CASE unlock' = [unlock EXCEPT ![r] = new]
    BY <2>1, <2>2, <2>3, <2>4 DEF UnlockInv
  <2>5. CASE unlock' = [unlock EXCEPT ![r] = Idle]
    BY <2>1, <2>3, <2>5, IdleUnlock DEF UnlockInv
  <2> QED
    BY <2>1, <2>4, <2>5
<1>4. ASSUME NEW r \in Unlocks, Compare(r) PROVE UnlockInv'
  <2>1. UNCHANGED <<record, secret, time>> /\ unlock' = [unlock EXCEPT ![r] = Idle]
    BY <1>4 DEF Compare
  <2>2. record.version \in 0..MaxVersion
    BY DEF UnlockInv, Records
  <2> QED
    BY <2>1, <2>2, IdleUnlock DEF UnlockInv
<1>5. ASSUME Tick PROVE UnlockInv'
  BY <1>5 DEF Tick, UnlockInv
<1>6. ASSUME NewService PROVE UnlockInv'
  BY <1>6, IdleUnlock DEF NewService, UnlockInv, Records
<1>7. ASSUME PasswordMove,  ~\E p \in Hashes, v \in 0..MaxVersion : SetTx(p, v)
      PROVE  record.version <= record'.version
  <2>1. UNCHANGED record
    BY <1>7 DEF PasswordMove, UnlockRead, Acquire, Compare, Tick, NewService, Hashes
  <2> QED
    BY <2>1 DEF UnlockInv, Records
<1> QED
  BY <1>1, <1>2, <1>3, <1>4, <1>5, <1>6, <1>7 DEF PasswordMove, Hashes

\* A client's grant is the one its last right password was answered with.
GrantInv ==
  /\ cookie \in [Clients -> [version : 0..MaxVersion, secret : Nat, expires : Nat]]
  /\ proof \in [Clients -> [version : 0..MaxVersion, secret : Nat, at : Nat]]
  /\ \A c \in Clients : \/ cookie[c].secret = 0
                        \/ /\ proof[c].version = cookie[c].version /\ proof[c].version > 0
                           /\ proof[c].secret = cookie[c].secret
                           /\ cookie[c].expires = proof[c].at + GrantTTL

LEMMA GrantStep ==
  ASSUME UnlockInv, GrantInv, PasswordMove
  PROVE  GrantInv'
<1> USE PasswordBounds
<1>1. ASSUME NEW r \in Unlocks, Compare(r) PROVE GrantInv'
  <2> DEFINE c == unlock[r].client
             v == unlock[r].record.version
  <2>1. c \in Clients /\ v \in 0..MaxVersion /\ v > 0 /\ time \in Nat /\ secret \in Nat
    BY <1>1 DEF Compare, UnlockInv, IsUnlock, Records
  <2>2. \/ UNCHANGED <<cookie, proof>>
        \/ /\ cookie' = [cookie EXCEPT ![c] = [version |-> v, secret |-> secret,
                                               expires |-> time + GrantTTL]]
           /\ proof' = [proof EXCEPT ![c] = [version |-> v, secret |-> secret, at |-> time]]
    BY <1>1 DEF Compare, issueGrant
  <2> DEFINE given == [version |-> v, secret |-> secret, expires |-> time + GrantTTL]
             proved == [version |-> v, secret |-> secret, at |-> time]
  <2>3. /\ given \in [version : 0..MaxVersion, secret : Nat, expires : Nat]
        /\ proved \in [version : 0..MaxVersion, secret : Nat, at : Nat]
        /\ proved.version = given.version /\ proved.version > 0 /\ proved.secret = given.secret
        /\ given.expires = proved.at + GrantTTL
    BY <2>1
  <2>4. \/ UNCHANGED <<cookie, proof>>
        \/ cookie' = [cookie EXCEPT ![c] = given] /\ proof' = [proof EXCEPT ![c] = proved]
    BY <2>2
  <2> HIDE DEF c, v, given, proved
  <2>5. CASE UNCHANGED <<cookie, proof>>
    BY <2>5 DEF GrantInv
  <2>6. CASE cookie' = [cookie EXCEPT ![c] = given] /\ proof' = [proof EXCEPT ![c] = proved]
    BY <2>1, <2>3, <2>6 DEF GrantInv
  <2> QED
    BY <2>4, <2>5, <2>6
<1>2. ASSUME NEW r \in Unlocks, NEW c \in Clients, UnlockRead(r, c) PROVE GrantInv'
  <2>1. UNCHANGED proof /\ (UNCHANGED cookie \/ cookie' = [cookie EXCEPT ![c] = NoGrant])
    BY <1>2 DEF UnlockRead
  <2>2. NoGrant \in [version : 0..MaxVersion, secret : Nat, expires : Nat] /\ NoGrant.secret = 0
    BY DEF NoGrant
  <2> QED
    BY <2>1, <2>2 DEF GrantInv
<1> QED
  BY <1>1, <1>2 DEF PasswordMove, SetTx, Acquire, Tick, NewService, GrantInv

\* A right password stays given: it changes only by another one.
LEMMA ProofStays ==
  ASSUME UnlockInv, GrantInv, PasswordMove, UNCHANGED secret, NEW c \in Clients,
         proof[c].secret = secret, proof[c].version > 0
  PROVE  proof'[c].secret = secret /\ proof'[c].version > 0
<1> USE PasswordBounds
<1>1. ASSUME NEW r \in Unlocks, Compare(r) PROVE proof'[c].secret = secret /\ proof'[c].version > 0
  <2>1. unlock[r].record.version > 0
    BY <1>1 DEF Compare, UnlockInv, IsUnlock
  <2> QED
    BY <1>1, <2>1 DEF Compare, GrantInv
<1> QED
  BY <1>1 DEF PasswordMove, SetTx, UnlockRead, Acquire, Tick, NewService

-----------------------------------------------------------------------------
(* Attempts *)

IsEntry(e) ==
  /\ e = [f \in DOMAIN e |-> e[f]]
  /\ DOMAIN e = {"count", "windowStart", "lastSeen", "held"}
  /\ e.count \in 0..MaxAttempts /\ e.windowStart \in 0..MaxTime /\ e.lastSeen \in 0..MaxTime
  /\ e.held \in BOOLEAN

\* What the entry e of a client says about the attempts l it has made until now: those before its
\* window began, and, more than a whole count before, those a window earlier still.  An entry that is
\* gone went a window after the last attempt.
Explains(e, l, now) ==
  /\ IsEntry(e) /\ l \in Seq(0..MaxTime)
  /\ IF e.held
     THEN /\ e.windowStart <= e.lastSeen /\ e.lastSeen <= now
          /\ \A i \in DOMAIN l :
               /\ l[i] <= e.lastSeen
               /\ i <= Len(l) - e.count => l[i] <= e.windowStart
               /\ i <= Len(l) - e.count - MaxAttempts => l[i] + Window <= e.windowStart
     ELSE \A i \in DOMAIN l : l[i] + Window <= now

Spaced(l) == \A i, j \in DOMAIN l : j = i + 2 * MaxAttempts => l[j] >= l[i] + Window

AttemptInv ==
  /\ entries = [c \in Clients |-> entries[c]]
  /\ tries = [c \in Clients |-> tries[c]]
  /\ \A c \in Clients : Explains(entries[c], tries[c], time) /\ Spaced(tries[c])

LEMMA ExplainsLater ==
  ASSUME NEW e, NEW l, NEW t \in 0..MaxTime, NEW u \in 0..MaxTime, t <= u, Explains(e, l, t)
  PROVE  Explains(e, l, u)
<1> USE PasswordBounds
<1>1. CASE e.held
  BY <1>1 DEF Explains, IsEntry
<1>2. CASE ~e.held
  <2>1. ASSUME NEW i \in DOMAIN l PROVE l[i] + Window <= u
    BY <1>2 DEF Explains
  <2> QED
    BY <1>2, <2>1 DEF Explains
<1> QED
  BY <1>1, <1>2

LEMMA ExplainsNothing ==
  ASSUME NEW t
  PROVE  Explains(NoEntry, NoTries, t) /\ Spaced(NoTries)
  BY PasswordBounds DEF Explains, NoEntry, NoTries, IsEntry, Spaced

\* acquire's eviction and the restart of a window.
EvictedEntry(e) == IF e.held /\ time - e.lastSeen >= Window THEN NoEntry ELSE e
OpenedEntry(e) ==
  IF ~e.held \/ time - e.windowStart >= Window
  THEN [count |-> 0, windowStart |-> time, lastSeen |-> time, held |-> TRUE]
  ELSE [e EXCEPT !.lastSeen = time]

LEMMA ExplainsEvicted ==
  ASSUME NEW e, NEW l, time \in 0..MaxTime, Explains(e, l, time)
  PROVE  Explains(EvictedEntry(e), l, time)
<1> USE PasswordBounds
<1>1. CASE e.held /\ time - e.lastSeen >= Window
  <2>1. EvictedEntry(e) = NoEntry /\ IsEntry(NoEntry) /\ ~NoEntry.held
    BY <1>1 DEF EvictedEntry, NoEntry, IsEntry
  <2>2. ASSUME NEW i \in DOMAIN l PROVE l[i] + Window <= time
    <3>1. l[i] \in 0..MaxTime /\ l[i] <= e.lastSeen
      BY <1>1 DEF Explains
    <3>2. e.lastSeen \in 0..MaxTime
      BY DEF Explains, IsEntry
    <3> QED
      BY <1>1, <3>1, <3>2
  <2> QED
    BY <2>1, <2>2 DEF Explains
<1> QED
  BY <1>1 DEF EvictedEntry

LEMMA ExplainsOpened ==
  ASSUME NEW e, NEW l, time \in 0..MaxTime, Explains(e, l, time)
  PROVE  Explains(OpenedEntry(e), l, time) /\ OpenedEntry(e).held
<1> USE PasswordBounds
<1> DEFINE new == OpenedEntry(e)
<1>0. /\ l \in Seq(0..MaxTime) /\ Len(l) \in Nat /\ DOMAIN l = 1..Len(l)
      /\ \A i \in DOMAIN l : l[i] \in 0..MaxTime
  BY DEF Explains
<1>1. CASE ~e.held \/ time - e.windowStart >= Window
  <2>1. new = [count |-> 0, windowStart |-> time, lastSeen |-> time, held |-> TRUE]
    BY <1>1 DEF OpenedEntry
  <2>2. IsEntry(new) /\ new.held /\ new.windowStart = time /\ new.lastSeen = time /\ new.count = 0
    BY <2>1 DEF IsEntry
  <2>3. ASSUME NEW i \in DOMAIN l
        PROVE  l[i] <= time /\ (i <= Len(l) - 0 - MaxAttempts => l[i] + Window <= time)
    <3>1. CASE ~e.held
      BY <3>1, <1>0 DEF Explains
    <3>2. CASE e.held
      <4>1. /\ e.count \in 0..MaxAttempts /\ e.windowStart \in 0..MaxTime /\ e.lastSeen \in 0..MaxTime
            /\ l[i] <= e.lastSeen /\ e.lastSeen <= time
            /\ i <= Len(l) - e.count => l[i] <= e.windowStart
        BY <3>2 DEF Explains, IsEntry
      <4>2. e.windowStart + Window <= time
        BY <1>1, <3>2, <4>1
      <4>3. i \in Nat /\ l[i] \in Nat
        BY <1>0
      <4>4. l[i] <= time
        BY <4>1, <4>3
      <4>5. i <= Len(l) - 0 - MaxAttempts => i <= Len(l) - e.count
        BY <4>1, <4>3, <1>0
      <4>6. l[i] <= e.windowStart => l[i] + Window <= time
        BY <4>1, <4>2, <4>3
      <4> QED
        BY <4>1, <4>4, <4>5, <4>6
    <3> QED
      BY <3>1, <3>2
  <2> HIDE DEF new
  <2>4. Explains(new, l, time)
    BY <2>2, <2>3, <1>0 DEF Explains
  <2> QED
    BY <2>2, <2>4 DEF new
<1>2. CASE e.held /\ ~(time - e.windowStart >= Window)
  <2>1. new = [e EXCEPT !.lastSeen = time]
    BY <1>2 DEF OpenedEntry
  <2>2. /\ IsEntry(new) /\ new.held /\ new.windowStart = e.windowStart /\ new.lastSeen = time
        /\ new.count = e.count
    BY <2>1, <1>2 DEF IsEntry, Explains
  <2>3. ASSUME NEW i \in DOMAIN l PROVE l[i] <= time
    <3>1. l[i] <= e.lastSeen /\ e.lastSeen <= time
      BY <1>2 DEF Explains
    <3>2. e.lastSeen \in 0..MaxTime /\ l[i] \in 0..MaxTime
      BY <1>0 DEF Explains, IsEntry
    <3> QED
      BY <3>1, <3>2
  <2>5. e.windowStart <= time
    BY <1>2 DEF Explains, IsEntry
  <2> HIDE DEF new
  <2>4. Explains(new, l, time)
    BY <2>2, <2>3, <2>5, <1>0, <1>2 DEF Explains
  <2> QED
    BY <2>2, <2>4 DEF new
<1> QED
  BY <1>1, <1>2

\* An attempt that is let through is counted, and is far enough from the ones before it.
LEMMA ExplainsCounted ==
  ASSUME NEW e, NEW l, time \in 0..MaxTime, Explains(e, l, time), Spaced(l), e.held,
         e.count < MaxAttempts, e.lastSeen = time
  PROVE  Explains([e EXCEPT !.count = @ + 1], Append(l, time), time) /\ Spaced(Append(l, time))
<1> USE PasswordBounds
<1> DEFINE m == Append(l, time)
           new == [e EXCEPT !.count = @ + 1]
           n == Len(l)
<1>1. /\ l \in Seq(0..MaxTime) /\ n \in Nat /\ DOMAIN l = 1..n
      /\ \A i \in DOMAIN l : l[i] \in 0..MaxTime
  BY DEF Explains
<1>2. /\ m \in Seq(0..MaxTime) /\ Len(m) = n + 1 /\ DOMAIN m = 1..(n + 1) /\ m[n + 1] = time
      /\ \A i \in 1..n : m[i] = l[i]
  BY <1>1
<1>3. /\ IsEntry(new) /\ new.held /\ new.windowStart = e.windowStart /\ new.lastSeen = time
      /\ new.count = e.count + 1
  <2>1. /\ DOMAIN e = {"count", "windowStart", "lastSeen", "held"} /\ e.count \in 0..MaxAttempts
        /\ e.windowStart \in 0..MaxTime /\ e.lastSeen \in 0..MaxTime
    BY DEF IsEntry, Explains
  <2>2. /\ DOMAIN new = DOMAIN e /\ new.windowStart = e.windowStart /\ new.lastSeen = e.lastSeen
        /\ new.count = e.count + 1
    BY <2>1
  <2>3. new.held = e.held
    BY <2>1
  <2>4. new.count \in 0..MaxAttempts
    BY <2>1, <2>2
  <2>5. e.held \in BOOLEAN
    BY DEF IsEntry, Explains
  <2>7. new = [f \in DOMAIN new |-> new[f]]
    OBVIOUS
  <2> HIDE DEF new
  <2>6. IsEntry(new)
    BY <2>1, <2>2, <2>3, <2>4, <2>5, <2>7 DEF IsEntry
  <2> QED
    BY <2>2, <2>3, <2>6
<1>4. e.windowStart \in 0..MaxTime /\ e.count \in 0..MaxAttempts /\ e.windowStart <= time
  BY DEF Explains, IsEntry
<1>5. \A i \in 1..n :
        /\ l[i] <= time
        /\ i <= n - e.count => l[i] <= e.windowStart
        /\ i <= n - e.count - MaxAttempts => l[i] + Window <= e.windowStart
  BY <1>1 DEF Explains
<1> HIDE DEF m, new, n
<1>6. ASSUME NEW i \in DOMAIN m
      PROVE  /\ m[i] <= time
             /\ i <= Len(m) - new.count => m[i] <= e.windowStart
             /\ i <= Len(m) - new.count - MaxAttempts => m[i] + Window <= e.windowStart
  <2>1. Len(m) = n + 1 /\ new.count = e.count + 1 /\ i \in 1..(n + 1)
    BY <1>2, <1>3
  <2>0. Len(m) - new.count = n - e.count /\ n - e.count <= n
    <3>1. n \in Int /\ e.count \in Int /\ e.count >= 0
      BY <1>1, <1>4
    <3> QED
      BY <2>1, <3>1, BothOneMore
  <2>2. CASE i = n + 1
    <3>1. ~(i <= n - e.count) /\ ~(i <= n - e.count - MaxAttempts)
      BY <1>1, <1>4, <2>2
    <3>2. m[i] = time
      BY <1>2, <2>2
    <3> QED
      BY <2>0, <3>1, <3>2
  <2>3. CASE i # n + 1
    <3>1. i \in 1..n /\ m[i] = l[i]
      BY <1>1, <1>2, <2>1, <2>3
    <3> QED
      BY <1>5, <2>0, <3>1
  <2> QED
    BY <2>2, <2>3
<1>7. ASSUME NEW i \in DOMAIN m, NEW j \in DOMAIN m, j = i + 2 * MaxAttempts
      PROVE  m[j] >= m[i] + Window
  <2>1. CASE j = n + 1
    <3>1. i \in 1..n /\ i <= n - e.count - MaxAttempts
      <4>1. i \in Int /\ i >= 1 /\ n \in Nat /\ i + 2 * MaxAttempts = n + 1
        BY <1>1, <1>2, <1>7, <2>1
      <4>2. e.count \in Nat /\ e.count + 1 <= MaxAttempts
        BY <1>4
      <4> QED
        BY <4>1, <4>2
    <3>2. l[i] + Window <= e.windowStart
      BY <3>1, <1>5
    <3>3. l[i] \in 0..MaxTime /\ m[i] = l[i]
      BY <3>1, <1>1, <1>2
    <3>4. m[j] = time
      BY <1>2, <2>1
    <3> QED
      BY <3>2, <3>3, <3>4, <1>4
  <2>2. CASE j # n + 1
    <3>1. i \in DOMAIN l /\ j \in DOMAIN l /\ m[i] = l[i] /\ m[j] = l[j]
      BY <1>1, <1>2, <1>7, <2>2
    <3> QED
      BY <3>1, <1>7 DEF Spaced
  <2> QED
    BY <2>1, <2>2
<1>8. Explains(new, m, time)
  BY <1>2, <1>3, <1>4, <1>6 DEF Explains
<1>9. Spaced(m)
  BY <1>7 DEF Spaced
<1> QED
  BY <1>8, <1>9 DEF m, new


LEMMA AcquiredEntries ==
  ASSUME UnlockInv, AttemptInv, NEW r \in Unlocks, NEW p \in Passwords, Acquire(r, p)
  PROVE  LET c == unlock[r].client
         IN  /\ c \in Clients /\ UNCHANGED time
             /\ Evicted = [d \in Clients |-> EvictedEntry(entries[d])]
             /\ \/ entries' = Evicted /\ UNCHANGED tries
                \/ /\ Evicted[c].held \/ Cardinality(Held(Evicted)) < MaxKeys
                   /\ entries' = [Evicted EXCEPT ![c] = OpenedEntry(Evicted[c])] /\ UNCHANGED tries
                \/ /\ Evicted[c].held \/ Cardinality(Held(Evicted)) < MaxKeys
                   /\ OpenedEntry(Evicted[c]).count < MaxAttempts
                   /\ entries' = [Evicted EXCEPT ![c] = [OpenedEntry(Evicted[c]) EXCEPT !.count = @ + 1]]
                   /\ tries' = [tries EXCEPT ![c] = Append(@, time)]
<1> USE PasswordBounds
<1> DEFINE c == unlock[r].client
<1>1. c \in Clients
  BY DEF Acquire, UnlockInv, IsUnlock
<1>2. Evicted = [d \in Clients |-> EvictedEntry(entries[d])]
  BY DEF Evicted, EvictedEntry
<1>3. Opened(Evicted, c) = OpenedEntry(Evicted[c])
  BY DEF Opened, OpenedEntry
<1>4. Held(Evicted) \in SUBSET Clients /\ Cardinality(Held(Evicted)) \in Nat
  <2>1. Held(Evicted) \in SUBSET Clients
    BY DEF Held
  <2> QED
    BY <2>1, FS_Subset, FS_CardinalityType, PasswordsAssumption
<1>5. /\ UNCHANGED time
      /\ \/ entries' = Evicted /\ UNCHANGED tries
         \/ /\ Evicted[c].held \/ ~(Cardinality(Held(Evicted)) >= MaxKeys)
            /\ entries' = [Evicted EXCEPT ![c] = Opened(Evicted, c)] /\ UNCHANGED tries
         \/ /\ Evicted[c].held \/ ~(Cardinality(Held(Evicted)) >= MaxKeys)
            /\ Opened(Evicted, c).count < MaxAttempts
            /\ entries' = [Evicted EXCEPT ![c] = [Opened(Evicted, c) EXCEPT !.count = @ + 1]]
            /\ tries' = [tries EXCEPT ![c] = Append(@, time)]
  BY Zenon DEF Acquire, Admit
<1>6. ~(Cardinality(Held(Evicted)) >= MaxKeys) => Cardinality(Held(Evicted)) < MaxKeys
  BY <1>4
<1> HIDE DEF c
<1>7. /\ c \in Clients /\ UNCHANGED time
      /\ Evicted = [d \in Clients |-> EvictedEntry(entries[d])]
      /\ \/ entries' = Evicted /\ UNCHANGED tries
         \/ /\ Evicted[c].held \/ Cardinality(Held(Evicted)) < MaxKeys
            /\ entries' = [Evicted EXCEPT ![c] = OpenedEntry(Evicted[c])] /\ UNCHANGED tries
         \/ /\ Evicted[c].held \/ Cardinality(Held(Evicted)) < MaxKeys
            /\ OpenedEntry(Evicted[c]).count < MaxAttempts
            /\ entries' = [Evicted EXCEPT ![c] = [OpenedEntry(Evicted[c]) EXCEPT !.count = @ + 1]]
            /\ tries' = [tries EXCEPT ![c] = Append(@, time)]
  BY <1>1, <1>2, <1>3, <1>5, <1>6, Zenon
<1> QED
  BY <1>7 DEF c

\* The attempts of every client stay explained, and spaced, whoever is evicted, refused or let in.
LEMMA AttemptStep ==
  ASSUME UnlockInv, AttemptInv, PasswordMove
  PROVE  AttemptInv'
<1> USE PasswordBounds
<1>0. time \in 0..MaxTime
  BY DEF UnlockInv
<1>1. ASSUME NEW r \in Unlocks, NEW p \in Passwords, Acquire(r, p) PROVE AttemptInv'
  <2> DEFINE c == unlock[r].client
             E == Evicted
             o == OpenedEntry(E[c])
             counted == [o EXCEPT !.count = @ + 1]
  <2>1. /\ c \in Clients /\ UNCHANGED time
        /\ E = [d \in Clients |-> EvictedEntry(entries[d])]
        /\ \/ entries' = E /\ UNCHANGED tries
           \/ entries' = [E EXCEPT ![c] = o] /\ UNCHANGED tries
           \/ /\ o.count < MaxAttempts
              /\ entries' = [E EXCEPT ![c] = counted]
              /\ tries' = [tries EXCEPT ![c] = Append(@, time)]
    BY <1>1, AcquiredEntries, Zenon
  <2>2. \A d \in Clients : Explains(E[d], tries[d], time) /\ Spaced(tries[d])
    BY <1>0, <2>1, ExplainsEvicted DEF AttemptInv
  <2>3. Explains(o, tries[c], time) /\ o.held
    BY <1>0, <2>1, <2>2, ExplainsOpened
  <2>4. o.lastSeen = time
    BY <2>1, <2>2 DEF OpenedEntry, Explains, IsEntry
  <2>5. o.count < MaxAttempts =>
          Explains(counted, Append(tries[c], time), time) /\ Spaced(Append(tries[c], time))
    <3> HIDE DEF o
    <3> QED
      BY <1>0, <2>1, <2>2, <2>3, <2>4, ExplainsCounted
  <2> HIDE DEF o, counted, c, E
  <2>6. entries' = [d \in Clients |-> entries'[d]] /\ tries' = [d \in Clients |-> tries'[d]]
    BY <2>1 DEF AttemptInv
  <2>7. ASSUME NEW d \in Clients PROVE Explains(entries'[d], tries'[d], time) /\ Spaced(tries'[d])
    <3>1. CASE d # c
      <4>1. entries'[d] = E[d] /\ tries'[d] = tries[d]
        BY <2>1, <3>1 DEF AttemptInv
      <4> QED
        BY <4>1, <2>2
    <3>2. CASE d = c /\ UNCHANGED tries
      <4>1. entries'[d] = E[d] \/ entries'[d] = o \/ (tries'[c] = Append(tries[c], time) /\ entries'[d] = counted /\ o.count < MaxAttempts)
        BY <2>1, <3>2 DEF AttemptInv
      <4> QED
        BY <4>1, <2>2, <2>3, <2>5, <3>2
    <3>3. CASE d = c /\ tries' = [tries EXCEPT ![c] = Append(@, time)] /\ entries' = [E EXCEPT ![c] = counted]
               /\ o.count < MaxAttempts
      <4>1. entries'[d] = counted /\ tries'[d] = Append(tries[c], time)
        BY <2>1, <3>3 DEF AttemptInv
      <4> QED
        BY <4>1, <2>5, <3>3
    <3> QED
      BY <2>1, <3>1, <3>2, <3>3
  <2> QED
    BY <2>1, <2>6, <2>7 DEF AttemptInv
<1>2. ASSUME NEW r \in Unlocks, Compare(r) PROVE AttemptInv'
  <2> DEFINE c == unlock[r].client
  <2>1. c \in Clients /\ UNCHANGED time
    BY <1>2 DEF Compare, UnlockInv, IsUnlock
  <2>2. \/ UNCHANGED <<entries, tries>>
        \/ entries' = [entries EXCEPT ![c] = NoEntry] /\ tries' = [tries EXCEPT ![c] = NoTries]
    BY <1>2 DEF Compare
  <2> HIDE DEF c
  <2> QED
    BY <2>1, <2>2, ExplainsNothing DEF AttemptInv
<1>3. ASSUME Tick PROVE AttemptInv'
  <2>1. time' \in 0..MaxTime /\ time <= time' /\ UNCHANGED <<entries, tries>>
    BY <1>0, <1>3 DEF Tick
  <2> QED
    BY <1>0, <2>1, ExplainsLater DEF AttemptInv
<1>4. ASSUME NewService PROVE AttemptInv'
  BY <1>4, ExplainsNothing DEF NewService, AttemptInv
<1>5. ASSUME UNCHANGED <<entries, tries, time>> PROVE AttemptInv'
  BY <1>5 DEF AttemptInv
<1> QED
  BY <1>1, <1>2, <1>3, <1>4, <1>5 DEF PasswordMove, SetTx, UnlockRead

\* No more comparisons than slots, no more entries than keys.
SlotInv ==
  /\ Cardinality(Comparing) <= MaxConcurrent
  /\ Cardinality(Held(entries)) <= MaxKeys

LEMMA SmallSets ==
  /\ \A S \in SUBSET Clients : IsFiniteSet(S) /\ Cardinality(S) \in Nat
  /\ \A S \in SUBSET Unlocks : IsFiniteSet(S) /\ Cardinality(S) \in Nat
  BY FS_Subset, FS_CardinalityType, PasswordsAssumption

LEMMA SlotStep ==
  ASSUME UnlockInv, AttemptInv, SlotInv, PasswordMove
  PROVE  SlotInv'
<1> USE PasswordBounds
<1>0. /\ Comparing \in SUBSET Unlocks /\ Comparing' \in SUBSET Unlocks
      /\ Held(entries) \in SUBSET Clients /\ Held(entries') \in SUBSET Clients
  BY DEF Comparing, Held
<1>1. ASSUME Comparing' \in SUBSET Comparing PROVE Cardinality(Comparing') <= MaxConcurrent
  BY <1>0, <1>1, SmallSets, Fewer DEF SlotInv
<1>2. ASSUME Held(entries') \in SUBSET Held(entries) PROVE Cardinality(Held(entries')) <= MaxKeys
  BY <1>0, <1>2, SmallSets, Fewer DEF SlotInv
<1>3. ASSUME NEW r \in Unlocks, NEW p \in Passwords, Acquire(r, p) PROVE SlotInv'
  <2>1. Cardinality(Comparing') <= MaxConcurrent
    <3>1. CASE unlock' = [unlock EXCEPT ![r] = Idle]
      <4>1. Comparing' \in SUBSET Comparing
        BY <3>1, IdleUnlock DEF Comparing, UnlockInv
      <4> QED
        BY <4>1, <1>1
    <3>2. CASE Cardinality(Comparing) < MaxConcurrent
               /\ unlock' = [unlock EXCEPT ![r] = [@ EXCEPT !.pc = "compare", !.guess = p]]
      <4>1. Comparing' \in SUBSET (Comparing \cup {r})
        BY <3>2 DEF Comparing, UnlockInv
      <4>2. Cardinality(Comparing') <= Cardinality(Comparing) + 1
        BY <4>1, <1>0, SmallSets, OneMore
      <4>3. Cardinality(Comparing') \in Nat /\ Cardinality(Comparing) \in Nat
        BY <1>0, SmallSets
      <4> QED
        BY <4>2, <4>3, <3>2
    <3> QED
      BY <1>3, <3>1, <3>2 DEF Acquire, Admit
  <2>2. Cardinality(Held(entries')) <= MaxKeys
    <3> DEFINE c == unlock[r].client
               E == Evicted
               o == OpenedEntry(E[c])
               counted == [o EXCEPT !.count = @ + 1]
    <3>1. /\ c \in Clients
          /\ E = [d \in Clients |-> EvictedEntry(entries[d])]
          /\ \/ entries' = E
             \/ /\ E[c].held \/ Cardinality(Held(E)) < MaxKeys
                /\ entries' = [E EXCEPT ![c] = o] \/ entries' = [E EXCEPT ![c] = counted]
      BY <1>3, AcquiredEntries, Zenon
    <3>2. Held(E) \in SUBSET Held(entries) /\ Held(E) \in SUBSET Clients
      BY <3>1 DEF Held, EvictedEntry, NoEntry
    <3>3. Cardinality(Held(E)) <= MaxKeys
      BY <1>0, <3>2, SmallSets, Fewer DEF SlotInv
    <3> HIDE DEF c, E, o, counted
    <3>4. CASE entries' = E
      BY <3>3, <3>4
    <3>5. CASE entries' # E
      <4>1. Held(entries') \in SUBSET (Held(E) \cup {c})
        BY <3>1, <3>5 DEF Held
      <4>2. CASE E[c].held
        <5>1. Held(entries') \in SUBSET Held(E)
          BY <4>1, <4>2, <3>1 DEF Held
        <5> QED
          BY <5>1, <3>2, <3>3, SmallSets, Fewer
      <4>3. CASE Cardinality(Held(E)) < MaxKeys
        <5>1. Cardinality(Held(entries')) <= Cardinality(Held(E)) + 1
          BY <4>1, <3>2, SmallSets, OneMore
        <5>2. Cardinality(Held(entries')) \in Nat /\ Cardinality(Held(E)) \in Nat
          BY <1>0, <3>2, SmallSets
        <5> QED
          BY <5>1, <5>2, <4>3
      <4> QED
        BY <3>1, <3>5, <4>2, <4>3
    <3> QED
      BY <3>4, <3>5
  <2> QED
    BY <2>1, <2>2 DEF SlotInv, Held
<1>4. ASSUME NEW r \in Unlocks, Compare(r) PROVE SlotInv'
  <2>1. Comparing' \in SUBSET Comparing
    BY <1>4, IdleUnlock DEF Compare, Comparing, UnlockInv
  <2>2. Held(entries') \in SUBSET Held(entries)
    <3>1. ASSUME NEW d \in Clients, entries'[d].held PROVE entries[d].held
      <4>1. entries' = entries \/ entries' = [entries EXCEPT ![unlock[r].client] = NoEntry]
        BY <1>4 DEF Compare
      <4>2. ~NoEntry.held
        BY DEF NoEntry
      <4> QED
        BY <3>1, <4>1, <4>2 DEF AttemptInv
    <3> QED
      BY <3>1 DEF Held
  <2> QED
    BY <2>1, <2>2, <1>1, <1>2 DEF SlotInv, Held
<1>5. ASSUME NewService PROVE SlotInv'
  <2>1. Comparing' \in SUBSET Comparing
    BY <1>5, IdleUnlock DEF NewService, Comparing
  <2>2. Held(entries') \in SUBSET Held(entries)
    BY <1>5 DEF NewService, Held, NoEntry
  <2> QED
    BY <2>1, <2>2, <1>1, <1>2 DEF SlotInv, Held
<1>6. ASSUME NEW r \in Unlocks, NEW c \in Clients, UnlockRead(r, c) PROVE SlotInv'
  <2>1. Comparing' \in SUBSET Comparing
    BY <1>6 DEF UnlockRead, Comparing, UnlockInv
  <2> QED
    BY <2>1, <1>1, <1>6 DEF SlotInv, Held, UnlockRead
<1>7. ASSUME UNCHANGED <<unlock, entries>> PROVE SlotInv'
  BY <1>7 DEF SlotInv, Held, Comparing
<1> QED
  BY <1>3, <1>4, <1>5, <1>6, <1>7 DEF PasswordMove, SetTx, Tick


-----------------------------------------------------------------------------
(* Discussions *)

LEMMA CommentBounds ==
  /\ Owner \in Users /\ None \notin Users /\ None \notin Threads
  /\ Releases \in SUBSET Nat /\ 0 \notin Releases /\ MaxEvents \in Nat
  BY CommentsAssumption

Kinds == {"comment", "reply", "reanchor", "resolve", "reopen", "delete"}

LEMMA EventKinds ==
  /\ DOMAIN NewStatus = {"reply", "reanchor", "resolve", "reopen", "delete"}
  /\ NewStatus["reply"] = "same" /\ NewStatus["reanchor"] = "same"
  /\ NewStatus["resolve"] = "resolved" /\ NewStatus["reopen"] = "open"
  /\ NewStatus["delete"] = "deleted"
  /\ DOMAIN Promise!StatusOf = {"comment", "resolve", "reopen", "delete"}
  /\ Promise!StatusOf["comment"] = "open" /\ Promise!StatusOf["resolve"] = "resolved"
  /\ Promise!StatusOf["reopen"] = "open" /\ Promise!StatusOf["delete"] = "deleted"
  /\ Promise!Guarded = {"resolve", "reopen", "delete", "reanchor"}
  BY DEF NewStatus, Promise!StatusOf, Promise!Guarded

LEMMA LogKinds == \A e \in LogEvents : e.kind \in Kinds
  BY EventKinds DEF LogEvents, Kinds

\* A set of positions that is not empty has a last one.
LEMMA LastPosition ==
  ASSUME NEW n \in Nat, NEW S \in SUBSET (1..n), S # {}
  PROVE  Max(S) \in S /\ \A x \in S : Max(S) >= x
<1> DEFINE N == {k \in Nat : n - k \in S}
<1>1. N \in SUBSET Nat /\ N # {}
  <2>1. PICK x \in S : TRUE
    OBVIOUS
  <2>2. n - x \in Nat /\ n - (n - x) = x
    BY <2>1
  <2> QED
    BY <2>1, <2>2
<1>2. PICK m \in N : \A k \in N : m <= k
  <2> HIDE DEF N
  <2> QED
    BY <1>1, LeastNumber
<1>3. n - m \in S /\ \A x \in S : n - m >= x
  <2>1. ASSUME NEW x \in S PROVE n - m >= x
    <3>1. n - x \in Nat /\ n - (n - x) = x
      OBVIOUS
    <3>2. n - x \in N
      BY <3>1
    <3>3. m <= n - x /\ m \in Nat
      BY <3>2, <1>2
    <3> QED
      BY <3>3
  <2> QED
    BY <1>2, <2>1
<1> QED
  BY <1>3 DEF Max

LEMMA StatusAppend ==
  ASSUME NEW l \in Seq(LogEvents), NEW e \in LogEvents
  PROVE  Promise!Status(Append(l, e)) =
           IF e.kind \in DOMAIN Promise!StatusOf THEN Promise!StatusOf[e.kind] ELSE Promise!Status(l)
<1> DEFINE m == Append(l, e)
           D == DOMAIN Promise!StatusOf
           S == {i \in DOMAIN l : l[i].kind \in D}
           T == {i \in DOMAIN m : m[i].kind \in D}
           n == Len(l)
<1>1. /\ n \in Nat /\ DOMAIN l = 1..n /\ DOMAIN m = 1..(n + 1) /\ m[n + 1] = e
      /\ \A i \in 1..n : m[i] = l[i]
  OBVIOUS
<1>2. /\ Promise!Status(l) = IF S = {} THEN "none" ELSE Promise!StatusOf[l[Max(S)].kind]
      /\ Promise!Status(m) = IF T = {} THEN "none" ELSE Promise!StatusOf[m[Max(T)].kind]
  BY DEF Promise!Status, Promise!Max, Max
<1> HIDE DEF m, n, D
<1>3. CASE e.kind \in D
  <2>1. n + 1 \in T /\ T \in SUBSET (1..(n + 1)) /\ n + 1 \in Nat
    BY <1>1, <1>3
  <2> HIDE DEF T
  <2>2. Max(T) \in T /\ Max(T) >= n + 1
    BY <2>1, LastPosition
  <2>3. Max(T) = n + 1
    <3>1. Max(T) \in 1..(n + 1)
      BY <2>1, <2>2
    <3> QED
      BY <1>1, <2>2, <3>1
  <2> QED
    BY <1>1, <1>2, <1>3, <2>1, <2>3 DEF m, D
<1>4. CASE e.kind \notin D
  <2>1. T = S /\ S \in SUBSET (1..n)
    BY <1>1, <1>4
  <2> HIDE DEF S, T
  <2>2. S # {} => Max(S) \in 1..n
    BY <1>1, <2>1, LastPosition
  <2> QED
    BY <1>1, <1>2, <1>4, <2>1, <2>2 DEF m, D
<1> QED
  BY <1>3, <1>4


\* What is published was uploaded once.
ProjectInv ==
  /\ state \in {"enabled", "disabled", "barred"} /\ enhanced \in BOOLEAN
  /\ readers \in SUBSET (Users \ {Owner})
  /\ ever \in SUBSET Releases /\ releases \in SUBSET ever
  /\ published \in SUBSET ever /\ current \in published \cup {0}

\* A handler past its check carries a user, a client and what it was let in by.
CallInv ==
  /\ call = [k \in Calls |-> call[k]]
  /\ \A k \in Calls : call[k].pc = "checked" =>
       /\ call[k].user \in Users /\ call[k].client \in Clients
       /\ call[k].version \in Nat /\ call[k].version <= record.version
       /\ \/ call[k].user = Owner \/ ~call[k].protected
          \/ proof[call[k].client].secret = secret /\ proof[call[k].client].version > 0

\* A thread x is the summary of its events l, which name releases of the set up; it stands on
\* releases of the set pub.
IsThread(x) ==
  /\ x \in [status : {"none", "open", "resolved", "deleted"}, revision : Nat,
            release : Releases \cup {0}, original : Releases \cup {0}, author : Users \cup {None}]

Sums(x, l, up, pub) ==
  /\ l \in Seq(LogEvents) /\ IsThread(x)
  /\ x # NoThread => x.release \in pub /\ x.original \in pub
  /\ \A i \in DOMAIN l : l[i].source \in up
  /\ x.revision = Len(l) /\ x.status = Promise!Status(l)
  /\ IF l = <<>> THEN x = NoThread ELSE x.author = l[1].actor

ThreadInv ==
  /\ thread = [t \in Threads |-> thread[t]] /\ events = [t \in Threads |-> events[t]]
  /\ \A t \in Threads : Sums(thread[t], events[t], ever, published)

Written(k, t, req, rel) ==
  \/ Comment(k, t, req, rel)
  \/ \E action \in DOMAIN NewStatus, revision \in 0..MaxEvents :
       Mutate(k, t, action, revision, req, rel)

\* What a step may do to the project, the handlers and the threads.
ProjectMove ==
  \/ \E rel \in Releases : Upload(rel) \/ Publish(rel) \/ Prune(rel)
  \/ ChangeProject

HandlerMove ==
  \E k \in Calls :
    \/ \E u \in Users, c \in Clients : Begin(k, u, c)
    \/ Refuse(k)
    \/ \E t \in Threads, req \in Requests, rel \in Releases \cup {0} : Written(k, t, req, rel)

LEMMA Moves ==
  ASSUME [Next]_vars
  PROVE  \/ ProjectMove /\ UNCHANGED <<pwVars, thread, events, call>>
         \/ HandlerMove /\ UNCHANGED <<pwVars, projectVars>>
         \/ PasswordMove /\ UNCHANGED <<projectVars, thread, events, call, secret>>
         \/ PasswordMove /\ Restart
         \/ UNCHANGED vars
<1>1. ASSUME NEW p \in Passwords \cup {None}, NEW v \in 0..MaxVersion, SetResourcePassword(p, v)
      PROVE  PasswordMove /\ UNCHANGED <<projectVars, thread, events, call, secret>>
  BY <1>1 DEF SetResourcePassword, PasswordMove, SetTx
<1>2. ASSUME PasswordStep PROVE PasswordMove /\ UNCHANGED secret
  BY <1>2 DEF PasswordStep, PasswordMove, Compare, Acquire, Tick
<1>3. ASSUME NEW r \in Unlocks, NEW c \in Clients, UnlockProject(r, c)
      PROVE  PasswordMove /\ UNCHANGED <<projectVars, thread, events, call, secret>>
  BY <1>3 DEF UnlockProject, PasswordMove, UnlockRead
<1>4. ASSUME NEW rel \in Releases, Upload(rel) \/ Publish(rel) \/ Prune(rel)
      PROVE  ProjectMove /\ UNCHANGED <<pwVars, thread, events, call>>
  BY <1>4 DEF Upload, Publish, Prune, ProjectMove
<1>5. ASSUME ChangeProject PROVE ProjectMove /\ UNCHANGED <<pwVars, thread, events, call>>
  BY <1>5 DEF ChangeProject, ProjectMove
<1>6. ASSUME NEW k \in Calls, NEW u \in Users, NEW c \in Clients, Begin(k, u, c)
      PROVE  HandlerMove /\ UNCHANGED <<pwVars, projectVars>>
  BY <1>6 DEF Begin, HandlerMove
<1>7. ASSUME NEW k \in Calls, Refuse(k) PROVE HandlerMove /\ UNCHANGED <<pwVars, projectVars>>
  BY <1>7 DEF Refuse, HandlerMove
<1>8. ASSUME NEW k \in Calls, NEW t \in Threads, NEW req \in Requests, NEW rel \in Releases \cup {0},
             Comment(k, t, req, rel)
      PROVE  HandlerMove /\ UNCHANGED <<pwVars, projectVars>>
  <2>1. UNCHANGED <<pwVars, projectVars>>
    BY <1>8 DEF Comment
  <2> QED
    BY <1>8, <2>1, Zenon DEF HandlerMove, Written
<1>9. ASSUME NEW k \in Calls, NEW t \in Threads, NEW req \in Requests, NEW rel \in Releases \cup {0},
             NEW action \in DOMAIN NewStatus, NEW revision \in 0..MaxEvents,
             Mutate(k, t, action, revision, req, rel)
      PROVE  HandlerMove /\ UNCHANGED <<pwVars, projectVars>>
  <2>1. UNCHANGED <<pwVars, projectVars>>
    BY <1>9 DEF Mutate
  <2> QED
    BY <1>9, <2>1, Zenon DEF HandlerMove, Written
<1>10. ASSUME Restart PROVE PasswordMove
  BY <1>10 DEF Restart, PasswordMove
<1> QED
  BY <1>1, <1>2, <1>3, <1>4, <1>5, <1>6, <1>7, <1>8, <1>9, <1>10 DEF Next

LEMMA ProjectStep ==
  ASSUME ProjectInv, [Next]_vars
  PROVE  ProjectInv' /\ ever \in SUBSET ever' /\ published \in SUBSET published'
<1> USE CommentBounds
<1>1. ASSUME NEW rel \in Releases, Upload(rel) \/ Publish(rel) \/ Prune(rel)
      PROVE  ProjectInv' /\ ever \in SUBSET ever' /\ published \in SUBSET published'
  <2>1. CASE Publish(rel)
    BY <2>1 DEF Publish, ProjectInv
  <2>2. CASE Prune(rel)
    BY <2>2 DEF Prune, ProjectInv
  <2>3. CASE Upload(rel)
    BY <2>3 DEF Upload, ProjectInv
  <2> QED
    BY <1>1, <2>1, <2>2, <2>3
<1>2. ASSUME ChangeProject PROVE ProjectInv' /\ ever \in SUBSET ever' /\ published \in SUBSET published'
  <2>1. UNCHANGED <<current, releases, ever, published>>
    BY <1>2 DEF ChangeProject
  <2>2. state' \in {"enabled", "disabled", "barred"}
    BY <1>2 DEF ChangeProject, ProjectInv
  <2>3. enhanced' \in BOOLEAN
    BY <1>2 DEF ChangeProject, ProjectInv
  <2>4. readers' \in SUBSET (Users \ {Owner})
    BY <1>2 DEF ChangeProject, ProjectInv
  <2> QED
    BY <2>1, <2>2, <2>3, <2>4 DEF ProjectInv
<1>3. ASSUME UNCHANGED projectVars PROVE ProjectInv' /\ ever \in SUBSET ever' /\ published \in SUBSET published'
  BY <1>3 DEF ProjectInv, projectVars
<1> QED
  BY <1>1, <1>2, <1>3, Moves DEF ProjectMove, Restart, vars

LEMMA CallStep ==
  ASSUME UnlockInv, GrantInv, CallInv, [Next]_vars
  PROVE  CallInv'
<1> USE PasswordBounds
<1>0. record.version \in 0..MaxVersion
  BY DEF UnlockInv, Records
<1>1. ASSUME NEW k \in Calls, NEW u \in Users, NEW c \in Clients, Begin(k, u, c), UNCHANGED pwVars
      PROVE  CallInv'
  <2> DEFINE new == [pc |-> "checked", user |-> u, client |-> c, version |-> record.version,
                     protected |-> PasswordProtected, secret |-> secret]
  <2>1. call' = [call EXCEPT ![k] = new] /\ UNCHANGED <<record, proof, secret>>
    BY <1>1 DEF Begin, pwVars
  <2>2. u = Owner \/ ~PasswordProtected \/ (proof[c].secret = secret /\ proof[c].version > 0)
    <3>1. ASSUME validGrant(c) PROVE proof[c].secret = secret /\ proof[c].version > 0
      BY <3>1 DEF validGrant, GrantInv, UnlockInv
    <3> QED
      BY <1>1, <3>1 DEF Begin, Authorize
  <2>3. /\ new.user = u /\ new.client = c /\ new.version = record.version
    OBVIOUS
  <2>4. new.protected <=> PasswordProtected
    OBVIOUS
  <2> HIDE DEF new
  <2> QED
    BY <1>0, <2>1, <2>2, <2>3, <2>4 DEF CallInv
<1>2. ASSUME NEW k \in Calls, call' = [call EXCEPT ![k] = NoCall], UNCHANGED pwVars PROVE CallInv'
  <2>1. NoCall.pc = "idle"
    BY DEF NoCall
  <2> QED
    BY <1>2, <2>1 DEF CallInv, pwVars
<1>3. ASSUME HandlerMove, UNCHANGED pwVars PROVE CallInv'
  BY <1>1, <1>2, <1>3 DEF HandlerMove, Refuse, Written, Comment, Mutate
<1>4. ASSUME PasswordMove, UNCHANGED <<call, secret>> PROVE CallInv'
  <2>1. record.version <= record'.version /\ record'.version \in 0..MaxVersion
    BY <1>4, UnlockStep DEF UnlockInv, Records
  <2>2. ASSUME NEW k \in Calls, call[k].pc = "checked"
        PROVE  call[k].version <= record'.version
    BY <1>0, <2>1, <2>2 DEF CallInv
  <2>3. ASSUME NEW c \in Clients, proof[c].secret = secret, proof[c].version > 0
        PROVE  proof'[c].secret = secret /\ proof'[c].version > 0
    BY <1>4, <2>3, ProofStays
  <2> QED
    BY <1>4, <2>2, <2>3 DEF CallInv
<1>5. ASSUME Restart PROVE CallInv'
  BY <1>5 DEF Restart, CallInv, NoCall
<1>6. ASSUME UNCHANGED <<call, pwVars>> PROVE CallInv'
  BY <1>6 DEF CallInv, pwVars
<1> QED
  BY <1>3, <1>4, <1>5, <1>6, Moves DEF vars


\* What the log of a thread l promises of an event e that is added to it.
Fitting(l, e) ==
  /\ (e.kind = "comment") = (l = <<>>)
  /\ e.kind \in Promise!Guarded => e.seen = Len(l) /\ e.actor \in {Owner, l[1].actor}
  /\ Promise!Status(l) = "deleted" => e.kind = "reopen"
  /\ e.kind = "resolve" => Promise!Status(l) = "open"
  /\ e.kind = "reopen" => Promise!Status(l) # "open"

\* A write adds the event e to thread t, which then is x.
Grows(t, e, x) ==
  /\ e \in LogEvents
  /\ events' = [events EXCEPT ![t] = Append(events[t], e)] /\ thread' = [thread EXCEPT ![t] = x]
  /\ CanRead(e.actor) /\ enhanced /\ ~Seen(e.actor, e.request)
  /\ e.source \in ever /\ Fitting(events[t], e)
  /\ Sums(x, Append(events[t], e), ever, published)

\* A thread without events is none, one with events is some.
LEMMA ThreadOrNone ==
  ASSUME NEW x, NEW l, NEW up, NEW pub, Sums(x, l, up, pub)
  PROVE  /\ x = NoThread <=> l = <<>>
         /\ l # <<>> => l[1] \in LogEvents /\ x.author = l[1].actor
         /\ Len(l) \in Nat
<1>1. l = <<>> => x = NoThread
  BY DEF Sums
<1>2. l # <<>> => Len(l) > 0 /\ x.revision > 0 /\ l[1] \in LogEvents
  BY DEF Sums
<1>3. NoThread.revision = 0
  BY DEF NoThread
<1> QED
  BY <1>1, <1>2, <1>3 DEF Sums

LEMMA CommentGrows ==
  ASSUME ProjectInv, CallInv, ThreadInv, NEW k \in Calls, NEW t \in Threads, NEW req \in Requests,
         NEW rel \in Releases \cup {0}, Comment(k, t, req, rel)
  PROVE  \E e, x : Grows(t, e, x)
<1> USE CommentBounds, EventKinds
<1> DEFINE u == call[k].user
           e == Event(k, "comment", 0, req, rel)
           x == [status |-> "open", revision |-> 1, release |-> rel, original |-> rel, author |-> u]
           l == events[t]
<1>1. /\ CanRead(u) /\ enhanced /\ ~Seen(u, req) /\ rel = current /\ thread[t] = NoThread
      /\ events' = [events EXCEPT ![t] = Append(l, e)] /\ thread' = [thread EXCEPT ![t] = x]
      /\ call[k].pc = "checked"
  BY DEF Comment, Log
<1>2. u \in Users /\ rel \in published /\ rel \in ever /\ rel \in Releases
  BY <1>1 DEF CallInv, CanRead, ProjectInv
<1>3. /\ e \in LogEvents /\ e.actor = u /\ e.request = req /\ e.source = rel /\ e.kind = "comment"
  BY <1>2 DEF Event, LogEvents
<1>4. l = <<>> /\ l \in Seq(LogEvents)
  BY <1>1, ThreadOrNone DEF ThreadInv, Sums
<1>5. /\ IsThread(x) /\ x.release = rel /\ x.original = rel /\ x.revision = 1
      /\ x.status = "open" /\ x.author = u
  BY <1>2 DEF IsThread
<1> HIDE DEF x, e, u, l
<1>6. /\ Append(l, e) \in Seq(LogEvents) /\ Len(Append(l, e)) = 1 /\ Append(l, e)[1] = e
      /\ DOMAIN Append(l, e) = {1} /\ Append(l, e) # <<>>
  BY <1>3, <1>4
<1>7. Promise!Status(Append(l, e)) = "open"
  BY <1>3, <1>4, StatusAppend
<1>8. Sums(x, Append(l, e), ever, published)
  BY <1>2, <1>3, <1>5, <1>6, <1>7 DEF Sums
<1>9. Promise!Status(l) = "none"
  BY <1>4 DEF Promise!Status
<1>10. Fitting(l, e)
  BY <1>3, <1>4, <1>9 DEF Fitting
<1>11. Grows(t, e, x)
  BY <1>1, <1>2, <1>3, <1>8, <1>10 DEF Grows, l
<1> QED
  BY <1>11

LEMMA MutateGrows ==
  ASSUME ProjectInv, CallInv, ThreadInv, NEW k \in Calls, NEW t \in Threads, NEW req \in Requests,
         NEW rel \in Releases \cup {0}, NEW action \in DOMAIN NewStatus, NEW revision \in 0..MaxEvents,
         Mutate(k, t, action, revision, req, rel)
  PROVE  \E e, x : Grows(t, e, x)
<1> USE CommentBounds, EventKinds
<1> DEFINE u == call[k].user
           src == IF rel = 0 THEN current ELSE rel
           e == Event(k, action, revision, req, src)
           x == Advanced(t, action, rel)
           l == events[t]
           y == thread[t]
<1>1. /\ CanRead(u) /\ enhanced /\ ~Seen(u, req) /\ thread[t] # NoThread
      /\ events' = [events EXCEPT ![t] = Append(l, e)] /\ thread' = [thread EXCEPT ![t] = x]
      /\ call[k].pc = "checked"
      /\ IF action = "reanchor" THEN rel = current ELSE rel = 0 \/ knownProjectRelease(rel)
      /\ IF action = "reply" THEN y.status # "deleted" ELSE Moderate(u, t, action, revision)
  BY DEF Mutate, Log
<1>2. u \in Users /\ current \in published /\ published \in SUBSET ever /\ ever \in SUBSET Releases
  BY <1>1 DEF CallInv, CanRead, ProjectInv
<1>3. Sums(y, l, ever, published) /\ l # <<>> /\ Len(l) \in Nat /\ y.author = l[1].actor
  BY <1>1, ThreadOrNone DEF ThreadInv
<1>4. src \in ever /\ src \in Releases /\ (action = "reanchor" => rel \in published)
  <2>1. rel # 0 /\ knownProjectRelease(rel) => rel \in ever
    <3>1. \A s \in Threads : thread[s] = NoThread =>
            thread[s].release = 0 /\ thread[s].original = 0
      BY DEF NoThread
    <3> QED
      BY <1>2, <3>1 DEF knownProjectRelease, ThreadInv, Sums, ProjectInv
  <2> QED
    BY <1>1, <1>2, <2>1
<1>5. /\ e \in LogEvents /\ e.actor = u /\ e.request = req /\ e.source = src /\ e.kind = action
      /\ e.seen = revision
  BY <1>2, <1>4 DEF Event, LogEvents
<1>6. /\ IsThread(y) /\ y.revision = Len(l) /\ y.status = Promise!Status(l)
      /\ y.release \in published /\ y.original \in published
  BY <1>1, <1>3 DEF Sums
<1>7. /\ IsThread(x) /\ x.original = y.original /\ x.author = y.author /\ x.revision = y.revision + 1
      /\ x.release = IF action = "reanchor" THEN rel ELSE y.release
      /\ x.status = IF NewStatus[action] = "same" THEN y.status ELSE NewStatus[action]
  <2> DEFINE st == IF NewStatus[action] = "same" THEN y.status ELSE NewStatus[action]
             re == IF action = "reanchor" THEN rel ELSE y.release
  <2>1. x = [y EXCEPT !.status = st, !.revision = @ + 1, !.release = re]
    BY <1>6 DEF Advanced, IsThread
  <2>2. st \in {"none", "open", "resolved", "deleted"} /\ re \in Releases \cup {0}
    BY <1>2, <1>4, <1>6 DEF IsThread
  <2> DEFINE y1 == [y EXCEPT !.status = st]
             y2 == [y1 EXCEPT !.revision = y.revision + 1]
  <2>4. x = [y2 EXCEPT !.release = re]
    BY <2>1, Zenon
  <2> HIDE DEF st, re, x, y
  <2>5. /\ IsThread(y1) /\ y1.original = y.original /\ y1.author = y.author
        /\ y1.revision = y.revision /\ y1.status = st
    BY <1>6, <2>2 DEF IsThread
  <2> HIDE DEF y1
  <2>6. /\ IsThread(y2) /\ y2.original = y.original /\ y2.author = y.author
        /\ y2.revision = y.revision + 1 /\ y2.status = st
    BY <1>6, <2>5 DEF IsThread
  <2> HIDE DEF y2
  <2>3. /\ IsThread(x) /\ x.original = y.original /\ x.author = y.author
        /\ x.revision = y.revision + 1 /\ x.release = re /\ x.status = st
    BY <2>2, <2>4, <2>6 DEF IsThread
  <2> QED
    BY <2>3 DEF st, re
<1>8. action # "reply" => /\ u \in {y.author, Owner} /\ revision = y.revision
                          /\ y.status = "deleted" => action = "reopen"
                          /\ action = "resolve" => y.status = "open"
                          /\ action = "reopen" => y.status \in {"resolved", "deleted"}
  BY <1>1 DEF Moderate, MayClose
<1> HIDE DEF x, e, u, l, src
<1>9. /\ Append(l, e) \in Seq(LogEvents) /\ Len(Append(l, e)) = Len(l) + 1
      /\ Append(l, e)[1] = l[1] /\ Append(l, e) # <<>>
      /\ \A i \in DOMAIN Append(l, e) : Append(l, e)[i] = e \/ (i \in DOMAIN l /\ Append(l, e)[i] = l[i])
  <2>1. l \in Seq(LogEvents) /\ Len(l) >= 1
    BY <1>3 DEF Sums
  <2> QED
    BY <1>5, <2>1, AppendProperties
<1>10. x.status = Promise!Status(Append(l, e))
  <2>1. l \in Seq(LogEvents)
    BY <1>3 DEF Sums
  <2> QED
    BY <1>5, <1>6, <1>7, <2>1, StatusAppend
<1>11. Sums(x, Append(l, e), ever, published)
  <2>1. \A i \in DOMAIN Append(l, e) : Append(l, e)[i].source \in ever
    BY <1>3, <1>4, <1>5, <1>9 DEF Sums
  <2>2. x.author = Append(l, e)[1].actor /\ x.revision = Len(Append(l, e))
    BY <1>3, <1>6, <1>7, <1>9
  <2>3. x.release \in published /\ x.original \in published
    BY <1>4, <1>6, <1>7
  <2> QED
    BY <1>7, <1>9, <1>10, <2>1, <2>2, <2>3 DEF Sums
<1>12. Fitting(l, e)
  BY <1>1, <1>3, <1>5, <1>6, <1>8 DEF Fitting
<1>13. Grows(t, e, x)
  BY <1>1, <1>4, <1>5, <1>11, <1>12 DEF Grows, l
<1> QED
  BY <1>13


LEMMA WriteGrows ==
  ASSUME ProjectInv, CallInv, ThreadInv, [Next]_vars
  PROVE  \/ UNCHANGED <<thread, events>>
         \/ \E t \in Threads : \E e, x : Grows(t, e, x) /\ UNCHANGED <<ever, published>>
<1>1. ASSUME HandlerMove, UNCHANGED projectVars
      PROVE  UNCHANGED <<thread, events>> \/ \E t \in Threads : \E e, x : Grows(t, e, x) /\ UNCHANGED <<ever, published>>
  <2>1. UNCHANGED <<ever, published>>
    BY <1>1 DEF projectVars
  <2>2. ASSUME NEW k \in Calls, NEW t \in Threads, NEW req \in Requests,
               NEW rel \in Releases \cup {0}, Written(k, t, req, rel)
        PROVE  \E e, x : Grows(t, e, x)
    BY <2>2, CommentGrows, MutateGrows DEF Written
  <2>3. ASSUME NEW k \in Calls, NEW u \in Users, NEW c \in Clients, Begin(k, u, c)
        PROVE  UNCHANGED <<thread, events>>
    BY <2>3 DEF Begin
  <2>4. ASSUME NEW k \in Calls, Refuse(k) PROVE UNCHANGED <<thread, events>>
    BY <2>4 DEF Refuse
  <2> QED
    BY <1>1, <2>1, <2>2, <2>3, <2>4, Zenon DEF HandlerMove
<1> QED
  BY <1>1, Moves DEF Restart, vars

LEMMA SumsMore ==
  ASSUME NEW x, NEW l, NEW up, NEW pub, NEW up1, NEW pub1, up \in SUBSET up1, pub \in SUBSET pub1,
         Sums(x, l, up, pub)
  PROVE  Sums(x, l, up1, pub1)
  BY DEF Sums

LEMMA ThreadStep ==
  ASSUME ProjectInv, CallInv, ThreadInv, [Next]_vars
  PROVE  ThreadInv'
<1>1. CASE UNCHANGED <<thread, events>>
  BY <1>1, ProjectStep, SumsMore DEF ThreadInv
<1>2. ASSUME NEW t \in Threads, NEW e, NEW x, Grows(t, e, x), UNCHANGED <<ever, published>> PROVE ThreadInv'
  <2>1. /\ events' = [events EXCEPT ![t] = Append(events[t], e)]
        /\ thread' = [thread EXCEPT ![t] = x]
        /\ Sums(x, Append(events[t], e), ever, published)
    BY <1>2 DEF Grows
  <2>2. thread' = [s \in Threads |-> thread'[s]] /\ events' = [s \in Threads |-> events'[s]]
    BY <2>1 DEF ThreadInv
  <2>3. ASSUME NEW s \in Threads PROVE Sums(thread'[s], events'[s], ever, published)
    BY <2>1 DEF ThreadInv
  <2> QED
    BY <1>2, <2>2, <2>3 DEF ThreadInv
<1> QED
  BY <1>1, <1>2, WriteGrows

-----------------------------------------------------------------------------
(* The theorems *)

\* Everything together.
Inv ==
  /\ UnlockInv /\ GrantInv /\ AttemptInv /\ SlotInv
  /\ ProjectInv /\ CallInv /\ ThreadInv

LEMMA InvInit == Init => Inv
<1> SUFFICES ASSUME Init PROVE Inv
  OBVIOUS
<1> USE PasswordBounds, CommentBounds
<1>1. UnlockInv
  BY IdleUnlock DEF Init, PasswordInit, UnlockInv, Records, Hashes
<1>2. GrantInv
  BY DEF Init, PasswordInit, GrantInv, NoGrant, NoProof
<1>3. AttemptInv
  BY ExplainsNothing DEF Init, PasswordInit, AttemptInv
<1>4. SlotInv
  <2>1. Comparing = {} /\ Held(entries) = {}
    BY IdleUnlock DEF Init, PasswordInit, Comparing, Held, NoEntry
  <2> QED
    BY <2>1, FS_EmptySet DEF SlotInv
<1>5. ProjectInv
  BY DEF Init, ProjectInv
<1>6. CallInv
  BY DEF Init, CallInv, NoCall
<1>7. ThreadInv
  <2>1. IsThread(NoThread) /\ NoThread.release = 0 /\ NoThread.original = 0
        /\ NoThread.revision = 0 /\ NoThread.status = "none"
    BY DEF NoThread, IsThread
  <2>2. Promise!Status(<<>>) = "none" /\ <<>> \in Seq(LogEvents) /\ Len(<<>>) = 0
    BY DEF Promise!Status
  <2>3. Sums(NoThread, <<>>, ever, published)
    BY <2>1, <2>2 DEF Sums
  <2> QED
    BY <2>3 DEF Init, ThreadInv
<1> QED
  BY <1>1, <1>2, <1>3, <1>4, <1>5, <1>6, <1>7 DEF Inv

LEMMA InvStep == Inv /\ [Next]_vars => Inv'
<1> SUFFICES ASSUME Inv, [Next]_vars PROVE Inv'
  OBVIOUS
<1>1. CASE PasswordMove
  BY <1>1, UnlockStep, GrantStep, AttemptStep, SlotStep, ProjectStep, CallStep, ThreadStep DEF Inv
<1>2. CASE UNCHANGED pwVars
  <2>1. UnlockInv' /\ GrantInv' /\ AttemptInv'
    BY <1>2 DEF Inv, pwVars, UnlockInv, GrantInv, AttemptInv
  <2>2. SlotInv'
    BY <1>2 DEF Inv, pwVars, SlotInv, Comparing, Held
  <2> QED
    BY <2>1, <2>2, ProjectStep, CallStep, ThreadStep DEF Inv
<1> QED
  BY <1>1, <1>2, Moves DEF vars

LEMMA InvHolds == Spec => []Inv
  BY InvInit, InvStep, PTL DEF Spec

\* Until it gives the right password a client has at most twice the allowed attempts within a window,
\* and the comparisons and the table keep to their limits, for any number of clients and unlocks
\* (acquire with its eviction, Unlock).
THEOREM GuessesAreBounded == Spec => []GuessesBounded
<1>1. Inv => GuessesBounded
  BY DEF Inv, AttemptInv, SlotInv, GuessesBounded, AttemptsSpaced, Spaced
<1> QED
  BY InvHolds, <1>1, PTL

\* A step keeps discussions to their promise.
LEMMA PromiseStep ==
  ASSUME Inv, [Next]_vars
  PROVE  [Promise!Next]_<<events, Shown>>
<1>1. CASE UNCHANGED <<thread, events>>
  BY <1>1 DEF Shown
<1>2. ASSUME NEW t \in Threads, NEW e, NEW x, Grows(t, e, x) PROVE Promise!Next
  <2> DEFINE l == events[t]
             m == Append(l, e)
  <2>1. /\ e \in LogEvents /\ Fitting(l, e) /\ ~Seen(e.actor, e.request) /\ Sums(x, m, ever, published)
        /\ events' = [events EXCEPT ![t] = m] /\ thread' = [thread EXCEPT ![t] = x]
    BY <1>2 DEF Grows
  <2>2. l \in Seq(LogEvents) /\ Len(l) \in Nat /\ Len(m) = Len(l) + 1 /\ m[Len(m)] = e
    BY <2>1 DEF Inv, ThreadInv, Sums
  <2> HIDE DEF m, l
  <2>3. events'[t] = m
    BY <2>1 DEF Inv, ThreadInv
  <2>4. <<e.actor, e.request>> \notin Promise!Logged
    BY <2>1 DEF Seen, Promise!Logged
  <2>5. Shown' = [Shown EXCEPT ![t] = Promise!Summary(m)]
    <3>1. Promise!Summary(m) = [status |-> x.status, revision |-> x.revision]
      BY <2>1 DEF Promise!Summary, Sums
    <3> QED
      BY <2>1, <3>1 DEF Shown, Inv, ThreadInv
  <2>6. Promise!Add(t, e)
    BY <2>1, <2>4, <2>5, Zenon DEF Promise!Add, Fitting, l, m
  <2>7. Len(events'[t]) > Len(events[t]) /\ events'[t][Len(events'[t])] = e
    BY <2>2, <2>3 DEF l
  <2> QED
    BY <2>6, <2>7, Zenon DEF Promise!Next
<1> QED
  BY <1>1, <1>2, WriteGrows DEF Inv

\* The discussions of a project implement CommentLog, for any number of threads, handlers, requests
\* and users: append-only logs without repeated requests, closed only by who saw all of them (Mutate).
THEOREM PromiseKept == Spec => KeepsPromise
<1>1. Init => Promise!Init
  <2> SUFFICES ASSUME Init PROVE Promise!Init
    OBVIOUS
  <2>1. Promise!Summary(<<>>) = [status |-> "none", revision |-> 0]
    BY DEF Promise!Summary, Promise!Status
  <2>2. Shown = [t \in Threads |-> [status |-> "none", revision |-> 0]]
    BY DEF Init, Shown, NoThread
  <2> QED
    BY <2>1, <2>2 DEF Init, Promise!Init
<1>2. Inv /\ [Next]_vars => [Promise!Next]_<<events, Shown>>
  BY PromiseStep
<1> QED
  BY <1>1, <1>2, InvHolds, PTL DEF Spec, KeepsPromise, Promise!Spec

\* A write is allowed by the project and the account as they are when it is made, whatever changed
\* since the handler looked; its discussion stands on releases that were published and its event
\* names one uploaded to this project (Authorize under locks, knownProjectRelease).  It says nothing
\* of the password, which Mutate does not look at again.
THEOREM WritesAreAllowed == Spec => WritesAllowed
<1> DEFINE A == \A t \in Threads : events'[t] # events[t] =>
       LET e == events'[t][Len(events'[t])]
       IN /\ state = "enabled" /\ enhanced /\ e.actor \in readers \cup {Owner}
          /\ e.source \in ever
          /\ {thread'[t].release, thread'[t].original} \subseteq published
<1>1. ASSUME Inv, [Next]_vars PROVE A
  <2>1. ASSUME NEW s \in Threads, NEW e, NEW x, Grows(s, e, x) PROVE A
    <3> DEFINE m == Append(events[s], e)
    <3>1. /\ CanRead(e.actor) /\ enhanced /\ e.source \in ever /\ Sums(x, m, ever, published) /\ e \in LogEvents
          /\ events' = [events EXCEPT ![s] = m] /\ thread' = [thread EXCEPT ![s] = x]
      BY <2>1 DEF Grows
    <3>2. events[s] \in Seq(LogEvents) /\ m[Len(m)] = e
      BY <3>1 DEF Inv, ThreadInv, Sums
    <3>3. state = "enabled" /\ e.actor \in readers \cup {Owner}
      BY <3>1 DEF CanRead
    <3>4. Len(m) # 0
      BY <3>1, <3>2
    <3> HIDE DEF m
    <3>5. x.release \in published /\ x.original \in published
      <4>1. m # <<>>
        BY <3>4
      <4>2. x # NoThread
        BY <3>1, <4>1, ThreadOrNone
      <4> QED
        BY <3>1, <4>2 DEF Sums
    <3>6. ASSUME NEW t \in Threads, events'[t] # events[t] PROVE t = s /\ events'[t] = m /\ thread'[t] = x
      <4>1. DOMAIN events = Threads /\ DOMAIN thread = Threads
        BY <1>1 DEF Inv, ThreadInv
      <4>2. events'[t] = (IF t = s THEN m ELSE events[t]) /\ thread'[t] = (IF t = s THEN x ELSE thread[t])
        BY <3>1, <4>1, Zenon
      <4> QED
        BY <3>6, <4>2
    <3> QED
      BY <3>1, <3>2, <3>3, <3>6, <3>5
  <2>2. CASE UNCHANGED <<thread, events>>
    BY <2>2
  <2> HIDE DEF A
  <2> QED
    BY <1>1, <2>1, <2>2, WriteGrows DEF Inv
<1>2. Inv /\ [Next]_vars => [A]_vars
  BY <1>1
<1> QED
  BY <1>2, InvHolds, PTL DEF Spec, WritesAllowed


LEMMA InvTypes == Inv => TypeOK
<1> SUFFICES ASSUME Inv PROVE TypeOK
  OBVIOUS
<1> USE PasswordBounds, CommentBounds
<1>1. record \in [hash : Passwords \cup {None}, version : 0..MaxVersion]
  BY DEF Inv, UnlockInv, Records, Hashes
<1>2. unlock \in [Unlocks -> [pc : {"idle", "read", "compare"}, client : Clients \cup {None},
                             record : [hash : Passwords \cup {None}, version : 0..MaxVersion],
                             guess : Passwords \cup {None}]]
  <2>1. \A r \in Unlocks : unlock[r] \in [pc : {"idle", "read", "compare"}, client : Clients \cup {None},
                                          record : Records, guess : Hashes]
    BY DEF Inv, UnlockInv, IsUnlock
  <2>2. unlock \in [Unlocks -> [pc : {"idle", "read", "compare"}, client : Clients \cup {None},
                                record : Records, guess : Hashes]]
    BY <2>1, Zenon DEF Inv, UnlockInv
  <2> QED
    BY <2>2 DEF Records, Hashes
<1>3. entries \in [Clients -> [count : 0..MaxAttempts, windowStart : 0..MaxTime,
                               lastSeen : 0..MaxTime, held : BOOLEAN]]
  <2> DEFINE R == [count : 0..MaxAttempts, windowStart : 0..MaxTime, lastSeen : 0..MaxTime,
                   held : BOOLEAN]
  <2>1. ASSUME NEW c \in Clients PROVE entries[c] \in R
    <3>1. IsEntry(entries[c])
      BY DEF Inv, AttemptInv, Explains
    <3> QED
      BY <3>1 DEF IsEntry
  <2> HIDE DEF R
  <2>2. entries \in [Clients -> R]
    BY <2>1, Zenon DEF Inv, AttemptInv
  <2> QED
    BY <2>2 DEF R
<1>4. tries \in [Clients -> Seq(0..MaxTime)]
  <2>1. \A c \in Clients : tries[c] \in Seq(0..MaxTime)
    BY DEF Inv, AttemptInv, Explains
  <2> QED
    BY <2>1, Zenon DEF Inv, AttemptInv
<1>5. PasswordTypeOK
  BY <1>1, <1>2, <1>3, <1>4, Zenon DEF PasswordTypeOK, Inv, GrantInv, UnlockInv
<1>6. thread \in [Threads -> [status : {"none", "open", "resolved", "deleted"}, revision : Nat,
                             release : Releases \cup {0}, original : Releases \cup {0},
                             author : Users \cup {None}]]
  <2>1. \A t \in Threads : IsThread(thread[t])
    BY DEF Inv, ThreadInv, Sums
  <2> QED
    BY <2>1, Zenon DEF Inv, ThreadInv, IsThread
<1>7. \A t \in Threads : \A i \in DOMAIN events[t] : events[t][i] \in LogEvents
  BY DEF Inv, ThreadInv, Sums
<1>8. CommentTypeOK
  BY <1>6, <1>7, Zenon DEF CommentTypeOK, Inv, ProjectInv
<1> QED
  BY <1>5, <1>8 DEF TypeOK


\* Whoever is let past the password gave the one in force to this process, or needs none, and the
\* state is well typed, for any number of clients, unlocks, password changes and restarts (Authorize,
\* issueGrant, SetTx).
THEOREM PasswordsAreProved == Spec => []PasswordsProved
<1>1. ASSUME Inv PROVE GrantsProved
  <2> SUFFICES ASSUME NEW c \in Clients, PasswordProtected, validGrant(c)
               PROVE  /\ proof[c].version = record.version /\ proof[c].secret = secret
                      /\ time < proof[c].at + GrantTTL
    BY DEF GrantsProved
  <2>1. /\ cookie[c].secret = secret /\ cookie[c].version = record.version
        /\ cookie[c].expires > time /\ secret # 0
    BY <1>1 DEF validGrant, Inv, UnlockInv
  <2>2. /\ proof[c].version = cookie[c].version /\ proof[c].secret = cookie[c].secret
        /\ cookie[c].expires = proof[c].at + GrantTTL
    BY <1>1, <2>1 DEF Inv, GrantInv
  <2>3. cookie[c].expires \in Int /\ time \in Int
    BY <1>1, PasswordBounds DEF Inv, GrantInv, UnlockInv
  <2> QED
    BY <2>1, <2>2, <2>3
<1>2. ASSUME Inv PROVE ChecksProved
  BY <1>2 DEF ChecksProved, Inv, CallInv
<1>3. Inv => PasswordsProved
  BY <1>1, <1>2, InvTypes DEF PasswordsProved
<1> QED
  BY InvHolds, <1>3, PTL

=============================================================================
