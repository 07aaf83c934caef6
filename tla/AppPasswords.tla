---------------------------- MODULE AppPasswords ----------------------------
(***************************************************************************)
(* The app-password store of app/passwords.py, as the running process uses *)
(* it: verify() runs in worker threads (one per DAV request in flight),    *)
(* revoke() runs on the event-loop thread, and both touch the process-wide *)
(* dictionaries _cache and _last_used_written without a lock.  Each action *)
(* below is a stretch of code that other threads cannot interleave with:   *)
(* one dictionary operation, or one `with db.cursor()` block (module       *)
(* Transactions shows that such a block is atomic).                        *)
(*                                                                         *)
(* A member of Password stands for one generated secret and for the row    *)
(* its hash is filed under: secrets come from a CSPRNG and never repeat,   *)
(* and argon2 accepts a secret against no row but its own, so the row's id *)
(* and the secret name each other.                                         *)
(*                                                                         *)
(* There is one clock.  The code stamps rows with time.time() and the      *)
(* dictionaries with time.monotonic(); a wall clock that is set back while *)
(* the process runs is not modelled.                                       *)
(***************************************************************************)
EXTENDS Integers, FiniteSets

CONSTANTS
    User,               \* usernames
    Password,           \* secrets that create() may generate
    WrongSecret,        \* a secret that no row was ever created from
    Worker,             \* worker threads that run verify()
    CacheTtl,           \* settings.auth_cache_ttl
    LastUsedThrottle,   \* settings.last_used_throttle
    MaxPasswords,       \* settings.max_app_passwords
    MaxTime,            \* bound on the clock, for model checking
    None                \* SQL NULL, Python None and "key not in the dict"

ASSUME ConstantsAssumption ==
    /\ IsFiniteSet(User) /\ IsFiniteSet(Password)
    /\ CacheTtl \in Nat
    /\ LastUsedThrottle \in Nat
    /\ MaxPasswords \in Nat
    /\ MaxTime \in Nat
    /\ None \notin Nat /\ None \notin User
    /\ WrongSecret \notin Password

VARIABLES
    now,            \* the clock every thread reads
    owner,          \* row -> its username, None while the row does not exist
    revokedAt,      \* row -> revoked_at
    lastUsedAt,     \* row -> last_used_at
    creating,       \* rows that a running create() is reading back
    known,          \* secrets that a create() has returned
    cache,          \* (username, secret) -> expires_at, the dict _cache
    lastWritten,    \* row -> time of the last mark, the dict _last_used_written
    unrecorded,     \* history: rows whose mark is of an UPDATE that raised
    pc,             \* worker -> where its verify() call stands
    who,            \* worker -> the call's username
    secret,         \* worker -> the call's secret
    entry,          \* worker -> its `cached`: what it read from _cache
    localNow,       \* worker -> the local `now` of verify, then of _touch
    rows,           \* worker -> rows the SELECT returned to it
    loopPc,         \* where the event loop stands in revoke()
    loopUser,       \* the username revoke() was called with
    scanSize,       \* len(_cache) when the comprehension's iterator was made
    scanLeft,       \* how many more keys the iterator expects
    scanned,        \* entries behind the iterator
    kept            \* the list the comprehension builds

markVars   == <<lastWritten, unrecorded>>
createVars == <<creating, known>>
dbVars     == <<owner, revokedAt, lastUsedAt>>
workerVars == <<pc, who, secret, entry, localNow, rows>>
loopVars   == <<loopPc, loopUser, scanSize, scanLeft, scanned, kept>>
vars == <<now, createVars, dbVars, cache, markVars, workerVars, loopVars>>

Key == User \X Password

\* Timestamps as columns and dictionaries hold them.
Stamp == Nat \cup {None}

\* The keys present in the dict _cache.
Cached == {k \in Key : cache[k] # None}

Revoked(p) == revokedAt[p] # None

\* SELECT ... WHERE username = ? AND revoked_at IS NULL
Active(u) == {p \in Password : owner[p] = u /\ ~Revoked(p)}

\* The cache entry a fast-path lookup would accept now.
Live(k) == cache[k] # None /\ cache[k] > now

TypeOK ==
    /\ now \in Nat
    /\ owner \in [Password -> User \cup {None}]
    /\ revokedAt \in [Password -> Stamp]
    /\ lastUsedAt \in [Password -> Stamp]
    /\ creating \in SUBSET Password
    /\ known \in SUBSET Password
    /\ cache \in [Key -> Stamp]
    /\ lastWritten \in [Password -> Stamp]
    /\ unrecorded \in SUBSET Password
    /\ pc \in [Worker -> {"idle", "lookup", "drop", "query", "hash", "store",
                          "touch", "throttle", "forceTouch", "mark", "stamp"}]
    /\ who \in [Worker -> User \cup {None}]
    /\ secret \in [Worker -> Password \cup {WrongSecret, None}]
    /\ entry \in [Worker -> Stamp]
    /\ localNow \in [Worker -> Nat]
    /\ rows \in [Worker -> SUBSET Password]
    /\ loopPc \in {"idle", "invalidate", "scan", "pop", "raised"}
    /\ loopUser \in User \cup {None}
    /\ scanSize \in Nat
    /\ scanLeft \in Nat
    /\ scanned \in SUBSET Key
    /\ kept \in SUBSET Key

(***************************************************************************)
(* A process starts with empty dictionaries; the first one also starts     *)
(* with an empty database.                                                 *)
(***************************************************************************)
Init ==
    /\ now = 0
    /\ owner = [p \in Password |-> None]
    /\ revokedAt = [p \in Password |-> None]
    /\ lastUsedAt = [p \in Password |-> None]
    /\ creating = {}
    /\ known = {}
    /\ cache = [k \in Key |-> None]
    /\ lastWritten = [p \in Password |-> None]
    /\ unrecorded = {}
    /\ pc = [w \in Worker |-> "idle"]
    /\ who = [w \in Worker |-> None]
    /\ secret = [w \in Worker |-> None]
    /\ entry = [w \in Worker |-> None]
    /\ localNow = [w \in Worker |-> 0]
    /\ rows = [w \in Worker |-> {}]
    /\ loopPc = "idle"
    /\ loopUser = None
    /\ scanSize = 0
    /\ scanLeft = 0
    /\ scanned = {}
    /\ kept = {}

-----------------------------------------------------------------------------
(* Time and crashes.                                                       *)

Tick ==
    /\ now < MaxTime
    /\ now' = now + 1
    /\ UNCHANGED <<createVars, dbVars, cache, markVars, workerVars, loopVars>>

\* revoke() is over and its locals are gone.
LoopIdle ==
    /\ loopPc' = "idle"
    /\ loopUser' = None
    /\ scanSize' = 0
    /\ scanLeft' = 0
    /\ scanned' = {}
    /\ kept' = {}

\* The process dies and is started again: committed rows survive, calls and
\* dictionaries do not.
Restart ==
    /\ cache' = [k \in Key |-> None]
    /\ lastWritten' = [p \in Password |-> None]
    /\ unrecorded' = {}
    /\ pc' = [w \in Worker |-> "idle"]
    /\ who' = [w \in Worker |-> None]
    /\ secret' = [w \in Worker |-> None]
    /\ entry' = [w \in Worker |-> None]
    /\ localNow' = [w \in Worker |-> 0]
    /\ rows' = [w \in Worker |-> {}]
    /\ creating' = {}
    /\ LoopIdle
    /\ UNCHANGED <<now, known, dbVars>>

-----------------------------------------------------------------------------
(* create(), in a worker thread of its own.  The hash is computed first and *)
(* touches nothing shared.                                                  *)

\* The count and the insert, one transaction.  At the cap it raises
\* PasswordLimitReached and changes nothing.
Create(u, p) ==
    /\ owner[p] = None
    /\ Cardinality(Active(u)) < MaxPasswords
    /\ owner' = [owner EXCEPT ![p] = u]
    /\ creating' = creating \cup {p}
    /\ UNCHANGED <<now, known, revokedAt, lastUsedAt, cache, markVars,
                   workerVars, loopVars>>

\* return self.get(...), secret: a second block, after anything may have been
\* done to the row, which is on the user's page from the commit on.
CreateReturns(p) ==
    /\ p \in creating
    /\ creating' = creating \ {p}
    /\ known' = known \cup {p}
    /\ UNCHANGED <<now, dbVars, cache, markVars, workerVars, loopVars>>

\* That block raises: the row stays, and its secret is lost.
CreateRaises(p) ==
    /\ p \in creating
    /\ creating' = creating \ {p}
    /\ UNCHANGED <<now, known, dbVars, cache, markVars, workerVars, loopVars>>

-----------------------------------------------------------------------------
(* verify(): one call per worker.                                          *)

\* A call begins with _cache.get(key); an empty secret never gets this far.
\* Callers can only know secrets that create() has returned.
VerifyLookup(w, u, s) ==
    /\ pc[w] = "idle"
    /\ s \in Password => s \in known
    /\ pc' = [pc EXCEPT ![w] = "lookup"]
    /\ who' = [who EXCEPT ![w] = u]
    /\ secret' = [secret EXCEPT ![w] = s]
    /\ entry' = [entry EXCEPT ![w] = IF s \in Password THEN cache[<<u, s>>] ELSE None]
    /\ UNCHANGED <<now, createVars, dbVars, cache, markVars, localNow, rows, loopVars>>

\* The clock is read after the entry, which may be gone from the dict by now.
ReadClock(w, next) ==
    /\ pc[w] = "lookup"
    /\ localNow' = [localNow EXCEPT ![w] = now]
    /\ entry' = [entry EXCEPT ![w] = None]
    /\ pc' = [pc EXCEPT ![w] = next]
    /\ UNCHANGED <<now, createVars, dbVars, cache, markVars, who, secret, rows, loopVars>>

\* Mutant: an entry is still good at the second it expires.
VerifyHitAtExpiry(w) == entry[w] # None /\ entry[w] >= now /\ ReadClock(w, "touch")

\* A cached credential that has not expired is accepted there and then.
VerifyHit(w) == entry[w] # None /\ entry[w] > now /\ ReadClock(w, "touch")

\* An expired entry is to be dropped before the database is asked.
VerifyExpired(w) == entry[w] # None /\ entry[w] <= now /\ ReadClock(w, "drop")

VerifyMiss(w) == entry[w] = None /\ ReadClock(w, "query")

\* pop(key, None): whatever the entry has become in the meantime.  An entry
\* stored again later goes to the end of the dict, ahead of any iterator.
VerifyDrop(w) ==
    /\ pc[w] = "drop"
    /\ cache' = [cache EXCEPT ![<<who[w], secret[w]>>] = None]
    /\ scanned' = scanned \ {<<who[w], secret[w]>>}
    /\ pc' = [pc EXCEPT ![w] = "query"]
    /\ UNCHANGED <<now, createVars, dbVars, markVars, who, secret, entry, localNow, rows,
                   loopPc, loopUser, scanSize, scanLeft, kept>>

Fetch(w, found) ==
    /\ pc[w] = "query"
    /\ rows' = [rows EXCEPT ![w] = found]
    /\ pc' = [pc EXCEPT ![w] = "hash"]
    /\ UNCHANGED <<now, createVars, dbVars, cache, markVars, who, secret, entry, localNow, loopVars>>

\* Mutant: a WHERE clause that has lost the user.
VerifyQueryAnyUser(w) == Fetch(w, UNION {Active(u) : u \in User})

\* The SELECT, in a transaction of its own.
VerifyQuery(w) == Fetch(w, Active(who[w]))

\* The call is over and its locals are gone.
Return(w) ==
    /\ pc' = [pc EXCEPT ![w] = "idle"]
    /\ who' = [who EXCEPT ![w] = None]
    /\ secret' = [secret EXCEPT ![w] = None]
    /\ entry' = [entry EXCEPT ![w] = None]
    /\ localNow' = [localNow EXCEPT ![w] = 0]
    /\ rows' = [rows EXCEPT ![w] = {}]

\* The SELECT raises: the request fails with a 500.
VerifyRaises(w) ==
    /\ pc[w] = "query"
    /\ Return(w)
    /\ UNCHANGED <<now, createVars, dbVars, cache, markVars, loopVars>>

\* argon2 over the rows that were read, long after they were read.
VerifyMatch(w) ==
    /\ pc[w] = "hash"
    /\ secret[w] \in rows[w]
    /\ pc' = [pc EXCEPT ![w] = "store"]
    /\ UNCHANGED <<now, createVars, dbVars, cache, markVars, who, secret, entry, localNow, rows, loopVars>>

VerifyReject(w) ==
    /\ pc[w] = "hash"
    /\ secret[w] \notin rows[w]
    /\ Return(w)
    /\ UNCHANGED <<now, createVars, dbVars, cache, markVars, loopVars>>

\* Put an entry that expires at `expiry` under the call's key.  Inserting a
\* new key may make CPython compact the dict, which moves any of the entries
\* ahead of a running iterator to behind it.
StoreEntry(w, expiry) ==
    LET key == <<who[w], secret[w]>> IN
    /\ pc[w] = "store"
    /\ cache' = [cache EXCEPT ![key] = expiry]
    /\ IF loopPc = "scan" /\ key \notin Cached
       THEN \E skipped \in SUBSET ((Cached \cup {key}) \ scanned) :
                scanned' = scanned \cup skipped
       ELSE UNCHANGED scanned
    /\ pc' = [pc EXCEPT ![w] = "forceTouch"]
    /\ UNCHANGED <<now, createVars, dbVars, markVars, who, secret, entry, localNow, rows,
                   loopPc, loopUser, scanSize, scanLeft, kept>>

\* Mutants: the clock is read again after the hashing; the sign is wrong.
VerifyStoreLateClock(w) == StoreEntry(w, now + CacheTtl)
VerifyStoreMinus(w) == StoreEntry(w, localNow[w] - CacheTtl)

\* _cache[key] = (now + ttl, id), with the `now` verify() started from.
VerifyStore(w) == StoreEntry(w, localNow[w] + CacheTtl)

-----------------------------------------------------------------------------
(* _touch(): the clock, the check against the last mark and the new mark   *)
(* are three steps, so two threads may both pass the check.                *)

TouchClock(w) ==
    /\ pc[w] \in {"touch", "forceTouch"}
    /\ localNow' = [localNow EXCEPT ![w] = now]
    /\ pc' = [pc EXCEPT ![w] = IF pc[w] = "touch" THEN "throttle" ELSE "mark"]
    /\ UNCHANGED <<now, createVars, dbVars, cache, markVars, who, secret, entry, rows, loopVars>>

Throttled(w) ==
    /\ lastWritten[secret[w]] # None
    /\ localNow[w] - lastWritten[secret[w]] < LastUsedThrottle

TouchSkip(w) ==
    /\ pc[w] = "throttle"
    /\ Throttled(w)
    /\ Return(w)
    /\ UNCHANGED <<now, createVars, dbVars, cache, markVars, loopVars>>

TouchPass(w) ==
    /\ pc[w] = "throttle"
    /\ ~Throttled(w)
    /\ pc' = [pc EXCEPT ![w] = "mark"]
    /\ UNCHANGED <<now, createVars, dbVars, cache, markVars, who, secret, entry, localNow, rows, loopVars>>

TouchMark(w) ==
    /\ pc[w] = "mark"
    /\ lastWritten' = [lastWritten EXCEPT ![secret[w]] = localNow[w]]
    /\ unrecorded' = unrecorded \ {secret[w]}
    /\ pc' = [pc EXCEPT ![w] = "stamp"]
    /\ UNCHANGED <<now, createVars, dbVars, cache, who, secret, entry, localNow, rows, loopVars>>

\* Mutants: the UPDATE spares revoked rows; it writes the time of the mark.
TouchStampActive(w) ==
    /\ pc[w] = "stamp"
    /\ lastUsedAt' = [lastUsedAt EXCEPT ![secret[w]] = IF Revoked(secret[w]) THEN @ ELSE now]
    /\ unrecorded' = unrecorded \ {secret[w]}
    /\ Return(w)
    /\ UNCHANGED <<now, createVars, owner, revokedAt, cache, lastWritten, loopVars>>
TouchStampMarkTime(w) ==
    /\ pc[w] = "stamp"
    /\ lastUsedAt' = [lastUsedAt EXCEPT ![secret[w]] = localNow[w]]
    /\ unrecorded' = unrecorded \ {secret[w]}
    /\ Return(w)
    /\ UNCHANGED <<now, createVars, owner, revokedAt, cache, lastWritten, loopVars>>

\* UPDATE ... SET last_used_at; the time is read inside the transaction.
TouchStamp(w) ==
    /\ pc[w] = "stamp"
    /\ lastUsedAt' = [lastUsedAt EXCEPT ![secret[w]] = now]
    /\ unrecorded' = unrecorded \ {secret[w]}
    /\ Return(w)
    /\ UNCHANGED <<now, createVars, owner, revokedAt, cache, lastWritten, loopVars>>

\* The cursor() block raises (a full disk, a locked file): the request fails
\* with a 500, nothing is written, and the mark stays and throttles.
TouchRaises(w) ==
    /\ pc[w] = "stamp"
    /\ unrecorded' = IF lastWritten[secret[w]] = localNow[w]
                     THEN unrecorded \cup {secret[w]} ELSE unrecorded
    /\ Return(w)
    /\ UNCHANGED <<now, createVars, dbVars, cache, lastWritten, loopVars>>

-----------------------------------------------------------------------------
(* revoke(), on the event loop: one call at a time.                        *)

\* The UPDATE.  When it matches no row, revoke() returns False unchanged.
RevokeUpdate(u, p) ==
    /\ loopPc = "idle"
    /\ owner[p] = u /\ ~Revoked(p)
    /\ revokedAt' = [revokedAt EXCEPT ![p] = now]
    /\ loopPc' = "invalidate"
    /\ loopUser' = u
    /\ UNCHANGED <<now, createVars, owner, lastUsedAt, cache, markVars, workerVars,
                   scanSize, scanLeft, scanned, kept>>

\* invalidate_cache_for() makes an iterator over the live dict ...
InvalidateBegin ==
    /\ loopPc = "invalidate"
    /\ loopPc' = "scan"
    /\ scanSize' = Cardinality(Cached)
    /\ scanLeft' = Cardinality(Cached)
    /\ UNCHANGED <<now, createVars, dbVars, cache, markVars, workerVars,
                   loopUser, scanned, kept>>

\* ... which worker threads may be writing to while it is walked.  CPython
\* raises RuntimeError when the size differs from what it was, and when more
\* keys turn up than there were.
SizeChanged == Cardinality(Cached) # scanSize
KeysAhead == Cached \ scanned
KeysChanged == scanLeft = 0 /\ KeysAhead # {}

ScanNext ==
    /\ loopPc = "scan"
    /\ ~SizeChanged /\ scanLeft > 0
    /\ \E k \in KeysAhead :
          /\ scanned' = scanned \cup {k}
          /\ kept' = IF k[1] = loopUser THEN kept \cup {k} ELSE kept
    /\ scanLeft' = scanLeft - 1
    /\ UNCHANGED <<now, createVars, dbVars, cache, markVars, workerVars,
                   loopPc, loopUser, scanSize>>

ScanEnd ==
    /\ loopPc = "scan"
    /\ ~SizeChanged /\ KeysAhead = {}
    /\ loopPc' = "pop"
    /\ UNCHANGED <<now, createVars, dbVars, cache, markVars, workerVars,
                   loopUser, scanSize, scanLeft, scanned, kept>>

ScanRaise ==
    /\ loopPc = "scan"
    /\ SizeChanged \/ KeysChanged
    /\ loopPc' = "raised"
    /\ UNCHANGED <<now, createVars, dbVars, cache, markVars, workerVars,
                   loopUser, scanSize, scanLeft, scanned, kept>>

\* pop(key, None) for every key the comprehension kept.
InvalidatePop ==
    /\ loopPc = "pop"
    /\ cache' = [k \in Key |-> IF k \in kept THEN None ELSE cache[k]]
    /\ LoopIdle
    /\ UNCHANGED <<now, createVars, dbVars, markVars, workerVars>>

\* The exception leaves revoke() and becomes a 500 response.
RevokeFails ==
    /\ loopPc = "raised"
    /\ LoopIdle
    /\ UNCHANGED <<now, createVars, dbVars, cache, markVars, workerVars>>

-----------------------------------------------------------------------------
Verify(w) ==
    \/ \E u \in User, s \in Password \cup {WrongSecret} : VerifyLookup(w, u, s)
    \/ VerifyHit(w) \/ VerifyExpired(w) \/ VerifyMiss(w)
    \/ VerifyDrop(w) \/ VerifyQuery(w) \/ VerifyRaises(w)
    \/ VerifyMatch(w) \/ VerifyReject(w) \/ VerifyStore(w)
    \/ TouchClock(w) \/ TouchSkip(w) \/ TouchPass(w) \/ TouchMark(w)
    \/ TouchStamp(w) \/ TouchRaises(w)

Revoke ==
    \/ \E u \in User, p \in Password : RevokeUpdate(u, p)
    \/ InvalidateBegin \/ ScanNext \/ ScanEnd \/ ScanRaise
    \/ InvalidatePop \/ RevokeFails

Next ==
    \/ Tick
    \/ Restart
    \/ \E u \in User, p \in Password : Create(u, p)
    \/ \E p \in Password : CreateReturns(p) \/ CreateRaises(p)
    \/ \E w \in Worker : Verify(w)
    \/ Revoke

Spec == Init /\ [][Next]_vars
-----------------------------------------------------------------------------
(* Properties.                                                             *)

\* Where a call stands that has found its credential good.
Accepting == {"store", "touch", "forceTouch"}

\* A call is accepted, and a credential cached, only under the username its
\* row belongs to: verify() never lets a secret work for somebody else.
OnlyTheOwnerIsAccepted ==
    /\ \A k \in Cached : owner[k[2]] = k[1]
    /\ \A w \in Worker : pc[w] \in Accepting => owner[secret[w]] = who[w]

\* However revoke() and verify() interleave, a cache entry that outlives the
\* revocation of its row expires within CacheTtl of that revocation.
StaleEntriesAreBounded ==
    \A k \in Cached : Revoked(k[2]) => cache[k] <= revokedAt[k[2]] + CacheTtl

\* The end-to-end promise: a verify() that accepts a revoked secret started
\* before the revocation, or less than CacheTtl after it.
NoLateAcceptance ==
    \A w \in Worker :
        pc[w] \in Accepting /\ Revoked(secret[w]) =>
            \/ localNow[w] <= revokedAt[secret[w]]
            \/ localNow[w] < revokedAt[secret[w]] + CacheTtl

\* The mark that throttles stands for a use the database knows of, unless its
\* own UPDATE raised: once no thread is about to write the time of the mark,
\* last_used_at is at least as recent.  So only an UPDATE that raised hides
\* uses, and only until the throttle lets the next one through.
MarksReachTheDatabase ==
    \A p \in Password :
        \/ lastWritten[p] = None
        \/ p \in unrecorded
        \/ lastUsedAt[p] # None /\ lastUsedAt[p] >= lastWritten[p]
        \/ \E w \in Worker :
              pc[w] = "stamp" /\ secret[w] = p /\ localNow[w] = lastWritten[p]

\* last_used_at never moves back, whatever order racing threads write it in.
LastUsedNeverMovesBack ==
    [][\A p \in Password : lastUsedAt[p] # None =>
            lastUsedAt'[p] # None /\ lastUsedAt'[p] >= lastUsedAt[p]]_vars

\* README.md:388, "a revocation clears the cache immediately", also when
\* revoke() fails: an exception leaves no live entry for a row that it has
\* already committed as revoked.
FailedRevokeLeavesNoEntry ==
    loopPc = "raised" =>
        \A k \in Key : k[1] = loopUser /\ Revoked(k[2]) => ~Live(k)
=============================================================================
