------------------------- MODULE AppPasswordsProofs -------------------------
(***************************************************************************)
(* The safety properties of AppPasswords, for every set of users, secrets  *)
(* and worker threads and every TTL.  The invariant is in three parts:     *)
(* what a call's locals say about the rows, when the times in them were    *)
(* taken, and where the marks of _touch() stand.                           *)
(***************************************************************************)
EXTENDS AppPasswords, FiniteSetTheorems, TLAPS

\* What the locals of a verify() call say about the rows of the table.
CallInv ==
    \A w \in Worker :
        /\ pc[w] = "idle" => rows[w] = {}
        /\ pc[w] # "idle" => who[w] \in User
        /\ \A p \in rows[w] : owner[p] = who[w]
        /\ entry[w] # None => /\ pc[w] = "lookup"
                              /\ secret[w] \in Password
                              /\ owner[secret[w]] = who[w]
        /\ pc[w] \in {"touch", "throttle", "mark", "stamp"} =>
              secret[w] \in Password /\ owner[secret[w]] = who[w]
        /\ pc[w] \in {"store", "forceTouch"} => secret[w] \in rows[w]

\* No time lies in the future, no expiry more than a TTL ahead, and whoever
\* holds a row that has been revoked took its time before the revocation.
TimeInv ==
    /\ \A p \in Password : /\ revokedAt[p] # None => revokedAt[p] <= now
                           /\ lastUsedAt[p] # None => lastUsedAt[p] <= now
                           /\ lastWritten[p] # None => lastWritten[p] <= now
    /\ \A k \in Key : cache[k] # None => cache[k] <= now + CacheTtl
    /\ \A w \in Worker :
          /\ localNow[w] <= now
          /\ entry[w] # None =>
                /\ entry[w] <= now + CacheTtl
                /\ Revoked(secret[w]) => entry[w] <= revokedAt[secret[w]] + CacheTtl
          /\ pc[w] \in {"hash", "store", "forceTouch"} =>
                \A p \in rows[w] : Revoked(p) => localNow[w] <= revokedAt[p]

IInv ==
    /\ TypeOK
    /\ CallInv
    /\ TimeInv
    /\ OnlyTheOwnerIsAccepted
    /\ StaleEntriesAreBounded
    /\ NoLateAcceptance
    /\ MarksReachTheDatabase

-----------------------------------------------------------------------------
LEMMA FiniteKeys ==
    \A S \in SUBSET Key : Cardinality(S) \in Nat
BY ConstantsAssumption, FS_Product, FS_Subset, FS_CardinalityType DEF Key

LEMMA InitInv == Init => IInv
BY ConstantsAssumption
DEF Init, IInv, TypeOK, CallInv, TimeInv, Stamp, Key, Cached, Revoked, Accepting,
    OnlyTheOwnerIsAccepted, StaleEntriesAreBounded, NoLateAcceptance,
    MarksReachTheDatabase

\* Every step keeps the variables in their types.
LEMMA TypeStep ==
    ASSUME IInv, [Next]_vars
    PROVE  TypeOK'
<1> USE ConstantsAssumption DEF IInv, TypeOK, Stamp, vars, createVars, markVars, dbVars, workerVars, loopVars
<1>1. CASE Tick
  BY <1>1 DEF Tick
<1>2. CASE Restart
  BY <1>2 DEF Restart, LoopIdle
<1>3. ASSUME NEW u \in User, NEW p \in Password, Create(u, p) PROVE  TypeOK'
  BY <1>3 DEF Create
<1>4. ASSUME NEW w \in Worker, NEW u \in User, NEW s \in Password \cup {WrongSecret}, VerifyLookup(w, u, s) PROVE  TypeOK'
  <2>1. (IF s \in Password THEN cache[<<u, s>>] ELSE None) \in Nat \cup {None}
    BY DEF Key
  <2> QED
    BY <1>4, <2>1 DEF VerifyLookup
<1>5. ASSUME NEW w \in Worker, VerifyHit(w) PROVE  TypeOK'
  BY <1>5 DEF VerifyHit, ReadClock
<1>6. ASSUME NEW w \in Worker, VerifyExpired(w) PROVE  TypeOK'
  BY <1>6 DEF VerifyExpired, ReadClock
<1>7. ASSUME NEW w \in Worker, VerifyMiss(w) PROVE  TypeOK'
  BY <1>7 DEF VerifyMiss, ReadClock
<1>8. ASSUME NEW w \in Worker, VerifyDrop(w) PROVE  TypeOK'
  BY <1>8 DEF VerifyDrop
<1>9. ASSUME NEW w \in Worker, VerifyQuery(w) PROVE  TypeOK'
  BY <1>9 DEF VerifyQuery, Fetch, Active
<1>10. ASSUME NEW w \in Worker, VerifyRaises(w) PROVE  TypeOK'
  BY <1>10 DEF VerifyRaises, Return
<1>11. ASSUME NEW w \in Worker, VerifyMatch(w) PROVE  TypeOK'
  BY <1>11 DEF VerifyMatch
<1>12. ASSUME NEW w \in Worker, VerifyReject(w) PROVE  TypeOK'
  BY <1>12 DEF VerifyReject, Return
<1>13. ASSUME NEW w \in Worker, VerifyStore(w) PROVE  TypeOK'
  <2> DEFINE key == <<who[w], secret[w]>>
  <2>1. key \in Key
    BY <1>13 DEF VerifyStore, StoreEntry, CallInv, Key
  <2>2. localNow[w] + CacheTtl \in Nat
    OBVIOUS
  <2>3. cache' \in [Key -> Nat \cup {None}] /\ pc' \in [Worker -> {"idle", "lookup", "drop", "query", "hash", "store",
                          "touch", "throttle", "forceTouch", "mark", "stamp"}]
    BY <1>13, <2>2 DEF VerifyStore, StoreEntry
  <2>4. scanned' \in SUBSET Key
    <3>1. CASE UNCHANGED scanned
      BY <3>1
    <3>2. CASE \E skipped \in SUBSET ((Cached \cup {key}) \ scanned) :
                 scanned' = scanned \cup skipped
      BY <3>2, <2>1 DEF Cached
    <3> QED
      BY <1>13, <3>1, <3>2 DEF VerifyStore, StoreEntry
  <2> QED
    BY <1>13, <2>3, <2>4 DEF VerifyStore, StoreEntry
<1>14. ASSUME NEW w \in Worker, TouchClock(w) PROVE  TypeOK'
  BY <1>14 DEF TouchClock
<1>15. ASSUME NEW w \in Worker, TouchSkip(w) PROVE  TypeOK'
  BY <1>15 DEF TouchSkip, Return
<1>16. ASSUME NEW w \in Worker, TouchPass(w) PROVE  TypeOK'
  BY <1>16 DEF TouchPass
<1>17. ASSUME NEW w \in Worker, TouchMark(w) PROVE  TypeOK'
  BY <1>17 DEF TouchMark
<1>18. ASSUME NEW w \in Worker, TouchStamp(w) PROVE  TypeOK'
  BY <1>18 DEF TouchStamp, Return
<1>19. ASSUME NEW w \in Worker, TouchRaises(w) PROVE  TypeOK'
  <2>1. secret[w] \in Password
    BY <1>19 DEF TouchRaises, CallInv
  <2> QED
    BY <1>19, <2>1 DEF TouchRaises, Return
<1>20. ASSUME NEW u \in User, NEW p \in Password, RevokeUpdate(u, p) PROVE  TypeOK'
  BY <1>20 DEF RevokeUpdate
<1>21. CASE InvalidateBegin
  BY <1>21, FiniteKeys DEF InvalidateBegin, Cached
<1>22. CASE ScanNext
  BY <1>22 DEF ScanNext, Cached, KeysAhead
<1>23. CASE ScanEnd
  BY <1>23 DEF ScanEnd
<1>24. CASE ScanRaise
  BY <1>24 DEF ScanRaise
<1>25. CASE InvalidatePop
  BY <1>25 DEF InvalidatePop, LoopIdle
<1>26. CASE RevokeFails
  BY <1>26 DEF RevokeFails, LoopIdle
<1>27. ASSUME NEW p \in Password, CreateReturns(p) PROVE  TypeOK'
  BY <1>27 DEF CreateReturns
<1>28. ASSUME NEW p \in Password, CreateRaises(p) PROVE  TypeOK'
  BY <1>28 DEF CreateRaises
<1>29. CASE UNCHANGED vars
  BY <1>29 DEF vars
<1> QED
  BY <1>1, <1>2, <1>3, <1>4, <1>5, <1>6, <1>7, <1>8, <1>9, <1>10, <1>11, <1>12, <1>13, <1>14,
     <1>15, <1>16, <1>17, <1>18, <1>19, <1>20, <1>21, <1>22, <1>23, <1>24, <1>25, <1>26, <1>27, <1>28, <1>29
  DEF Next, Verify, Revoke

\* A row keeps its owner, so what a call learnt about it stays true.
LEMMA CallStep ==
    ASSUME IInv, [Next]_vars
    PROVE  CallInv'
<1> USE ConstantsAssumption DEF IInv, TypeOK, CallInv, Stamp, vars, createVars, markVars, dbVars, workerVars, loopVars
<1>1. CASE Tick
  BY <1>1 DEF Tick
<1>2. CASE Restart
  BY <1>2 DEF Restart, LoopIdle
<1>3. ASSUME NEW u \in User, NEW p \in Password, Create(u, p) PROVE  CallInv'
  BY <1>3 DEF Create
<1>4. ASSUME NEW w \in Worker, NEW u \in User, NEW s \in Password \cup {WrongSecret}, VerifyLookup(w, u, s) PROVE  CallInv'
  BY <1>4 DEF VerifyLookup, Key, OnlyTheOwnerIsAccepted, Cached
<1>5. ASSUME NEW w \in Worker, VerifyHit(w) PROVE  CallInv'
  BY <1>5 DEF VerifyHit, ReadClock
<1>6. ASSUME NEW w \in Worker, VerifyExpired(w) PROVE  CallInv'
  BY <1>6 DEF VerifyExpired, ReadClock
<1>7. ASSUME NEW w \in Worker, VerifyMiss(w) PROVE  CallInv'
  BY <1>7 DEF VerifyMiss, ReadClock
<1>8. ASSUME NEW w \in Worker, VerifyDrop(w) PROVE  CallInv'
  BY <1>8 DEF VerifyDrop
<1>9. ASSUME NEW w \in Worker, VerifyQuery(w) PROVE  CallInv'
  BY <1>9 DEF VerifyQuery, Fetch, Active
<1>10. ASSUME NEW w \in Worker, VerifyRaises(w) PROVE  CallInv'
  BY <1>10 DEF VerifyRaises, Return
<1>11. ASSUME NEW w \in Worker, VerifyMatch(w) PROVE  CallInv'
  BY <1>11 DEF VerifyMatch
<1>12. ASSUME NEW w \in Worker, VerifyReject(w) PROVE  CallInv'
  BY <1>12 DEF VerifyReject, Return
<1>13. ASSUME NEW w \in Worker, VerifyStore(w) PROVE  CallInv'
  BY <1>13 DEF VerifyStore, StoreEntry
<1>14. ASSUME NEW w \in Worker, TouchClock(w) PROVE  CallInv'
  BY <1>14 DEF TouchClock
<1>15. ASSUME NEW w \in Worker, TouchSkip(w) PROVE  CallInv'
  BY <1>15 DEF TouchSkip, Return
<1>16. ASSUME NEW w \in Worker, TouchPass(w) PROVE  CallInv'
  BY <1>16 DEF TouchPass
<1>17. ASSUME NEW w \in Worker, TouchMark(w) PROVE  CallInv'
  BY <1>17 DEF TouchMark
<1>18. ASSUME NEW w \in Worker, TouchStamp(w) PROVE  CallInv'
  BY <1>18 DEF TouchStamp, Return
<1>19. ASSUME NEW w \in Worker, TouchRaises(w) PROVE  CallInv'
  BY <1>19 DEF TouchRaises, Return
<1>20. ASSUME NEW u \in User, NEW p \in Password, RevokeUpdate(u, p) PROVE  CallInv'
  BY <1>20 DEF RevokeUpdate
<1>21. CASE InvalidateBegin
  BY <1>21 DEF InvalidateBegin
<1>22. CASE ScanNext
  BY <1>22 DEF ScanNext
<1>23. CASE ScanEnd
  BY <1>23 DEF ScanEnd
<1>24. CASE ScanRaise
  BY <1>24 DEF ScanRaise
<1>25. CASE InvalidatePop
  BY <1>25 DEF InvalidatePop, LoopIdle
<1>26. CASE RevokeFails
  BY <1>26 DEF RevokeFails, LoopIdle
<1>27. ASSUME NEW p \in Password, CreateReturns(p) PROVE  CallInv'
  BY <1>27 DEF CreateReturns
<1>28. ASSUME NEW p \in Password, CreateRaises(p) PROVE  CallInv'
  BY <1>28 DEF CreateRaises
<1>29. CASE UNCHANGED vars
  BY <1>29 DEF vars
<1> QED
  BY <1>1, <1>2, <1>3, <1>4, <1>5, <1>6, <1>7, <1>8, <1>9, <1>10, <1>11, <1>12, <1>13, <1>14,
     <1>15, <1>16, <1>17, <1>18, <1>19, <1>20, <1>21, <1>22, <1>23, <1>24, <1>25, <1>26, <1>27, <1>28, <1>29
  DEF Next, Verify, Revoke

\* Entries and acceptances stay with the owner of the row.
LEMMA OwnerStep ==
    ASSUME IInv, [Next]_vars
    PROVE  OnlyTheOwnerIsAccepted'
<1> USE ConstantsAssumption DEF IInv, TypeOK, CallInv, OnlyTheOwnerIsAccepted, Cached, Key, Accepting, Stamp, vars, createVars, markVars, dbVars, workerVars, loopVars
<1>1. CASE Tick
  BY <1>1 DEF Tick
<1>2. CASE Restart
  BY <1>2 DEF Restart, LoopIdle
<1>3. ASSUME NEW u \in User, NEW p \in Password, Create(u, p) PROVE  OnlyTheOwnerIsAccepted'
  BY <1>3 DEF Create
<1>4. ASSUME NEW w \in Worker, NEW u \in User, NEW s \in Password \cup {WrongSecret}, VerifyLookup(w, u, s) PROVE  OnlyTheOwnerIsAccepted'
  BY <1>4 DEF VerifyLookup
<1>5. ASSUME NEW w \in Worker, VerifyHit(w) PROVE  OnlyTheOwnerIsAccepted'
  BY <1>5 DEF VerifyHit, ReadClock
<1>6. ASSUME NEW w \in Worker, VerifyExpired(w) PROVE  OnlyTheOwnerIsAccepted'
  BY <1>6 DEF VerifyExpired, ReadClock
<1>7. ASSUME NEW w \in Worker, VerifyMiss(w) PROVE  OnlyTheOwnerIsAccepted'
  BY <1>7 DEF VerifyMiss, ReadClock
<1>8. ASSUME NEW w \in Worker, VerifyDrop(w) PROVE  OnlyTheOwnerIsAccepted'
  BY <1>8 DEF VerifyDrop
<1>9. ASSUME NEW w \in Worker, VerifyQuery(w) PROVE  OnlyTheOwnerIsAccepted'
  BY <1>9 DEF VerifyQuery, Fetch, Active
<1>10. ASSUME NEW w \in Worker, VerifyRaises(w) PROVE  OnlyTheOwnerIsAccepted'
  BY <1>10 DEF VerifyRaises, Return
<1>11. ASSUME NEW w \in Worker, VerifyMatch(w) PROVE  OnlyTheOwnerIsAccepted'
  BY <1>11 DEF VerifyMatch
<1>12. ASSUME NEW w \in Worker, VerifyReject(w) PROVE  OnlyTheOwnerIsAccepted'
  BY <1>12 DEF VerifyReject, Return
<1>13. ASSUME NEW w \in Worker, VerifyStore(w) PROVE  OnlyTheOwnerIsAccepted'
  BY <1>13 DEF VerifyStore, StoreEntry
<1>14. ASSUME NEW w \in Worker, TouchClock(w) PROVE  OnlyTheOwnerIsAccepted'
  BY <1>14 DEF TouchClock
<1>15. ASSUME NEW w \in Worker, TouchSkip(w) PROVE  OnlyTheOwnerIsAccepted'
  BY <1>15 DEF TouchSkip, Return
<1>16. ASSUME NEW w \in Worker, TouchPass(w) PROVE  OnlyTheOwnerIsAccepted'
  BY <1>16 DEF TouchPass
<1>17. ASSUME NEW w \in Worker, TouchMark(w) PROVE  OnlyTheOwnerIsAccepted'
  BY <1>17 DEF TouchMark
<1>18. ASSUME NEW w \in Worker, TouchStamp(w) PROVE  OnlyTheOwnerIsAccepted'
  BY <1>18 DEF TouchStamp, Return
<1>19. ASSUME NEW w \in Worker, TouchRaises(w) PROVE  OnlyTheOwnerIsAccepted'
  BY <1>19 DEF TouchRaises, Return
<1>20. ASSUME NEW u \in User, NEW p \in Password, RevokeUpdate(u, p) PROVE  OnlyTheOwnerIsAccepted'
  BY <1>20 DEF RevokeUpdate
<1>21. CASE InvalidateBegin
  BY <1>21 DEF InvalidateBegin
<1>22. CASE ScanNext
  BY <1>22 DEF ScanNext
<1>23. CASE ScanEnd
  BY <1>23 DEF ScanEnd
<1>24. CASE ScanRaise
  BY <1>24 DEF ScanRaise
<1>25. CASE InvalidatePop
  BY <1>25 DEF InvalidatePop, LoopIdle
<1>26. CASE RevokeFails
  BY <1>26 DEF RevokeFails, LoopIdle
<1>27. ASSUME NEW p \in Password, CreateReturns(p) PROVE  OnlyTheOwnerIsAccepted'
  BY <1>27 DEF CreateReturns
<1>28. ASSUME NEW p \in Password, CreateRaises(p) PROVE  OnlyTheOwnerIsAccepted'
  BY <1>28 DEF CreateRaises
<1>29. CASE UNCHANGED vars
  BY <1>29 DEF vars
<1> QED
  BY <1>1, <1>2, <1>3, <1>4, <1>5, <1>6, <1>7, <1>8, <1>9, <1>10, <1>11, <1>12, <1>13, <1>14,
     <1>15, <1>16, <1>17, <1>18, <1>19, <1>20, <1>21, <1>22, <1>23, <1>24, <1>25, <1>26, <1>27, <1>28, <1>29
  DEF Next, Verify, Revoke

\* Time moves forward and a revocation is stamped with the present.
LEMMA TimeStep ==
    ASSUME IInv, [Next]_vars
    PROVE  TimeInv'
<1> USE ConstantsAssumption DEF IInv, TypeOK, CallInv, TimeInv, Revoked, Stamp, vars, createVars, markVars, dbVars, workerVars, loopVars
<1>1. CASE Tick
  BY <1>1 DEF Tick
<1>2. CASE Restart
  BY <1>2 DEF Restart, LoopIdle
<1>3. ASSUME NEW u \in User, NEW p \in Password, Create(u, p) PROVE  TimeInv'
  BY <1>3 DEF Create
<1>4. ASSUME NEW w \in Worker, NEW u \in User, NEW s \in Password \cup {WrongSecret}, VerifyLookup(w, u, s) PROVE  TimeInv'
  BY <1>4 DEF VerifyLookup, Key, StaleEntriesAreBounded, Cached
<1>5. ASSUME NEW w \in Worker, VerifyHit(w) PROVE  TimeInv'
  BY <1>5 DEF VerifyHit, ReadClock
<1>6. ASSUME NEW w \in Worker, VerifyExpired(w) PROVE  TimeInv'
  BY <1>6 DEF VerifyExpired, ReadClock
<1>7. ASSUME NEW w \in Worker, VerifyMiss(w) PROVE  TimeInv'
  BY <1>7 DEF VerifyMiss, ReadClock
<1>8. ASSUME NEW w \in Worker, VerifyDrop(w) PROVE  TimeInv'
  BY <1>8 DEF VerifyDrop
<1>9. ASSUME NEW w \in Worker, VerifyQuery(w) PROVE  TimeInv'
  BY <1>9 DEF VerifyQuery, Fetch, Active
<1>10. ASSUME NEW w \in Worker, VerifyRaises(w) PROVE  TimeInv'
  BY <1>10 DEF VerifyRaises, Return
<1>11. ASSUME NEW w \in Worker, VerifyMatch(w) PROVE  TimeInv'
  BY <1>11 DEF VerifyMatch
<1>12. ASSUME NEW w \in Worker, VerifyReject(w) PROVE  TimeInv'
  BY <1>12 DEF VerifyReject, Return
<1>13. ASSUME NEW w \in Worker, VerifyStore(w) PROVE  TimeInv'
  BY <1>13 DEF VerifyStore, StoreEntry
<1>14. ASSUME NEW w \in Worker, TouchClock(w) PROVE  TimeInv'
  BY <1>14 DEF TouchClock
<1>15. ASSUME NEW w \in Worker, TouchSkip(w) PROVE  TimeInv'
  BY <1>15 DEF TouchSkip, Return
<1>16. ASSUME NEW w \in Worker, TouchPass(w) PROVE  TimeInv'
  BY <1>16 DEF TouchPass
<1>17. ASSUME NEW w \in Worker, TouchMark(w) PROVE  TimeInv'
  BY <1>17 DEF TouchMark
<1>18. ASSUME NEW w \in Worker, TouchStamp(w) PROVE  TimeInv'
  BY <1>18 DEF TouchStamp, Return
<1>19. ASSUME NEW w \in Worker, TouchRaises(w) PROVE  TimeInv'
  BY <1>19 DEF TouchRaises, Return
<1>20. ASSUME NEW u \in User, NEW p \in Password, RevokeUpdate(u, p) PROVE  TimeInv'
  BY <1>20 DEF RevokeUpdate
<1>21. CASE InvalidateBegin
  BY <1>21 DEF InvalidateBegin
<1>22. CASE ScanNext
  BY <1>22 DEF ScanNext
<1>23. CASE ScanEnd
  BY <1>23 DEF ScanEnd
<1>24. CASE ScanRaise
  BY <1>24 DEF ScanRaise
<1>25. CASE InvalidatePop
  BY <1>25 DEF InvalidatePop, LoopIdle
<1>26. CASE RevokeFails
  BY <1>26 DEF RevokeFails, LoopIdle
<1>27. ASSUME NEW p \in Password, CreateReturns(p) PROVE  TimeInv'
  BY <1>27 DEF CreateReturns
<1>28. ASSUME NEW p \in Password, CreateRaises(p) PROVE  TimeInv'
  BY <1>28 DEF CreateRaises
<1>29. CASE UNCHANGED vars
  BY <1>29 DEF vars
<1> QED
  BY <1>1, <1>2, <1>3, <1>4, <1>5, <1>6, <1>7, <1>8, <1>9, <1>10, <1>11, <1>12, <1>13, <1>14,
     <1>15, <1>16, <1>17, <1>18, <1>19, <1>20, <1>21, <1>22, <1>23, <1>24, <1>25, <1>26, <1>27, <1>28, <1>29
  DEF Next, Verify, Revoke

\* The expiry a call stores counts from before the row was revoked.
LEMMA StaleStep ==
    ASSUME IInv, [Next]_vars
    PROVE  StaleEntriesAreBounded'
<1> USE ConstantsAssumption DEF IInv, TypeOK, CallInv, TimeInv, StaleEntriesAreBounded, Cached, Key, Revoked, Stamp, vars, createVars, markVars, dbVars, workerVars, loopVars
<1>1. CASE Tick
  BY <1>1 DEF Tick
<1>2. CASE Restart
  BY <1>2 DEF Restart, LoopIdle
<1>3. ASSUME NEW u \in User, NEW p \in Password, Create(u, p) PROVE  StaleEntriesAreBounded'
  BY <1>3 DEF Create
<1>4. ASSUME NEW w \in Worker, NEW u \in User, NEW s \in Password \cup {WrongSecret}, VerifyLookup(w, u, s) PROVE  StaleEntriesAreBounded'
  BY <1>4 DEF VerifyLookup
<1>5. ASSUME NEW w \in Worker, VerifyHit(w) PROVE  StaleEntriesAreBounded'
  BY <1>5 DEF VerifyHit, ReadClock
<1>6. ASSUME NEW w \in Worker, VerifyExpired(w) PROVE  StaleEntriesAreBounded'
  BY <1>6 DEF VerifyExpired, ReadClock
<1>7. ASSUME NEW w \in Worker, VerifyMiss(w) PROVE  StaleEntriesAreBounded'
  BY <1>7 DEF VerifyMiss, ReadClock
<1>8. ASSUME NEW w \in Worker, VerifyDrop(w) PROVE  StaleEntriesAreBounded'
  BY <1>8 DEF VerifyDrop
<1>9. ASSUME NEW w \in Worker, VerifyQuery(w) PROVE  StaleEntriesAreBounded'
  BY <1>9 DEF VerifyQuery, Fetch, Active
<1>10. ASSUME NEW w \in Worker, VerifyRaises(w) PROVE  StaleEntriesAreBounded'
  BY <1>10 DEF VerifyRaises, Return
<1>11. ASSUME NEW w \in Worker, VerifyMatch(w) PROVE  StaleEntriesAreBounded'
  BY <1>11 DEF VerifyMatch
<1>12. ASSUME NEW w \in Worker, VerifyReject(w) PROVE  StaleEntriesAreBounded'
  BY <1>12 DEF VerifyReject, Return
<1>13. ASSUME NEW w \in Worker, VerifyStore(w) PROVE  StaleEntriesAreBounded'
  BY <1>13 DEF VerifyStore, StoreEntry
<1>14. ASSUME NEW w \in Worker, TouchClock(w) PROVE  StaleEntriesAreBounded'
  BY <1>14 DEF TouchClock
<1>15. ASSUME NEW w \in Worker, TouchSkip(w) PROVE  StaleEntriesAreBounded'
  BY <1>15 DEF TouchSkip, Return
<1>16. ASSUME NEW w \in Worker, TouchPass(w) PROVE  StaleEntriesAreBounded'
  BY <1>16 DEF TouchPass
<1>17. ASSUME NEW w \in Worker, TouchMark(w) PROVE  StaleEntriesAreBounded'
  BY <1>17 DEF TouchMark
<1>18. ASSUME NEW w \in Worker, TouchStamp(w) PROVE  StaleEntriesAreBounded'
  BY <1>18 DEF TouchStamp, Return
<1>19. ASSUME NEW w \in Worker, TouchRaises(w) PROVE  StaleEntriesAreBounded'
  BY <1>19 DEF TouchRaises, Return
<1>20. ASSUME NEW u \in User, NEW p \in Password, RevokeUpdate(u, p) PROVE  StaleEntriesAreBounded'
  BY <1>20 DEF RevokeUpdate
<1>21. CASE InvalidateBegin
  BY <1>21 DEF InvalidateBegin
<1>22. CASE ScanNext
  BY <1>22 DEF ScanNext
<1>23. CASE ScanEnd
  BY <1>23 DEF ScanEnd
<1>24. CASE ScanRaise
  BY <1>24 DEF ScanRaise
<1>25. CASE InvalidatePop
  BY <1>25 DEF InvalidatePop, LoopIdle
<1>26. CASE RevokeFails
  BY <1>26 DEF RevokeFails, LoopIdle
<1>27. ASSUME NEW p \in Password, CreateReturns(p) PROVE  StaleEntriesAreBounded'
  BY <1>27 DEF CreateReturns
<1>28. ASSUME NEW p \in Password, CreateRaises(p) PROVE  StaleEntriesAreBounded'
  BY <1>28 DEF CreateRaises
<1>29. CASE UNCHANGED vars
  BY <1>29 DEF vars
<1> QED
  BY <1>1, <1>2, <1>3, <1>4, <1>5, <1>6, <1>7, <1>8, <1>9, <1>10, <1>11, <1>12, <1>13, <1>14,
     <1>15, <1>16, <1>17, <1>18, <1>19, <1>20, <1>21, <1>22, <1>23, <1>24, <1>25, <1>26, <1>27, <1>28, <1>29
  DEF Next, Verify, Revoke

\* A call that accepts took its time from a live entry or before the revocation.
LEMMA LateStep ==
    ASSUME IInv, [Next]_vars
    PROVE  NoLateAcceptance'
<1> USE ConstantsAssumption DEF IInv, TypeOK, CallInv, TimeInv, NoLateAcceptance, Accepting, Revoked, Stamp, vars, createVars, markVars, dbVars, workerVars, loopVars
<1>1. CASE Tick
  BY <1>1 DEF Tick
<1>2. CASE Restart
  BY <1>2 DEF Restart, LoopIdle
<1>3. ASSUME NEW u \in User, NEW p \in Password, Create(u, p) PROVE  NoLateAcceptance'
  BY <1>3 DEF Create
<1>4. ASSUME NEW w \in Worker, NEW u \in User, NEW s \in Password \cup {WrongSecret}, VerifyLookup(w, u, s) PROVE  NoLateAcceptance'
  BY <1>4 DEF VerifyLookup
<1>5. ASSUME NEW w \in Worker, VerifyHit(w) PROVE  NoLateAcceptance'
  BY <1>5 DEF VerifyHit, ReadClock
<1>6. ASSUME NEW w \in Worker, VerifyExpired(w) PROVE  NoLateAcceptance'
  BY <1>6 DEF VerifyExpired, ReadClock
<1>7. ASSUME NEW w \in Worker, VerifyMiss(w) PROVE  NoLateAcceptance'
  BY <1>7 DEF VerifyMiss, ReadClock
<1>8. ASSUME NEW w \in Worker, VerifyDrop(w) PROVE  NoLateAcceptance'
  BY <1>8 DEF VerifyDrop
<1>9. ASSUME NEW w \in Worker, VerifyQuery(w) PROVE  NoLateAcceptance'
  BY <1>9 DEF VerifyQuery, Fetch, Active
<1>10. ASSUME NEW w \in Worker, VerifyRaises(w) PROVE  NoLateAcceptance'
  BY <1>10 DEF VerifyRaises, Return
<1>11. ASSUME NEW w \in Worker, VerifyMatch(w) PROVE  NoLateAcceptance'
  BY <1>11 DEF VerifyMatch
<1>12. ASSUME NEW w \in Worker, VerifyReject(w) PROVE  NoLateAcceptance'
  BY <1>12 DEF VerifyReject, Return
<1>13. ASSUME NEW w \in Worker, VerifyStore(w) PROVE  NoLateAcceptance'
  BY <1>13 DEF VerifyStore, StoreEntry
<1>14. ASSUME NEW w \in Worker, TouchClock(w) PROVE  NoLateAcceptance'
  BY <1>14 DEF TouchClock
<1>15. ASSUME NEW w \in Worker, TouchSkip(w) PROVE  NoLateAcceptance'
  BY <1>15 DEF TouchSkip, Return
<1>16. ASSUME NEW w \in Worker, TouchPass(w) PROVE  NoLateAcceptance'
  BY <1>16 DEF TouchPass
<1>17. ASSUME NEW w \in Worker, TouchMark(w) PROVE  NoLateAcceptance'
  BY <1>17 DEF TouchMark
<1>18. ASSUME NEW w \in Worker, TouchStamp(w) PROVE  NoLateAcceptance'
  BY <1>18 DEF TouchStamp, Return
<1>19. ASSUME NEW w \in Worker, TouchRaises(w) PROVE  NoLateAcceptance'
  BY <1>19 DEF TouchRaises, Return
<1>20. ASSUME NEW u \in User, NEW p \in Password, RevokeUpdate(u, p) PROVE  NoLateAcceptance'
  BY <1>20 DEF RevokeUpdate
<1>21. CASE InvalidateBegin
  BY <1>21 DEF InvalidateBegin
<1>22. CASE ScanNext
  BY <1>22 DEF ScanNext
<1>23. CASE ScanEnd
  BY <1>23 DEF ScanEnd
<1>24. CASE ScanRaise
  BY <1>24 DEF ScanRaise
<1>25. CASE InvalidatePop
  BY <1>25 DEF InvalidatePop, LoopIdle
<1>26. CASE RevokeFails
  BY <1>26 DEF RevokeFails, LoopIdle
<1>27. ASSUME NEW p \in Password, CreateReturns(p) PROVE  NoLateAcceptance'
  BY <1>27 DEF CreateReturns
<1>28. ASSUME NEW p \in Password, CreateRaises(p) PROVE  NoLateAcceptance'
  BY <1>28 DEF CreateRaises
<1>29. CASE UNCHANGED vars
  BY <1>29 DEF vars
<1> QED
  BY <1>1, <1>2, <1>3, <1>4, <1>5, <1>6, <1>7, <1>8, <1>9, <1>10, <1>11, <1>12, <1>13, <1>14,
     <1>15, <1>16, <1>17, <1>18, <1>19, <1>20, <1>21, <1>22, <1>23, <1>24, <1>25, <1>26, <1>27, <1>28, <1>29
  DEF Next, Verify, Revoke

\* The call that made a mark goes on to an UPDATE of the same row, which writes a
\* later time or raises.
LEMMA MarkStep ==
    ASSUME IInv, [Next]_vars
    PROVE  MarksReachTheDatabase'
<1> USE ConstantsAssumption DEF IInv, TypeOK, CallInv, TimeInv, MarksReachTheDatabase, Stamp, vars, createVars, markVars, dbVars, workerVars, loopVars
<1>1. CASE Tick
  BY <1>1 DEF Tick
<1>2. CASE Restart
  BY <1>2 DEF Restart, LoopIdle
<1>3. ASSUME NEW u \in User, NEW p \in Password, Create(u, p) PROVE  MarksReachTheDatabase'
  BY <1>3 DEF Create
<1>4. ASSUME NEW w \in Worker, NEW u \in User, NEW s \in Password \cup {WrongSecret}, VerifyLookup(w, u, s) PROVE  MarksReachTheDatabase'
  BY <1>4 DEF VerifyLookup
<1>5. ASSUME NEW w \in Worker, VerifyHit(w) PROVE  MarksReachTheDatabase'
  BY <1>5 DEF VerifyHit, ReadClock
<1>6. ASSUME NEW w \in Worker, VerifyExpired(w) PROVE  MarksReachTheDatabase'
  BY <1>6 DEF VerifyExpired, ReadClock
<1>7. ASSUME NEW w \in Worker, VerifyMiss(w) PROVE  MarksReachTheDatabase'
  BY <1>7 DEF VerifyMiss, ReadClock
<1>8. ASSUME NEW w \in Worker, VerifyDrop(w) PROVE  MarksReachTheDatabase'
  BY <1>8 DEF VerifyDrop
<1>9. ASSUME NEW w \in Worker, VerifyQuery(w) PROVE  MarksReachTheDatabase'
  BY <1>9 DEF VerifyQuery, Fetch, Active
<1>10. ASSUME NEW w \in Worker, VerifyRaises(w) PROVE  MarksReachTheDatabase'
  BY <1>10 DEF VerifyRaises, Return
<1>11. ASSUME NEW w \in Worker, VerifyMatch(w) PROVE  MarksReachTheDatabase'
  BY <1>11 DEF VerifyMatch
<1>12. ASSUME NEW w \in Worker, VerifyReject(w) PROVE  MarksReachTheDatabase'
  BY <1>12 DEF VerifyReject, Return
<1>13. ASSUME NEW w \in Worker, VerifyStore(w) PROVE  MarksReachTheDatabase'
  BY <1>13 DEF VerifyStore, StoreEntry
<1>14. ASSUME NEW w \in Worker, TouchClock(w) PROVE  MarksReachTheDatabase'
  BY <1>14 DEF TouchClock
<1>15. ASSUME NEW w \in Worker, TouchSkip(w) PROVE  MarksReachTheDatabase'
  BY <1>15 DEF TouchSkip, Return
<1>16. ASSUME NEW w \in Worker, TouchPass(w) PROVE  MarksReachTheDatabase'
  BY <1>16 DEF TouchPass
<1>17. ASSUME NEW w \in Worker, TouchMark(w) PROVE  MarksReachTheDatabase'
  BY <1>17 DEF TouchMark
<1>18. ASSUME NEW w \in Worker, TouchStamp(w) PROVE  MarksReachTheDatabase'
  BY <1>18 DEF TouchStamp, Return
<1>19. ASSUME NEW w \in Worker, TouchRaises(w) PROVE  MarksReachTheDatabase'
  BY <1>19 DEF TouchRaises, Return
<1>20. ASSUME NEW u \in User, NEW p \in Password, RevokeUpdate(u, p) PROVE  MarksReachTheDatabase'
  BY <1>20 DEF RevokeUpdate
<1>21. CASE InvalidateBegin
  BY <1>21 DEF InvalidateBegin
<1>22. CASE ScanNext
  BY <1>22 DEF ScanNext
<1>23. CASE ScanEnd
  BY <1>23 DEF ScanEnd
<1>24. CASE ScanRaise
  BY <1>24 DEF ScanRaise
<1>25. CASE InvalidatePop
  BY <1>25 DEF InvalidatePop, LoopIdle
<1>26. CASE RevokeFails
  BY <1>26 DEF RevokeFails, LoopIdle
<1>27. ASSUME NEW p \in Password, CreateReturns(p) PROVE  MarksReachTheDatabase'
  BY <1>27 DEF CreateReturns
<1>28. ASSUME NEW p \in Password, CreateRaises(p) PROVE  MarksReachTheDatabase'
  BY <1>28 DEF CreateRaises
<1>29. CASE UNCHANGED vars
  BY <1>29 DEF vars
<1> QED
  BY <1>1, <1>2, <1>3, <1>4, <1>5, <1>6, <1>7, <1>8, <1>9, <1>10, <1>11, <1>12, <1>13, <1>14,
     <1>15, <1>16, <1>17, <1>18, <1>19, <1>20, <1>21, <1>22, <1>23, <1>24, <1>25, <1>26, <1>27, <1>28, <1>29
  DEF Next, Verify, Revoke

-----------------------------------------------------------------------------
LEMMA Invariant == Spec => []IInv
<1>1. IInv /\ [Next]_vars => IInv'
  BY TypeStep, CallStep, OwnerStep, TimeStep, StaleStep, LateStep, MarkStep DEF IInv
<1> QED
  BY InitInv, <1>1, PTL DEF Spec

\* The variables keep their types: no step stores an expiry, a row or a key of
\* the dict scan that its column or dictionary could not hold.
THEOREM TypeCorrect == Spec => []TypeOK
BY Invariant, PTL DEF IInv

\* verify() accepts a secret, and _cache holds it, only under the username that
\* created it.
THEOREM OwnerCorrect == Spec => []OnlyTheOwnerIsAccepted
BY Invariant, PTL DEF IInv

\* An entry that verify() writes around a revocation expires at most CacheTtl
\* after it, whichever of them finished first and even if revoke() raised.
THEOREM StalenessBounded == Spec => []StaleEntriesAreBounded
BY Invariant, PTL DEF IInv

\* No verify() call that starts CacheTtl or more after the revocation of its
\* secret accepts it.
THEOREM AcceptanceBounded == Spec => []NoLateAcceptance
BY Invariant, PTL DEF IInv

\* The throttle of _touch() hides a use from the database only after an UPDATE
\* that raised, and then until the throttle lets the next one through.
THEOREM MarksStamped == Spec => []MarksReachTheDatabase
BY Invariant, PTL DEF IInv

\* last_used_at never moves back.
THEOREM LastUsedMonotonic == Spec => LastUsedNeverMovesBack
<1>1. IInv /\ [Next]_vars =>
        [\A p \in Password : lastUsedAt[p] # None =>
            lastUsedAt'[p] # None /\ lastUsedAt'[p] >= lastUsedAt[p]]_vars
  <2> SUFFICES ASSUME IInv, Next, NEW p \in Password, lastUsedAt[p] # None
               PROVE  lastUsedAt'[p] # None /\ lastUsedAt'[p] >= lastUsedAt[p]
    OBVIOUS
  <2>1. lastUsedAt[p] \in Nat /\ lastUsedAt[p] <= now /\ now \in Nat
    BY DEF IInv, TypeOK, TimeInv, Stamp
  <2>2. CASE lastUsedAt' = lastUsedAt
    BY <2>1, <2>2
  <2>3. ASSUME NEW w \in Worker, TouchStamp(w)
        PROVE  lastUsedAt'[p] \in {lastUsedAt[p], now}
    BY <2>3 DEF TouchStamp, IInv, TypeOK
  <2>4. now # None
    BY <2>1, ConstantsAssumption
  <2>5. lastUsedAt' = lastUsedAt \/ \E w \in Worker : TouchStamp(w)
    BY DEF Next, Verify, Revoke, Tick, Restart, Create, CreateReturns, CreateRaises, VerifyLookup, VerifyHit, VerifyExpired,
        VerifyMiss, ReadClock, VerifyDrop, VerifyQuery, Fetch, VerifyRaises, VerifyMatch, VerifyReject,
        VerifyStore, StoreEntry, TouchClock, TouchSkip, TouchPass, TouchMark, TouchRaises, RevokeUpdate,
        InvalidateBegin, ScanNext, ScanEnd, ScanRaise, InvalidatePop, RevokeFails, dbVars
  <2> QED
    BY <2>1, <2>2, <2>3, <2>4, <2>5
<1> QED
  BY Invariant, <1>1, PTL DEF Spec, LastUsedNeverMovesBack
=============================================================================
