------------------------- MODULE TransactionsProofs -------------------------
(***************************************************************************)
(* The locked connection implements the atomic store, for every number of  *)
(* threads, accounts and rows and every cap.  The invariant says, for each *)
(* place in a block, how the connection's view differs from the committed  *)
(* rows: only by the one statement of the thread that holds the lock.      *)
(***************************************************************************)
EXTENDS Transactions, FiniteSetTheorems, TLAPS

Clean == txOwner = owner /\ txRevoked = revoked

\* What a thread's place in its method says about the method's arguments.
ArgInv ==
    \A t \in Thread :
        /\ pc[t] = "idle" => method[t] = None
        /\ pc[t] # "idle" => account[t] \in Account /\ method[t] \in Method
        /\ pc[t] \in {"count", "insert"} => method[t] = "create"
        /\ pc[t] \in {"update"} => method[t] = "revoke"
        /\ pc[t] = "read" => method[t] \in {"get", "record"}
        /\ method[t] \in {"revoke", "record"} => target[t] \in Credential
        /\ method[t] = "create" /\ pc[t] \in {"waiting", "count", "insert"} => target[t] = None
        /\ method[t] = "create" /\ pc[t] = "commit" => target[t] \in Credential
        /\ method[t] = "create" /\ pc[t] = "release" /\ ok[t] => target[t] \in Credential

\* What a thread's place in its block says about the transaction.
TxAt(t) ==
    /\ pc[t] \in {"count", "insert", "update", "read", "release"} => Clean
    /\ pc[t] \in {"count", "insert", "update", "read", "commit", "rollback"} => ~ok[t]
    /\ pc[t] = "insert" => active[t] = Cardinality(Store!Active(account[t]))
    /\ pc[t] = "commit" /\ method[t] = "create" =>
          /\ owner[target[t]] = None
          /\ Cardinality(Store!Active(account[t])) < Cap
          /\ txOwner = [owner EXCEPT ![target[t]] = account[t]]
          /\ txRevoked = revoked
    /\ pc[t] = "commit" /\ method[t] = "revoke" =>
          /\ txOwner = owner
          /\ txRevoked = revoked \cup ({target[t]} \cap Store!Active(account[t]))
    /\ pc[t] = "commit" /\ method[t] \in {"get", "record"} => Clean
    /\ pc[t] = "rollback" /\ method[t] = "create" /\ target[t] # None =>
          owner[target[t]] = None

TxInv == \A t \in Thread : TxAt(t)

\* What a block that is about to end says about the file, create()'s second apart.
OutcomeAt(t) ==
    pc[t] = "release" =>
        /\ method[t] = "create" /\ ok[t] => owner[target[t]] = account[t]
        /\ method[t] = "create" /\ ~ok[t] /\ target[t] # None => owner[target[t]] = None
        /\ method[t] = "revoke" /\ ok[t] => target[t] \notin Store!Active(account[t])

BlockOutcomes == \A t \in Thread : OutcomeAt(t)

\* A row that create() committed stays there while it waits to read it back.
RecordInv == \A t \in Thread : method[t] = "record" => owner[target[t]] = account[t]

IInv ==
    /\ TypeOK
    /\ MutualExclusion
    /\ NothingLeftBehind
    /\ ArgInv
    /\ TxInv
    /\ BlockOutcomes
    /\ RecordInv
-----------------------------------------------------------------------------

\* The instance counts with the same Cardinality.
LEMMA SameCardinality == \A S : Store!Cardinality(S) = Cardinality(S)
BY DEF Cardinality, Store!Cardinality

LEMMA CountsAreNat ==
    \A S \in SUBSET Credential : Cardinality(S) \in Nat
BY TransactionsAssumption, FS_Subset, FS_CardinalityType

LEMMA InitInv == Init => IInv
BY TransactionsAssumption
DEF Init, IInv, TypeOK, Store!StoreTypeOK, Store!Init, MutualExclusion, NothingLeftBehind,
    ArgInv, TxInv, TxAt, BlockOutcomes, OutcomeAt, RecordInv, InBlock, Clean, Method

\* The types, and the arguments a method keeps from call to return.
LEMMA TypeStep ==
    ASSUME IInv, [Next]_vars
    PROVE  (TypeOK /\ ArgInv)'
<1> USE TransactionsAssumption DEF IInv, TypeOK, Store!StoreTypeOK, ArgInv, vars, dbVars, txVars, argVars, Goto, InBlock, Method
<1>1. CASE Crash
  BY <1>1 DEF Crash
<1>2. ASSUME NEW t \in Thread, NEW m \in {"create", "get"}, NEW a \in Account, Call(t, m, a, None) PROVE  (TypeOK /\ ArgInv)'
  BY <1>2 DEF Call
<1>3. ASSUME NEW t \in Thread, NEW a \in Account, NEW c \in Credential, Call(t, "revoke", a, c) PROVE  (TypeOK /\ ArgInv)'
  BY <1>3 DEF Call
<1>4. ASSUME NEW t \in Thread, Acquire(t) PROVE  (TypeOK /\ ArgInv)'
  BY <1>4 DEF Acquire, EnterBlock, FirstStatement
<1>5. ASSUME NEW t \in Thread, Count(t) PROVE  (TypeOK /\ ArgInv)'
  BY <1>5, CountsAreNat DEF Count, TxActive
<1>6. ASSUME NEW t \in Thread, LimitReached(t) PROVE  (TypeOK /\ ArgInv)'
  BY <1>6 DEF LimitReached
<1>7. ASSUME NEW t \in Thread, Insert(t) PROVE  (TypeOK /\ ArgInv)'
  BY <1>7 DEF Insert, InsertUnder
<1>8. ASSUME NEW t \in Thread, Update(t) PROVE  (TypeOK /\ ArgInv)'
  BY <1>8 DEF Update, TxActive, Store!Active
<1>9. ASSUME NEW t \in Thread, Read(t) PROVE  (TypeOK /\ ArgInv)'
  BY <1>9 DEF Read
<1>10. ASSUME NEW t \in Thread, Commit(t) PROVE  (TypeOK /\ ArgInv)'
  BY <1>10 DEF Commit
<1>11. ASSUME NEW t \in Thread, StatementFails(t) PROVE  (TypeOK /\ ArgInv)'
  BY <1>11 DEF StatementFails
<1>12. ASSUME NEW t \in Thread, Rollback(t) PROVE  (TypeOK /\ ArgInv)'
  BY <1>12 DEF Rollback, TxInv, TxAt
<1>13. ASSUME NEW t \in Thread, Release(t) PROVE  (TypeOK /\ ArgInv)'
  BY <1>13 DEF Release
<1>14. ASSUME NEW t \in Thread, ReadBack(t) PROVE  (TypeOK /\ ArgInv)'
  BY <1>14 DEF ReadBack
<1>15. CASE UNCHANGED vars
  BY <1>15 DEF vars
<1> QED
  BY <1>1, <1>2, <1>3, <1>4, <1>5, <1>6, <1>7, <1>8, <1>9, <1>10, <1>11, <1>12, <1>13, <1>14, <1>15
  DEF Next, Step, Work, CallCreate, CallRead, CallRevoke

\* The lock admits one thread to the blocks.
LEMMA LockStep ==
    ASSUME IInv, [Next]_vars
    PROVE  MutualExclusion'
<1> USE TransactionsAssumption DEF IInv, TypeOK, ArgInv, MutualExclusion, vars, dbVars, txVars, argVars, Goto, InBlock, Method
<1>1. CASE Crash
  BY <1>1 DEF Crash
<1>2. ASSUME NEW t \in Thread, NEW m \in {"create", "get"}, NEW a \in Account, Call(t, m, a, None) PROVE  MutualExclusion'
  BY <1>2 DEF Call
<1>3. ASSUME NEW t \in Thread, NEW a \in Account, NEW c \in Credential, Call(t, "revoke", a, c) PROVE  MutualExclusion'
  BY <1>3 DEF Call
<1>4. ASSUME NEW t \in Thread, Acquire(t) PROVE  MutualExclusion'
  BY <1>4 DEF Acquire, EnterBlock, FirstStatement
<1>5. ASSUME NEW t \in Thread, Count(t) PROVE  MutualExclusion'
  BY <1>5 DEF Count, TxActive, Store!Active
<1>6. ASSUME NEW t \in Thread, LimitReached(t) PROVE  MutualExclusion'
  BY <1>6 DEF LimitReached
<1>7. ASSUME NEW t \in Thread, Insert(t) PROVE  MutualExclusion'
  BY <1>7 DEF Insert, InsertUnder
<1>8. ASSUME NEW t \in Thread, Update(t) PROVE  MutualExclusion'
  BY <1>8 DEF Update, TxActive, Store!Active
<1>9. ASSUME NEW t \in Thread, Read(t) PROVE  MutualExclusion'
  BY <1>9 DEF Read
<1>10. ASSUME NEW t \in Thread, Commit(t) PROVE  MutualExclusion'
  BY <1>10 DEF Commit
<1>11. ASSUME NEW t \in Thread, StatementFails(t) PROVE  MutualExclusion'
  BY <1>11 DEF StatementFails
<1>12. ASSUME NEW t \in Thread, Rollback(t) PROVE  MutualExclusion'
  BY <1>12 DEF Rollback
<1>13. ASSUME NEW t \in Thread, Release(t) PROVE  MutualExclusion'
  BY <1>13 DEF Release
<1>14. ASSUME NEW t \in Thread, ReadBack(t) PROVE  MutualExclusion'
  BY <1>14 DEF ReadBack
<1>15. CASE UNCHANGED vars
  BY <1>15 DEF vars
<1> QED
  BY <1>1, <1>2, <1>3, <1>4, <1>5, <1>6, <1>7, <1>8, <1>9, <1>10, <1>11, <1>12, <1>13, <1>14, <1>15
  DEF Next, Step, Work, CallCreate, CallRead, CallRevoke

\* Only the holder's own statement is pending in the transaction, and what its
\* block reports is what the file holds.
LEMMA TxStep ==
    ASSUME IInv, [Next]_vars
    PROVE  (TxInv /\ BlockOutcomes /\ NothingLeftBehind)'
<1> USE TransactionsAssumption DEF IInv
<1>1. CASE Crash
  <2>1. Clean' /\ \A t \in Thread : pc'[t] = "idle"
    BY <1>1 DEF Crash, Clean, dbVars
  <2> QED
    BY <2>1 DEF TxInv, TxAt, BlockOutcomes, OutcomeAt, NothingLeftBehind, Clean
<1>2. ASSUME NEW t \in Thread, NEW m \in {"create", "get"}, NEW a \in Account, Call(t, m, a, None) PROVE  (TxInv /\ BlockOutcomes /\ NothingLeftBehind)'
  <2>1. /\ UNCHANGED <<dbVars, txVars, lock>>
        /\ pc'[t] = "waiting"
    BY <1>2 DEF Call, TypeOK, Goto
  <2>2. NothingLeftBehind'
    BY <2>1 DEF NothingLeftBehind, dbVars, txVars
  <2>3. ASSUME NEW u \in Thread PROVE TxAt(u)' /\ OutcomeAt(u)'
    <3>1. CASE u = t
      BY <2>1, <3>1 DEF TxAt, OutcomeAt
    <3>2. CASE u # t
      <4>0. /\ pc'[u] = pc[u] /\ method'[u] = method[u] /\ account'[u] = account[u]
            /\ target'[u] = target[u] /\ active'[u] = active[u] /\ ok'[u] = ok[u]
        BY <1>2, <3>2 DEF Call, TypeOK, Goto
      <4>1. Store!Active(account[u])' = Store!Active(account[u])
        BY <2>1, <4>0 DEF dbVars, Store!Active
      <4>2. TxAt(u) /\ OutcomeAt(u)
        BY DEF TxInv, BlockOutcomes
      <4> QED
        BY <2>1, <4>0, <4>1, <4>2 DEF TxAt, OutcomeAt, Clean, dbVars, txVars
    <3> QED
      BY <3>1, <3>2
  <2> QED
    BY <2>2, <2>3 DEF TxInv, BlockOutcomes
<1>3. ASSUME NEW t \in Thread, NEW a \in Account, NEW c \in Credential, Call(t, "revoke", a, c) PROVE  (TxInv /\ BlockOutcomes /\ NothingLeftBehind)'
  <2>1. /\ UNCHANGED <<dbVars, txVars, lock>>
        /\ pc'[t] = "waiting"
    BY <1>3 DEF Call, TypeOK, Goto
  <2>2. NothingLeftBehind'
    BY <2>1 DEF NothingLeftBehind, dbVars, txVars
  <2>3. ASSUME NEW u \in Thread PROVE TxAt(u)' /\ OutcomeAt(u)'
    <3>1. CASE u = t
      BY <2>1, <3>1 DEF TxAt, OutcomeAt
    <3>2. CASE u # t
      <4>0. /\ pc'[u] = pc[u] /\ method'[u] = method[u] /\ account'[u] = account[u]
            /\ target'[u] = target[u] /\ active'[u] = active[u] /\ ok'[u] = ok[u]
        BY <1>3, <3>2 DEF Call, TypeOK, Goto
      <4>1. Store!Active(account[u])' = Store!Active(account[u])
        BY <2>1, <4>0 DEF dbVars, Store!Active
      <4>2. TxAt(u) /\ OutcomeAt(u)
        BY DEF TxInv, BlockOutcomes
      <4> QED
        BY <2>1, <4>0, <4>1, <4>2 DEF TxAt, OutcomeAt, Clean, dbVars, txVars
    <3> QED
      BY <3>1, <3>2
  <2> QED
    BY <2>2, <2>3 DEF TxInv, BlockOutcomes
<1>4. ASSUME NEW t \in Thread, Acquire(t) PROVE  (TxInv /\ BlockOutcomes /\ NothingLeftBehind)'
  <2>1. \A u \in Thread \ {t} : pc[u] \notin InBlock
    BY <1>4 DEF MutualExclusion, Acquire, EnterBlock, FirstStatement, InBlock
  <2>2. \A u \in Thread \ {t} : pc'[u] \notin InBlock
    BY <2>1, <1>4 DEF Acquire, EnterBlock, FirstStatement, TypeOK, Goto
  <2>3. \A u \in Thread \ {t} : TxAt(u)' /\ OutcomeAt(u)'
    BY <2>2 DEF TxAt, OutcomeAt, InBlock
  <2>4. TxAt(t)' /\ OutcomeAt(t)'
    <3>1. Clean'
      BY <1>4 DEF NothingLeftBehind, Clean, Acquire, EnterBlock, FirstStatement, dbVars, txVars
    <3>2. pc'[t] \in {"count", "update", "read"} /\ ~ok'[t]
      BY <1>4 DEF Acquire, EnterBlock, FirstStatement, Goto, TypeOK, ArgInv, Method
    <3> QED
      BY <3>1, <3>2 DEF TxAt, OutcomeAt
  <2>5. NothingLeftBehind'
    BY <2>1, <1>4 DEF TypeOK, NothingLeftBehind, TxInv, TxAt, Clean, Acquire, EnterBlock, FirstStatement, dbVars, txVars, argVars, Goto
  <2> QED
    BY <2>3, <2>4, <2>5 DEF TxInv, BlockOutcomes
<1>5. ASSUME NEW t \in Thread, Count(t) PROVE  (TxInv /\ BlockOutcomes /\ NothingLeftBehind)'
  <2>1. lock = t /\ \A u \in Thread \ {t} : pc[u] \notin InBlock
    BY <1>5 DEF MutualExclusion, Count, InBlock
  <2>2. \A u \in Thread \ {t} : pc'[u] \notin InBlock
    BY <2>1, <1>5 DEF Count, TypeOK, Goto
  <2>3. \A u \in Thread \ {t} : TxAt(u)' /\ OutcomeAt(u)'
    BY <2>2 DEF TxAt, OutcomeAt, InBlock
  <2>4. TxAt(t)' /\ OutcomeAt(t)'
    <3>1. Store!Active(account[t])' = Store!Active(account[t])
      BY <1>5 DEF Count, dbVars, Store!Active
    <3>2. Clean /\ ~ok[t]
      BY <1>5 DEF Count, TxInv, TxAt
    <3>3. TxActive(account[t]) = Store!Active(account[t])
      BY <3>2 DEF Clean, TxActive, Store!Active
    <3>4. active'[t] = Cardinality(Store!Active(account[t])) /\ pc'[t] = "insert"
      BY <1>5, <3>3 DEF Count, Goto, TypeOK
    <3>5. Clean' /\ ~ok'[t]
      BY <1>5, <3>2 DEF Count, Clean, dbVars, txVars
    <3> QED
      BY <3>1, <3>4, <3>5 DEF TxAt, OutcomeAt
  <2>5. NothingLeftBehind'
    BY <2>1, <1>5 DEF TypeOK, NothingLeftBehind, TxInv, TxAt, Clean, Count, dbVars, txVars, argVars, Goto
  <2> QED
    BY <2>3, <2>4, <2>5 DEF TxInv, BlockOutcomes
<1>6. ASSUME NEW t \in Thread, LimitReached(t) PROVE  (TxInv /\ BlockOutcomes /\ NothingLeftBehind)'
  <2>1. lock = t /\ \A u \in Thread \ {t} : pc[u] \notin InBlock
    BY <1>6 DEF MutualExclusion, LimitReached, InBlock
  <2>2. \A u \in Thread \ {t} : pc'[u] \notin InBlock
    BY <2>1, <1>6 DEF LimitReached, TypeOK, Goto
  <2>3. \A u \in Thread \ {t} : TxAt(u)' /\ OutcomeAt(u)'
    BY <2>2 DEF TxAt, OutcomeAt, InBlock
  <2>4. TxAt(t)' /\ OutcomeAt(t)'
    BY <1>6 DEF TxInv, TxAt, OutcomeAt, Clean, ArgInv, TypeOK, Store!StoreTypeOK, Store!Active, LimitReached, dbVars, txVars, argVars, Goto
  <2>5. NothingLeftBehind'
    BY <2>1, <1>6 DEF TypeOK, NothingLeftBehind, TxInv, TxAt, Clean, LimitReached, dbVars, txVars, argVars, Goto
  <2> QED
    BY <2>3, <2>4, <2>5 DEF TxInv, BlockOutcomes
<1>7. ASSUME NEW t \in Thread, Insert(t) PROVE  (TxInv /\ BlockOutcomes /\ NothingLeftBehind)'
  <2>1. lock = t /\ \A u \in Thread \ {t} : pc[u] \notin InBlock
    BY <1>7 DEF MutualExclusion, Insert, InsertUnder, InBlock
  <2>2. \A u \in Thread \ {t} : pc'[u] \notin InBlock
    BY <2>1, <1>7 DEF Insert, InsertUnder, TypeOK, Goto
  <2>3. \A u \in Thread \ {t} : TxAt(u)' /\ OutcomeAt(u)'
    BY <2>2 DEF TxAt, OutcomeAt, InBlock
  <2>4. TxAt(t)' /\ OutcomeAt(t)'
    <3>1. Store!Active(account[t])' = Store!Active(account[t])
      BY <1>7 DEF Insert, InsertUnder, dbVars, Store!Active
    <3>2. Clean /\ ~ok[t] /\ active[t] = Cardinality(Store!Active(account[t])) /\ method[t] = "create"
      BY <1>7 DEF Insert, InsertUnder, TxInv, TxAt, ArgInv
    <3>3. Cardinality(Store!Active(account[t])) < Cap
      BY <1>7, <3>2 DEF Insert, InsertUnder
    <3>4. PICK c \in Credential : /\ txOwner[c] = None
                                 /\ txOwner' = [txOwner EXCEPT ![c] = account[t]]
                                 /\ target' = [target EXCEPT ![t] = c]
      BY <1>7 DEF Insert, InsertUnder
    <3>5. pc'[t] = "commit" /\ method'[t] = "create" /\ ~ok'[t] /\ target'[t] = c
      BY <1>7, <3>2, <3>4 DEF Insert, InsertUnder, Goto, TypeOK
    <3>6. /\ owner'[target'[t]] = None
          /\ txOwner' = [owner' EXCEPT ![target'[t]] = account'[t]]
          /\ txRevoked' = revoked'
      BY <1>7, <3>2, <3>4, <3>5 DEF Insert, InsertUnder, Clean, dbVars
    <3> QED
      BY <3>1, <3>3, <3>5, <3>6 DEF TxAt, OutcomeAt
  <2>5. NothingLeftBehind'
    BY <2>1, <1>7 DEF TypeOK, NothingLeftBehind, TxInv, TxAt, Clean, Insert, InsertUnder, dbVars, txVars, argVars, Goto
  <2> QED
    BY <2>3, <2>4, <2>5 DEF TxInv, BlockOutcomes
<1>8. ASSUME NEW t \in Thread, Update(t) PROVE  (TxInv /\ BlockOutcomes /\ NothingLeftBehind)'
  <2>1. lock = t /\ \A u \in Thread \ {t} : pc[u] \notin InBlock
    BY <1>8 DEF MutualExclusion, Update, TxActive, InBlock
  <2>2. \A u \in Thread \ {t} : pc'[u] \notin InBlock
    BY <2>1, <1>8 DEF Update, TxActive, TypeOK, Goto
  <2>3. \A u \in Thread \ {t} : TxAt(u)' /\ OutcomeAt(u)'
    BY <2>2 DEF TxAt, OutcomeAt, InBlock
  <2>4. TxAt(t)' /\ OutcomeAt(t)'
    <3>1. Clean /\ ~ok[t] /\ method[t] = "revoke"
      BY <1>8 DEF Update, TxInv, TxAt, ArgInv
    <3>2. TxActive(account[t]) = Store!Active(account[t]) /\ Store!Active(account[t])' = Store!Active(account[t])
      BY <1>8, <3>1 DEF Update, TxActive, Clean, Store!Active, dbVars, argVars
    <3>3. pc'[t] = "commit" /\ method' = method /\ target' = target /\ account' = account /\ ok' = ok
      BY <1>8 DEF Update, Goto, TypeOK, argVars
    <3>4. /\ txOwner' = owner'
          /\ txRevoked' = revoked' \cup ({target[t]} \cap Store!Active(account[t])')
      BY <1>8, <3>1, <3>2, <3>3 DEF Update, Clean, dbVars
    <3> QED
      BY <3>1, <3>3, <3>4 DEF TxAt, OutcomeAt, Store!Active
  <2>5. NothingLeftBehind'
    BY <2>1, <1>8 DEF TypeOK, NothingLeftBehind, TxInv, TxAt, Clean, Update, TxActive, dbVars, txVars, argVars, Goto
  <2> QED
    BY <2>3, <2>4, <2>5 DEF TxInv, BlockOutcomes
<1>9. ASSUME NEW t \in Thread, Read(t) PROVE  (TxInv /\ BlockOutcomes /\ NothingLeftBehind)'
  <2>1. lock = t /\ \A u \in Thread \ {t} : pc[u] \notin InBlock
    BY <1>9 DEF MutualExclusion, Read, InBlock
  <2>2. \A u \in Thread \ {t} : pc'[u] \notin InBlock
    BY <2>1, <1>9 DEF Read, TypeOK, Goto
  <2>3. \A u \in Thread \ {t} : TxAt(u)' /\ OutcomeAt(u)'
    BY <2>2 DEF TxAt, OutcomeAt, InBlock
  <2>4. TxAt(t)' /\ OutcomeAt(t)'
    BY <1>9 DEF TxInv, TxAt, OutcomeAt, Clean, ArgInv, TypeOK, Store!StoreTypeOK, Store!Active, Read, dbVars, txVars, argVars, Goto
  <2>5. NothingLeftBehind'
    BY <2>1, <1>9 DEF TypeOK, NothingLeftBehind, TxInv, TxAt, Clean, Read, dbVars, txVars, argVars, Goto
  <2> QED
    BY <2>3, <2>4, <2>5 DEF TxInv, BlockOutcomes
<1>10. ASSUME NEW t \in Thread, Commit(t) PROVE  (TxInv /\ BlockOutcomes /\ NothingLeftBehind)'
  <2>1. lock = t /\ \A u \in Thread \ {t} : pc[u] \notin InBlock
    BY <1>10 DEF MutualExclusion, Commit, InBlock
  <2>2. \A u \in Thread \ {t} : pc'[u] \notin InBlock
    BY <2>1, <1>10 DEF Commit, TypeOK, Goto
  <2>3. \A u \in Thread \ {t} : TxAt(u)' /\ OutcomeAt(u)'
    BY <2>2 DEF TxAt, OutcomeAt, InBlock
  <2>4. TxAt(t)' /\ OutcomeAt(t)'
    <3>1. pc'[t] = "release" /\ Clean' /\ UNCHANGED argVars
      BY <1>10 DEF Commit, Goto, TypeOK, Clean, txVars
    <3>2. account[t] \in Account /\ method[t] \in Method
      BY <1>10 DEF Commit, ArgInv
    <3>3. CASE method[t] = "create"
      <4>1. ok'[t] /\ owner' = [owner EXCEPT ![target[t]] = account[t]] /\ target[t] \in Credential
        BY <1>10, <3>3 DEF Commit, TxInv, TxAt, TypeOK, ArgInv
      <4>2. owner'[target[t]] = account[t]
        BY <4>1 DEF TypeOK, Store!StoreTypeOK
      <4> QED
        BY <3>1, <3>3, <4>1, <4>2 DEF TxAt, OutcomeAt, argVars
    <3>4. CASE method[t] = "revoke"
      <4>1. owner' = owner /\ revoked' = revoked \cup ({target[t]} \cap Store!Active(account[t]))
        BY <1>10, <3>4 DEF Commit, TxInv, TxAt
      <4>2. target[t] \notin Store!Active(account[t])'
        BY <3>1, <4>1 DEF Store!Active, argVars
      <4> QED
        BY <3>1, <3>4, <4>2 DEF TxAt, OutcomeAt, argVars
    <3>5. CASE method[t] \in {"get", "record"}
      BY <3>1, <3>5 DEF TxAt, OutcomeAt, argVars
    <3> QED
      BY <3>2, <3>3, <3>4, <3>5 DEF Method
  <2>5. NothingLeftBehind'
    BY <2>1, <1>10 DEF TypeOK, NothingLeftBehind, TxInv, TxAt, Clean, Commit, dbVars, txVars, argVars, Goto
  <2> QED
    BY <2>3, <2>4, <2>5 DEF TxInv, BlockOutcomes
<1>11. ASSUME NEW t \in Thread, StatementFails(t) PROVE  (TxInv /\ BlockOutcomes /\ NothingLeftBehind)'
  <2>1. lock = t /\ \A u \in Thread \ {t} : pc[u] \notin InBlock
    BY <1>11 DEF MutualExclusion, StatementFails, InBlock
  <2>2. \A u \in Thread \ {t} : pc'[u] \notin InBlock
    BY <2>1, <1>11 DEF StatementFails, TypeOK, Goto
  <2>3. \A u \in Thread \ {t} : TxAt(u)' /\ OutcomeAt(u)'
    BY <2>2 DEF TxAt, OutcomeAt, InBlock
  <2>4. TxAt(t)' /\ OutcomeAt(t)'
    BY <1>11 DEF TxInv, TxAt, OutcomeAt, Clean, ArgInv, TypeOK, Store!StoreTypeOK, Store!Active, StatementFails, dbVars, txVars, argVars, Goto
  <2>5. NothingLeftBehind'
    BY <2>1, <1>11 DEF TypeOK, NothingLeftBehind, TxInv, TxAt, Clean, StatementFails, dbVars, txVars, argVars, Goto
  <2> QED
    BY <2>3, <2>4, <2>5 DEF TxInv, BlockOutcomes
<1>12. ASSUME NEW t \in Thread, Rollback(t) PROVE  (TxInv /\ BlockOutcomes /\ NothingLeftBehind)'
  <2>1. lock = t /\ \A u \in Thread \ {t} : pc[u] \notin InBlock
    BY <1>12 DEF MutualExclusion, Rollback, InBlock
  <2>2. \A u \in Thread \ {t} : pc'[u] \notin InBlock
    BY <2>1, <1>12 DEF Rollback, TypeOK, Goto
  <2>3. \A u \in Thread \ {t} : TxAt(u)' /\ OutcomeAt(u)'
    BY <2>2 DEF TxAt, OutcomeAt, InBlock
  <2>4. TxAt(t)' /\ OutcomeAt(t)'
    BY <1>12 DEF TxInv, TxAt, OutcomeAt, Clean, ArgInv, TypeOK, Store!StoreTypeOK, Store!Active, Rollback, dbVars, txVars, argVars, Goto
  <2>5. NothingLeftBehind'
    BY <2>1, <1>12 DEF TypeOK, NothingLeftBehind, TxInv, TxAt, Clean, Rollback, dbVars, txVars, argVars, Goto
  <2> QED
    BY <2>3, <2>4, <2>5 DEF TxInv, BlockOutcomes
<1>13. ASSUME NEW t \in Thread, Release(t) PROVE  (TxInv /\ BlockOutcomes /\ NothingLeftBehind)'
  <2>1. lock = t /\ \A u \in Thread \ {t} : pc[u] \notin InBlock
    BY <1>13 DEF MutualExclusion, Release, InBlock
  <2>2. \A u \in Thread \ {t} : pc'[u] \notin InBlock
    BY <2>1, <1>13 DEF Release, TypeOK, Goto
  <2>3. \A u \in Thread \ {t} : TxAt(u)' /\ OutcomeAt(u)'
    BY <2>2 DEF TxAt, OutcomeAt, InBlock
  <2>4. TxAt(t)' /\ OutcomeAt(t)'
    BY <1>13 DEF TxInv, TxAt, OutcomeAt, Clean, ArgInv, TypeOK, Store!StoreTypeOK, Store!Active, Release, dbVars, txVars, argVars, Goto
  <2>5. NothingLeftBehind'
    BY <2>1, <1>13 DEF TypeOK, NothingLeftBehind, TxInv, TxAt, Clean, Release, dbVars, txVars, argVars, Goto
  <2> QED
    BY <2>3, <2>4, <2>5 DEF TxInv, BlockOutcomes
<1>14. ASSUME NEW t \in Thread, ReadBack(t) PROVE  (TxInv /\ BlockOutcomes /\ NothingLeftBehind)'
  <2>1. lock = t /\ \A u \in Thread \ {t} : pc[u] \notin InBlock
    BY <1>14 DEF MutualExclusion, ReadBack, InBlock
  <2>2. \A u \in Thread : pc'[u] \notin InBlock
    BY <2>1, <1>14 DEF ReadBack, TypeOK, Goto, InBlock
  <2>3. \A u \in Thread : TxAt(u)' /\ OutcomeAt(u)'
    BY <2>2 DEF TxAt, OutcomeAt, InBlock
  <2>4. NothingLeftBehind'
    BY <1>14 DEF NothingLeftBehind, TxInv, TxAt, Clean, ReadBack, dbVars, txVars
  <2> QED
    BY <2>3, <2>4 DEF TxInv, BlockOutcomes
<1>15. CASE UNCHANGED vars
  <2>1. \A a \in Account \cup {None} : Store!Active(a)' = Store!Active(a)
    BY <1>15 DEF vars, dbVars, Store!Active
  <2> QED
    BY <1>15, <2>1 DEF vars, dbVars, txVars, argVars, TypeOK, TxInv, TxAt, BlockOutcomes, OutcomeAt, NothingLeftBehind, Clean
<1> QED
  BY <1>1, <1>2, <1>3, <1>4, <1>5, <1>6, <1>7, <1>8, <1>9, <1>10, <1>11, <1>12, <1>13, <1>14, <1>15
  DEF Next, Step, Work, CallCreate, CallRead, CallRevoke

-----------------------------------------------------------------------------
\* Only a COMMIT changes the rows' owners, and it gives a row that had none.
LEMMA RecordStep ==
    ASSUME IInv, [Next]_vars
    PROVE  RecordInv'
<1> USE DEF IInv, RecordInv
<1>1. ASSUME NEW t \in Thread, Commit(t) PROVE RecordInv'
  <2>1. UNCHANGED argVars
    BY <1>1 DEF Commit
  <2>2. ASSUME NEW c \in Credential, owner[c] # None PROVE owner'[c] = owner[c]
    <3>1. method[t] \in Method /\ TxAt(t) /\ owner' = txOwner /\ pc[t] = "commit"
      BY <1>1 DEF Commit, ArgInv, TxInv
    <3>2. CASE method[t] = "create"
      BY <3>1, <3>2, <2>2 DEF TxAt, TypeOK, Store!StoreTypeOK
    <3>3. CASE method[t] # "create"
      BY <3>1, <3>3 DEF TxAt, Clean, Method
    <3> QED
      BY <3>2, <3>3
  <2>3. ASSUME NEW u \in Thread, method[u] = "record" PROVE owner'[target[u]] = account[u]
    <3>1. owner[target[u]] = account[u] /\ target[u] \in Credential
      BY <2>3 DEF ArgInv
    <3>2. account[u] # None
      BY <2>3, TransactionsAssumption DEF ArgInv, TypeOK, Method
    <3> QED
      BY <2>2, <3>1, <3>2
  <2> QED
    BY <2>1, <2>3 DEF argVars
<1>2. ASSUME NEW t \in Thread, ReadBack(t) PROVE RecordInv'
  <2>1. owner[target[t]] = account[t]
    BY <1>2 DEF ReadBack, BlockOutcomes, OutcomeAt
  <2> QED
    BY <1>2, <2>1 DEF ReadBack, TypeOK, dbVars
<1>3. ASSUME UNCHANGED dbVars,
             \A u \in Thread : method'[u] = "record" =>
                /\ method[u] = "record"
                /\ target'[u] = target[u] /\ account'[u] = account[u]
      PROVE  RecordInv'
  BY <1>3 DEF dbVars
<1>4. CASE UNCHANGED <<dbVars, argVars>>
  BY <1>3, <1>4 DEF argVars
<1>5. CASE Crash
  BY <1>3, <1>5, TransactionsAssumption DEF Crash, Method
<1>6. ASSUME NEW t \in Thread, NEW m \in {"create", "revoke", "get"},
             NEW a \in Account, NEW c \in Credential \cup {None}, Call(t, m, a, c)
      PROVE  RecordInv'
  <2>1. UNCHANGED dbVars /\ method'[t] # "record"
    BY <1>6 DEF Call, TypeOK
  <2>2. \A u \in Thread \ {t} : method'[u] = method[u] /\ target'[u] = target[u] /\ account'[u] = account[u]
    BY <1>6 DEF Call, TypeOK
  <2> QED
    BY <1>3, <2>1, <2>2
<1>7. ASSUME NEW t \in Thread, Count(t) \/ Insert(t) PROVE RecordInv'
  <2>1. UNCHANGED <<dbVars, method, account>> /\ method[t] = "create"
    BY <1>7 DEF Count, Insert, InsertUnder, ArgInv
  <2>2. \A u \in Thread \ {t} : target'[u] = target[u]
    BY <1>7 DEF Count, Insert, InsertUnder, TypeOK
  <2> QED
    BY <1>3, <2>1, <2>2
<1>8. ASSUME NEW t \in Thread, Release(t) PROVE RecordInv'
  <2>1. UNCHANGED dbVars /\ method'[t] # "record"
    BY <1>8, TransactionsAssumption DEF Release, TypeOK, Method
  <2>2. \A u \in Thread \ {t} : method'[u] = method[u] /\ target'[u] = target[u] /\ account'[u] = account[u]
    BY <1>8 DEF Release, TypeOK
  <2> QED
    BY <1>3, <2>1, <2>2
<1> QED
  BY <1>1, <1>2, <1>4, <1>5, <1>6, <1>7, <1>8
  DEF Next, Step, Work, CallCreate, CallRead, CallRevoke, Acquire, EnterBlock, LimitReached,
      Update, Read, StatementFails, Rollback, vars

-----------------------------------------------------------------------------
LEMMA Invariant == Spec => []IInv
<1>1. IInv /\ [Next]_vars => IInv'
  BY TypeStep, LockStep, TxStep, RecordStep DEF IInv
<1> QED
  BY InitInv, <1>1, PTL DEF Spec

\* The variables keep their types.
THEOREM TypeCorrect == Spec => []TypeOK
BY Invariant, PTL DEF IInv

\* Database._lock admits one thread at a time to a block, whatever raises.
THEOREM Exclusion == Spec => []MutualExclusion
BY Invariant, PTL DEF IInv

\* The shared connection is clean whenever the lock is free.
THEOREM ConnectionClean == Spec => []NothingLeftBehind
BY Invariant, PTL DEF IInv

\* What a method tells its handler is what the file holds, wherever it raises:
\* a create leaves no row if its own block raised, and its row if its get() did.
THEOREM OutcomesCorrect == Spec => []OutcomesAreTrue
<1>1. IInv => OutcomesAreTrue
  BY DEF IInv, BlockOutcomes, OutcomeAt, RecordInv, OutcomesAreTrue, TxInv, TxAt, Clean
<1> QED
  BY <1>1, Invariant, PTL

\* A step of a thread is a step of the atomic store: the COMMIT of a create or
\* revoke, or a stutter.
LEMMA StoreStep ==
    ASSUME IInv, [Next]_vars
    PROVE  [Store!Next]_<<owner, revoked>>
<1> USE DEF IInv, TypeOK, Store!StoreTypeOK, TxInv, TxAt, ArgInv, Clean
<1>1. ASSUME NEW t \in Thread, Commit(t) PROVE [Store!Next]_<<owner, revoked>>
  <2>1. CASE method[t] = "create"
    <3>1. account[t] \in Account /\ target[t] \in Credential
      BY <1>1, <2>1 DEF Commit
    <3>2. /\ owner[target[t]] = None
          /\ Cardinality(Store!Active(account[t])) < Cap
          /\ owner' = [owner EXCEPT ![target[t]] = account[t]]
          /\ revoked' = revoked
      BY <1>1, <2>1 DEF Commit
    <3>3. Store!Create(account[t], target[t])
      BY <3>2, SameCardinality DEF Store!Create
    <3> QED
      BY <3>1, <3>3 DEF Store!Next
  <2>2. CASE method[t] = "revoke" /\ target[t] \in Store!Active(account[t])
    <3>1. account[t] \in Account /\ target[t] \in Credential
      BY <1>1, <2>2 DEF Commit
    <3>2. owner' = owner /\ revoked' = revoked \cup {target[t]}
      BY <1>1, <2>2 DEF Commit
    <3>3. Store!Revoke(account[t], target[t])
      BY <2>2, <3>2 DEF Store!Revoke
    <3> QED
      BY <3>1, <3>3 DEF Store!Next
  <2>3. CASE \/ method[t] = "revoke" /\ target[t] \notin Store!Active(account[t])
             \/ method[t] \in {"get", "record"}
    <3>1. /\ owner' = owner
          /\ \/ revoked' = revoked
             \/ revoked' = revoked \cup ({target[t]} \cap Store!Active(account[t]))
      BY <1>1, <2>3 DEF Commit
    <3>2. CASE method[t] \in {"get", "record"}
      BY <1>1, <3>1, <3>2 DEF Commit
    <3>3. CASE target[t] \notin Store!Active(account[t])
      <4>1. revoked \cup ({target[t]} \cap Store!Active(account[t])) = revoked
        BY <3>3
      <4> QED
        BY <3>1, <4>1
    <3> QED
      BY <2>3, <3>1, <3>2, <3>3
  <2>4. method[t] \in Method
    BY <1>1 DEF Commit
  <2> QED
    BY <2>1, <2>2, <2>3, <2>4 DEF Method
<1>2. CASE UNCHANGED dbVars
  BY <1>2 DEF dbVars
<1>3. UNCHANGED dbVars \/ \E t \in Thread : Commit(t)
  BY DEF Next, Step, Work, Crash, CallCreate, CallRead, CallRevoke, Call, Acquire, EnterBlock,
         Count, LimitReached, Insert, InsertUnder, Update, Read, StatementFails, Rollback,
         ReadBack, Release, vars
<1> QED
  BY <1>1, <1>2, <1>3

\* The lock, the connection and the error paths of app/db.py implement the
\* atomic store, whichever statements fail and wherever the process dies.
THEOREM StoreImplemented == Spec => ImplementsStore
<1>1. Init => Store!Init
  BY DEF Init
<1> QED
  BY <1>1, StoreStep, Invariant, PTL DEF Spec, ImplementsStore, Store!Spec, Store!vars

LEMMA CapStep ==
    ASSUME Store!StoreTypeOK, Store!CapRespected, [Store!Next]_<<owner, revoked>>
    PROVE  Store!CapRespected'
<1> USE TransactionsAssumption DEF Store!StoreTypeOK
<1> SUFFICES ASSUME NEW b \in Account PROVE Cardinality(Store!Active(b)') <= Cap
  BY SameCardinality DEF Store!CapRespected
<1>0. /\ Cardinality(Store!Active(b)) <= Cap
      /\ IsFiniteSet(Store!Active(b))
      /\ Cardinality(Store!Active(b)) \in Nat
  <2>1. Store!Active(b) \subseteq Credential
    BY DEF Store!Active
  <2> QED
    BY <2>1, FS_Subset, FS_CardinalityType, SameCardinality DEF Store!CapRespected
<1>1. ASSUME NEW a \in Account, NEW c \in Credential, Store!Create(a, c)
      PROVE  Cardinality(Store!Active(b)') <= Cap
  <2>1. CASE a # b \/ c \in revoked
    <3>1. Store!Active(b)' = Store!Active(b)
      BY <1>1, <2>1 DEF Store!Create, Store!Active
    <3> QED
      BY <3>1, <1>0
  <2>2. CASE a = b /\ c \notin revoked
    <3>1. Store!Active(b)' = Store!Active(b) \cup {c} /\ c \notin Store!Active(b)
      BY <1>1, <2>2 DEF Store!Create, Store!Active
    <3>2. Cardinality(Store!Active(b)) < Cap
      BY <1>1, <2>2, SameCardinality DEF Store!Create
    <3>3. Cardinality(Store!Active(b)') = Cardinality(Store!Active(b)) + 1
      BY <3>1, <1>0, FS_AddElement
    <3> QED
      BY <3>2, <3>3, <1>0, FS_CardinalityType
  <2> QED
    BY <2>1, <2>2
<1>2. ASSUME NEW a \in Account, NEW c \in Credential, Store!Revoke(a, c)
      PROVE  Cardinality(Store!Active(b)') <= Cap
  <2>1. Store!Active(b)' \subseteq Store!Active(b)
    BY <1>2 DEF Store!Revoke, Store!Active
  <2>2. Cardinality(Store!Active(b)') <= Cardinality(Store!Active(b))
    BY <2>1, <1>0, FS_Subset
  <2> QED
    BY <2>1, <2>2, <1>0, FS_Subset, FS_CardinalityType
<1>3. CASE UNCHANGED <<owner, revoked>>
  <2>1. Store!Active(b)' = Store!Active(b)
    BY <1>3 DEF Store!Active
  <2> QED
    BY <2>1, <1>0
<1> QED
  BY <1>1, <1>2, <1>3 DEF Store!Next

\* No user ever holds more live passwords, or feed links, than the cap, however
\* many requests create them at once.
THEOREM CapHolds == Spec => []CapRespected
<1>1. Init => Store!CapRespected
  <2> HAVE Init
  <2>1. \A a \in Account : Store!Active(a) = {}
    BY TransactionsAssumption DEF Init, Store!Init, Store!Active
  <2> QED
    BY <2>1, FS_EmptySet, TransactionsAssumption, SameCardinality DEF Store!CapRespected
<1>2. IInv /\ Store!CapRespected /\ [Next]_vars => Store!CapRespected'
  BY StoreStep, CapStep DEF IInv, TypeOK
<1> QED
  BY <1>1, <1>2, Invariant, PTL DEF Spec, CapRespected
=============================================================================
