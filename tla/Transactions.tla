---------------------------- MODULE Transactions ----------------------------
(***************************************************************************)
(* Database.cursor() of app/db.py and the blocks that PasswordStore and    *)
(* FeedStore run inside it.  The event loop and the worker threads share   *)
(* one sqlite3 connection, which has a single implicit transaction: it     *)
(* opens at the first INSERT or UPDATE, whoever issues it, and any         *)
(* thread's commit() or rollback() ends it for everybody.  The lock is     *)
(* what keeps one block apart from another.                                *)
(*                                                                         *)
(* An Account is a table and a username, so one model serves both stores.  *)
(* Blocks that write no column modelled here (get, list_for_user, lookup,  *)
(* the SELECT of verify, the UPDATE of _touch and touch) are "read".       *)
(*                                                                         *)
(* create() is two blocks: the INSERT commits in the first, and the second *)
(* (passwords.py:116, feeds.py:119) reads the new row back and may raise   *)
(* with the row already in the file.                                       *)
(***************************************************************************)
EXTENDS Integers, FiniteSets

CONSTANTS
    Thread,         \* the event loop and the worker threads
    Account,        \* a table and a username
    Credential,     \* rows that INSERT may create
    Cap,            \* settings.max_app_passwords, settings.max_ics_feeds
    None            \* "no thread", "no row", "no account"

\* The store methods; "record" is create() past its commit, reading its row.
Method == {"create", "record", "revoke", "get"}

ASSUME TransactionsAssumption ==
    /\ IsFiniteSet(Credential)
    /\ Cap \in Nat
    /\ None \notin Account /\ None \notin Thread /\ None \notin Credential
    /\ None \notin Method

VARIABLES
    owner, revoked,         \* the committed rows, as the file holds them
    txOwner, txRevoked,     \* the rows as the shared connection sees them
    lock,                   \* the thread that holds Database._lock
    pc,                     \* thread -> where its block stands
    method,                 \* thread -> the store method it runs
    account,                \* thread -> the username argument of the method
    target,                 \* thread -> the row it inserts or revokes
    active,                 \* thread -> what SELECT COUNT(*) returned to it
    ok                      \* thread -> whether its last block committed

dbVars == <<owner, revoked>>
txVars == <<txOwner, txRevoked>>
argVars == <<method, account, target, active>>
vars == <<dbVars, txVars, lock, pc, argVars, ok>>

Store == INSTANCE CredentialStore

\* Unrevoked rows of an account, as a statement on the connection sees them.
TxActive(a) == {c \in Credential : txOwner[c] = a /\ c \notin txRevoked}

\* Blocks that a thread may be in while it holds the lock.
InBlock == {"count", "insert", "update", "read", "commit", "rollback", "release"}

TypeOK ==
    /\ Store!StoreTypeOK
    /\ txOwner \in [Credential -> Account \cup {None}]
    /\ txRevoked \in SUBSET Credential
    /\ lock \in Thread \cup {None}
    /\ pc \in [Thread -> {"idle", "waiting"} \cup InBlock]
    /\ method \in [Thread -> Method \cup {None}]
    /\ account \in [Thread -> Account \cup {None}]
    /\ target \in [Thread -> Credential \cup {None}]
    /\ active \in [Thread -> Nat]
    /\ ok \in [Thread -> BOOLEAN]

Init ==
    /\ Store!Init
    /\ txOwner = owner
    /\ txRevoked = revoked
    /\ lock = None
    /\ pc = [t \in Thread |-> "idle"]
    /\ method = [t \in Thread |-> None]
    /\ account = [t \in Thread |-> None]
    /\ target = [t \in Thread |-> None]
    /\ active = [t \in Thread |-> 0]
    /\ ok = [t \in Thread |-> FALSE]

Goto(t, label) == pc' = [pc EXCEPT ![t] = label]

-----------------------------------------------------------------------------
(* Calling a store method.  Hashing and secret generation come before the  *)
(* block and touch nothing shared.                                         *)

Call(t, m, a, c) ==
    /\ pc[t] = "idle"
    /\ Goto(t, "waiting")
    /\ method' = [method EXCEPT ![t] = m]
    /\ account' = [account EXCEPT ![t] = a]
    /\ target' = [target EXCEPT ![t] = c]
    /\ UNCHANGED <<dbVars, txVars, lock, active, ok>>

CallCreate(t, a) == Call(t, "create", a, None)
CallRevoke(t, a, c) == Call(t, "revoke", a, c)
CallRead(t, a) == Call(t, "get", a, None)

FirstStatement ==
    [create |-> "count", record |-> "read", revoke |-> "update", get |-> "read"]

EnterBlock(t) ==
    /\ pc[t] = "waiting"
    /\ lock' = t
    /\ Goto(t, FirstStatement[method[t]])
    /\ ok' = [ok EXCEPT ![t] = FALSE]
    /\ UNCHANGED <<dbVars, txVars, argVars>>

\* Mutant: nobody waits for the lock.
AcquireAnyway(t) == EnterBlock(t)

\* with self._lock: cur = self._conn.cursor()
Acquire(t) == lock = None /\ EnterBlock(t)

-----------------------------------------------------------------------------
(* The statements of the blocks.                                           *)

Count(t) ==
    /\ pc[t] = "count"
    /\ active' = [active EXCEPT ![t] = Cardinality(TxActive(account[t]))]
    /\ Goto(t, "insert")
    /\ UNCHANGED <<dbVars, txVars, lock, method, account, target, ok>>

\* Mutant: the exception is raised past the handler.
LimitEscapes(t) ==
    /\ pc[t] = "insert"
    /\ active[t] >= Cap
    /\ Goto(t, "raised")
    /\ UNCHANGED <<dbVars, txVars, lock, argVars, ok>>

\* PasswordLimitReached, FeedLimitReached: raised inside the block.
LimitReached(t) ==
    /\ pc[t] = "insert"
    /\ active[t] >= Cap
    /\ Goto(t, "rollback")
    /\ UNCHANGED <<dbVars, txVars, lock, argVars, ok>>

InsertUnder(t, cap) ==
    /\ pc[t] = "insert"
    /\ active[t] < cap
    /\ \E c \in Credential :
          /\ txOwner[c] = None
          /\ txOwner' = [txOwner EXCEPT ![c] = account[t]]
          /\ target' = [target EXCEPT ![t] = c]
    /\ Goto(t, "commit")
    /\ UNCHANGED <<dbVars, txRevoked, lock, method, account, active, ok>>

\* Mutant: the comparison with the cap is off by one.
InsertAtCap(t) == InsertUnder(t, Cap + 1)

Insert(t) == InsertUnder(t, Cap)

\* UPDATE ... WHERE id = ? AND username = ? AND revoked_at IS NULL, which may
\* match no row.
Update(t) ==
    /\ pc[t] = "update"
    /\ txRevoked' = txRevoked \cup ({target[t]} \cap TxActive(account[t]))
    /\ Goto(t, "commit")
    /\ UNCHANGED <<dbVars, txOwner, lock, argVars, ok>>

Read(t) ==
    /\ pc[t] = "read"
    /\ Goto(t, "commit")
    /\ UNCHANGED <<dbVars, txVars, lock, argVars, ok>>

-----------------------------------------------------------------------------
(* Leaving the block.                                                      *)

\* commit() ends the connection's transaction, with everything that is in it.
Commit(t) ==
    /\ pc[t] = "commit"
    /\ owner' = txOwner
    /\ revoked' = txRevoked
    /\ ok' = [ok EXCEPT ![t] = TRUE]
    /\ Goto(t, "release")
    /\ UNCHANGED <<txVars, lock, argVars>>

\* Any statement, and commit() itself, may raise sqlite3.Error.
StatementFails(t) ==
    /\ pc[t] \in {"count", "insert", "update", "read", "commit"}
    /\ Goto(t, "rollback")
    /\ UNCHANGED <<dbVars, txVars, lock, argVars, ok>>

\* Mutants: the exception handler forgets rollback(); it forgets the lock.
RollbackNothing(t) ==
    /\ pc[t] = "rollback"
    /\ Goto(t, "release")
    /\ UNCHANGED <<dbVars, txVars, lock, argVars, ok>>
RollbackKeepsLock(t) ==
    /\ pc[t] = "rollback"
    /\ txOwner' = owner
    /\ txRevoked' = revoked
    /\ Goto(t, "idle")
    /\ UNCHANGED <<dbVars, lock, argVars, ok>>

\* except Exception: self._conn.rollback(); raise
Rollback(t) ==
    /\ pc[t] = "rollback"
    /\ txOwner' = owner
    /\ txRevoked' = revoked
    /\ Goto(t, "release")
    /\ UNCHANGED <<dbVars, lock, argVars, ok>>

\* return self.get(...): create() lets go of the lock and waits for it again, to
\* read the row it has committed.
ReadBack(t) ==
    /\ pc[t] = "release"
    /\ method[t] = "create" /\ ok[t]
    /\ lock' = None
    /\ Goto(t, "waiting")
    /\ method' = [method EXCEPT ![t] = "record"]
    /\ UNCHANGED <<dbVars, txVars, account, target, active, ok>>

\* finally: cur.close(), and the end of `with self._lock`: the method returns if
\* its block committed, else it raises.
Release(t) ==
    /\ pc[t] = "release"
    /\ ~(method[t] = "create" /\ ok[t])
    /\ lock' = None
    /\ Goto(t, "idle")
    /\ method' = [method EXCEPT ![t] = None]
    /\ account' = [account EXCEPT ![t] = None]
    /\ target' = [target EXCEPT ![t] = None]
    /\ active' = [active EXCEPT ![t] = 0]
    /\ UNCHANGED <<dbVars, txVars, ok>>

\* The process dies and comes back: SQLite drops the open transaction.
Crash ==
    /\ txOwner' = owner
    /\ txRevoked' = revoked
    /\ lock' = None
    /\ pc' = [t \in Thread |-> "idle"]
    /\ method' = [t \in Thread |-> None]
    /\ account' = [t \in Thread |-> None]
    /\ target' = [t \in Thread |-> None]
    /\ active' = [t \in Thread |-> 0]
    /\ ok' = [t \in Thread |-> FALSE]
    /\ UNCHANGED dbVars

-----------------------------------------------------------------------------
\* What a thread does once it holds the lock.
Work(t) ==
    \/ Count(t) \/ LimitReached(t) \/ Insert(t) \/ Update(t) \/ Read(t)
    \/ Commit(t) \/ StatementFails(t) \/ Rollback(t) \/ ReadBack(t) \/ Release(t)

Step(t) ==
    \/ \E a \in Account : CallCreate(t, a) \/ CallRead(t, a)
    \/ \E a \in Account, c \in Credential : CallRevoke(t, a, c)
    \/ Acquire(t)
    \/ Work(t)

Next == Crash \/ \E t \in Thread : Step(t)

Spec == Init /\ [][Next]_vars

\* A thread that holds the lock is scheduled, and no statement of a block waits
\* for anything: it completes or raises.
FairSpec == Spec /\ \A t \in Thread : WF_vars(Work(t))
-----------------------------------------------------------------------------
(* Properties.                                                             *)

\* One thread at a time is between acquiring and releasing the lock.
MutualExclusion == \A t \in Thread : pc[t] \in InBlock <=> lock = t

\* Nothing of a block that has ended stays open in the shared connection, to be
\* committed or rolled back by whoever comes next.
NothingLeftBehind == lock = None => txOwner = owner /\ txRevoked = revoked

\* What a method tells its handler is what the file holds, although other
\* threads' commits and rollbacks end the same transaction.  A create that raises
\* in its own block (the limit, sqlite3.Error) has left no row.  Past its commit
\* it has its row under its own account, and get() finds it; should that get()
\* raise instead, so does create(), and the row is there all the same.  A revoke
\* that returns has left nothing active.
OutcomesAreTrue ==
    \A t \in Thread : pc[t] = "release" =>
        /\ method[t] = "create" /\ ok[t] => owner[target[t]] = account[t]
        /\ method[t] = "create" /\ ~ok[t] /\ target[t] # None => owner[target[t]] = None
        /\ method[t] = "record" => txOwner[target[t]] = account[t] /\ owner[target[t]] = account[t]
        /\ method[t] = "revoke" /\ ok[t] => target[t] \notin Store!Active(account[t])

\* The cap, on what is committed (passwords.py:94, feeds.py:103).
CapRespected == Store!CapRespected

\* The connection, its lock and the error paths implement the atomic store.
ImplementsStore == Store!Spec

\* Whatever goes wrong in a block, the lock comes free again.
LockIsReleased == \A t \in Thread : lock = t ~> lock # t
=============================================================================
