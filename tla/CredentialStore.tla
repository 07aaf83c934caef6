--------------------------- MODULE CredentialStore ---------------------------
(***************************************************************************)
(* What PasswordStore and FeedStore promise their callers about the rows   *)
(* of a table: an account creates credentials up to a cap, each at one     *)
(* indivisible step, and revokes them for good.  Transactions shows that   *)
(* the locked SQLite connection of app/db.py keeps this promise;           *)
(* AppPasswords and IcsFeed take the same two steps for granted.           *)
(***************************************************************************)
EXTENDS Integers, FiniteSets

CONSTANTS
    Account,        \* who may own a credential: a table and a username
    Credential,     \* rows that may come to exist
    Cap,            \* max_passwords, max_feeds
    None            \* owner of a row that does not exist, never an account

VARIABLES
    owner,          \* credential -> account
    revoked         \* credentials that have been revoked

vars == <<owner, revoked>>

Active(a) == {c \in Credential : owner[c] = a /\ c \notin revoked}

StoreTypeOK ==
    /\ owner \in [Credential -> Account \cup {None}]
    /\ revoked \in SUBSET Credential

Init ==
    /\ owner = [c \in Credential |-> None]
    /\ revoked = {}

Create(a, c) ==
    /\ owner[c] = None
    /\ Cardinality(Active(a)) < Cap
    /\ owner' = [owner EXCEPT ![c] = a]
    /\ UNCHANGED revoked

Revoke(a, c) ==
    /\ c \in Active(a)
    /\ revoked' = revoked \cup {c}
    /\ UNCHANGED owner

Next == \E a \in Account, c \in Credential : Create(a, c) \/ Revoke(a, c)

Spec == Init /\ [][Next]_vars

\* No account ever holds more unrevoked credentials than the cap: "the count
\* and the insert share one transaction so two concurrent requests cannot both
\* slip past it" (passwords.py:94, feeds.py:103).
CapRespected == \A a \in Account : Cardinality(Active(a)) <= Cap
==============================================================================
