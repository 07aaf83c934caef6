------------------------------ MODULE Collection ------------------------------
(***************************************************************************)
(* The shared collection as app/caldav.py sees it from outside: it holds   *)
(* some contents, CalDAV clients change them at any time, and the backend  *)
(* reports a change tag that it derives from the contents, equal tags for  *)
(* equal contents.  So the contents stand for the tag, and for whatever a  *)
(* request made of them.                                                   *)
(***************************************************************************)
EXTENDS Integers, Sequences

CONSTANTS
    Content,        \* what the collection may hold
    MaxWrites,      \* bound: writes to the collection
    Reverts,        \* may a write restore contents the collection had before?
    None            \* Python None

ASSUME CollectionAssumption ==
    /\ None \notin Content
    /\ MaxWrites \in Nat
    /\ Reverts \in BOOLEAN

VARIABLE hist       \* the contents of the collection, newest last

\* Contents or a tag, or neither.
Documents == Content \cup {None}

CollectionTypeOK == hist \in Seq(Content) /\ Len(hist) \in 1..(MaxWrites + 1)

CollectionInit == \E c \in Content : hist = <<c>>

Current == hist[Len(hist)]

\* A CalDAV client writes.
Changes(c) ==
    /\ Len(hist) <= MaxWrites
    /\ c # Current
    /\ Reverts \/ \A i \in 1..Len(hist) : hist[i] # c
    /\ hist' = Append(hist, c)

\* What fetch_ctag() learns now; None when the request fails or is unreadable.
Ctag == {Current, None}

\* The contents the collection had at or after version v.
Since(v) == {hist[i] : i \in {j \in 1..Len(hist) : j >= v}}

\* Contents filed under a tag: the collection held them at that tag or later.
Held(tag, contents) ==
    contents # None => \E v \in 1..Len(hist) : hist[v] = tag /\ contents \in Since(v)
=============================================================================
