------------------------------ MODULE Bootstrap ------------------------------
(***************************************************************************)
(* What the process does before it serves anybody: ensure_collection() and *)
(* its retry loop in app/caldav.py, against a backend that is down, loses  *)
(* answers after it has applied a request, or refuses.  Each action sends  *)
(* one request and takes its answer; nobody else writes meanwhile, because *)
(* clients reach the backend only through this process.  The delay between *)
(* two attempts changes nothing and is part of the failure before it.      *)
(***************************************************************************)
EXTENDS Integers

CONSTANTS
    Title,          \* display names
    Attempts,       \* BOOTSTRAP_ATTEMPTS
    Refuses,        \* may the backend answer with a status nothing explains?
    None            \* the name of a collection that does not exist

ASSUME BootstrapAssumption ==
    /\ Attempts \in Nat \ {0}
    /\ Refuses \in BOOLEAN
    /\ None \notin Title

VARIABLES
    parent,         \* does the principal's collection exist?
    name,           \* display name of the shared collection
    wanted,         \* settings.shared_display_name
    pc,             \* the request that is next
    attempt,        \* the loop's variable
    result,         \* what ensure_collection_with_retry() returned, or "none"
    refused,        \* was a request of this attempt refused without a reason?
    failures        \* attempts of this start that ended in httpx.HTTPError

backendVars == <<parent, name>>
vars == <<backendVars, wanted, pc, attempt, result, refused, failures>>

Request == {"probe", "rename", "create", "parent", "again"}

TypeOK ==
    /\ parent \in BOOLEAN
    /\ name \in Title \cup {None}
    /\ wanted \in Title
    /\ pc \in Request \cup {"done"}
    /\ attempt \in 1..Attempts
    /\ result \in {"none", "true", "false"}
    /\ refused \in BOOLEAN
    /\ failures \in 0..Attempts

Init ==
    /\ parent \in BOOLEAN
    /\ name \in IF parent THEN Title \cup {None} ELSE {None}
    /\ wanted \in Title
    /\ pc = "probe"
    /\ attempt = 1
    /\ result = "none"
    /\ refused = FALSE
    /\ failures = 0

\* The process starts again, perhaps with another title.  While it served,
\* clients may have renamed or deleted the collection.
Restart(title, found) ==
    /\ found = name \/ (pc = "done" /\ parent)
    /\ name' = found
    /\ wanted' = title
    /\ pc' = "probe"
    /\ attempt' = 1
    /\ result' = "none"
    /\ refused' = FALSE
    /\ failures' = 0
    /\ UNCHANGED parent

-----------------------------------------------------------------------------
(* The backend: what it does with a request it accepts.                    *)

Applies(request) ==
    \/ /\ request = "rename" /\ name # None
       /\ name' = wanted
       /\ UNCHANGED parent
    \/ /\ request \in {"create", "again"} /\ parent /\ name = None
       /\ name' = wanted
       /\ UNCHANGED parent
    \/ /\ request = "parent" /\ ~parent
       /\ parent' = TRUE
       /\ UNCHANGED name

\* MKCALENDAR is answered 409 without a parent, and where something exists.
Conflicts == ~parent \/ name # None

-----------------------------------------------------------------------------
(* ensure_collection_with_retry().                                         *)

Goto(label) == pc' = label /\ UNCHANGED <<attempt, result, failures>>

\* ensure_collection() returned, whatever it logged.
Returns ==
    /\ pc' = "done"
    /\ result' = "true"
    /\ UNCHANGED <<attempt, failures>>

GivesUp ==
    /\ pc' = "done"
    /\ result' = "false"
    /\ UNCHANGED <<attempt, refused>>

TriesAgain ==
    /\ pc' = "probe"
    /\ attempt' = attempt + 1
    /\ refused' = FALSE
    /\ UNCHANGED result

\* A request that raised httpx.HTTPError: the backend has not seen it, or has
\* carried it out and the answer was lost.
Raised ==
    /\ pc \in Request
    /\ UNCHANGED backendVars \/ Applies(pc)
    /\ failures' = failures + 1
    /\ UNCHANGED wanted

\* Mutants: one attempt too many, one too few, and a last one that
\* is tried again and again.
AttemptFailsLate == Raised /\ IF attempt > Attempts THEN GivesUp ELSE TriesAgain
AttemptFailsEarly == Raised /\ IF attempt >= Attempts - 1 THEN GivesUp ELSE TriesAgain
AttemptFailsForever ==
    \/ attempt < Attempts /\ Raised /\ TriesAgain
    \/ /\ attempt = Attempts /\ pc \in Request
       /\ pc' = "probe"
       /\ UNCHANGED <<backendVars, wanted, attempt, result, refused, failures>>

AttemptFails == Raised /\ IF attempt = Attempts THEN GivesUp ELSE TriesAgain

-----------------------------------------------------------------------------
(* ensure_collection(): what each answer leads to.                         *)

\* 207 with the wanted title, or one that parse_display_name() cannot read.
ProbeFinds ==
    /\ pc = "probe"
    /\ name # None
    /\ \/ name = wanted /\ UNCHANGED refused
       \/ Refuses /\ refused' = TRUE
    /\ Returns
    /\ UNCHANGED <<backendVars, wanted>>

ProbeFindsOther ==
    /\ pc = "probe"
    /\ name # None /\ name # wanted
    /\ Goto("rename")
    /\ UNCHANGED <<backendVars, wanted, refused>>

\* 404, or a status that only gets logged: on to MKCALENDAR.
ProbeMisses ==
    /\ pc = "probe"
    /\ \/ name = None /\ UNCHANGED refused
       \/ Refuses /\ refused' = TRUE
    /\ Goto("create")
    /\ UNCHANGED <<backendVars, wanted>>

\* PROPPATCH, the first MKCALENDAR or the second is carried out.
Done ==
    /\ pc \in {"rename", "create", "again"}
    /\ Applies(pc)
    /\ Returns
    /\ UNCHANGED <<wanted, refused>>

\* It is refused, which only gets logged; a 207 to PROPPATCH that refuses the
\* property is logged as a success.
Refused ==
    /\ pc \in {"rename", "create", "again"}
    /\ Refuses
    /\ refused' = TRUE
    /\ Returns
    /\ UNCHANGED <<backendVars, wanted>>

\* Mutant: a 409 is taken for any other refusal.
CreateConflictsReturns ==
    /\ pc = "create"
    /\ Conflicts
    /\ Returns
    /\ UNCHANGED <<backendVars, wanted, refused>>

\* 409 to the first MKCALENDAR: the parent is created first.
CreateConflicts ==
    /\ pc = "create"
    /\ \/ Conflicts /\ UNCHANGED refused
       \/ Refuses /\ refused' = TRUE
    /\ Goto("parent")
    /\ UNCHANGED <<backendVars, wanted>>

\* 409 to the second is logged and no more.
AgainConflicts ==
    /\ pc = "again"
    /\ Conflicts
    /\ Returns
    /\ UNCHANGED <<backendVars, wanted, refused>>

\* MKCOL; nobody looks at its status.
ParentAnswered ==
    /\ pc = "parent"
    /\ \/ Applies("parent") /\ UNCHANGED refused
       \/ parent /\ UNCHANGED <<backendVars, refused>>
       \/ Refuses /\ refused' = TRUE /\ UNCHANGED backendVars
    /\ Goto("again")
    /\ UNCHANGED wanted

-----------------------------------------------------------------------------
Ensure ==
    \/ AttemptFails
    \/ ProbeFinds \/ ProbeFindsOther \/ ProbeMisses
    \/ Done \/ Refused \/ CreateConflicts \/ AgainConflicts \/ ParentAnswered

Restarts == \E title \in Title, found \in Title \cup {None} : Restart(title, found)

Next == Ensure \/ Restarts

Spec == Init /\ [][Next]_vars

\* Every request is answered or times out (main.py:84), and so does the delay.
FairSpec == Spec /\ WF_vars(Ensure)
-----------------------------------------------------------------------------
(* Properties.                                                             *)

\* "Bootstrap the collection" (caldav.py:157): when True is returned the
\* collection is there under the configured title, whichever attempts before
\* were carried out half-way and lost their answers, unless the attempt that
\* returned met a refusal, which is logged and otherwise taken for success.
TrueMeansReady == result = "true" /\ ~refused => name = wanted

\* "waiting for the backend to come up": it gives up only when each of the
\* attempts failed to get an answer, so one answered attempt is enough.
GivesUpAfterAll == result = "false" => failures = Attempts

\* The process serves once the bootstrap returns (main.py:106), and it does
\* return, though the backend be down for ever.
BootstrapEnds == <>[][~Restarts]_vars => <>(pc = "done")
==============================================================================
