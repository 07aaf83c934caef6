--------------------------- MODULE BootstrapProofs ---------------------------
(***************************************************************************)
(* What the bootstrap's results say, for any number of attempts and titles *)
(* and whether or not the backend refuses.  The invariant follows one      *)
(* attempt through its requests: as long as nothing was refused, where the *)
(* attempt stands says what the backend holds, although earlier attempts   *)
(* may have changed it without hearing of it.                              *)
(***************************************************************************)
EXTENDS Bootstrap, TLAPS

\* What the next request of an attempt without refusals says about the backend.
Known ==
    ~refused =>
        /\ pc = "rename" => name # None
        /\ pc = "create" => name = None
        /\ pc = "parent" => name = None /\ ~parent
        /\ pc = "again" => name = None /\ parent

\* Every attempt before this one failed.
Counted ==
    /\ result # "false" => failures = attempt - 1
    /\ pc = "done" <=> result # "none"

IInv == TypeOK /\ Known /\ Counted /\ TrueMeansReady /\ GivesUpAfterAll

-----------------------------------------------------------------------------
LEMMA First == 1 \in 1..Attempts /\ 0 \in 0..Attempts
BY BootstrapAssumption DEF BootstrapAssumption

LEMMA InitInv == Init => IInv
<1> SUFFICES ASSUME Init PROVE IInv
  OBVIOUS
<1>1. pc = "probe" /\ attempt = 1 /\ result = "none" /\ failures = 0
  BY DEF Init
<1>2. TypeOK
  BY <1>1, First DEF Init, TypeOK, Request
<1>3. Known /\ Counted /\ TrueMeansReady /\ GivesUpAfterAll
  BY <1>1 DEF Known, Counted, TrueMeansReady, GivesUpAfterAll
<1> QED
  BY <1>2, <1>3 DEF IInv

LEMMA RestartInv ==
    ASSUME IInv, NEW title \in Title, NEW found \in Title \cup {None}, Restart(title, found)
    PROVE  IInv'
<1>1. pc' = "probe" /\ attempt' = 1 /\ result' = "none" /\ failures' = 0
  BY DEF Restart
<1>2. TypeOK'
  BY <1>1, First DEF Restart, IInv, TypeOK, Request
<1>3. (Known /\ Counted /\ TrueMeansReady /\ GivesUpAfterAll)'
  BY <1>1 DEF Known, Counted, TrueMeansReady, GivesUpAfterAll
<1> QED
  BY <1>2, <1>3 DEF IInv

LEMMA FailsInv == ASSUME IInv, AttemptFails PROVE IInv'
<1> USE BootstrapAssumption
<1>1. /\ parent' \in BOOLEAN /\ name' \in Title \cup {None}
      /\ wanted' = wanted /\ failures' = failures + 1 /\ pc \in Request
  BY DEF AttemptFails, Raised, Applies, backendVars, IInv, TypeOK
<1>2. result = "none" /\ failures = attempt - 1
  BY <1>1 DEF IInv, Counted, Request, TypeOK
<1>3. CASE attempt = Attempts
  <2>1. pc' = "done" /\ result' = "false" /\ attempt' = attempt /\ refused' = refused
    BY <1>3 DEF AttemptFails, GivesUp
  <2> QED
    BY <1>1, <1>2, <1>3, <2>1
    DEF IInv, TypeOK, Known, Counted, TrueMeansReady, GivesUpAfterAll, Request
<1>4. CASE attempt # Attempts
  <2>1. pc' = "probe" /\ result' = result /\ attempt' = attempt + 1 /\ refused' = FALSE
    BY <1>4 DEF AttemptFails, TriesAgain
  <2>2. attempt' \in 1..Attempts /\ failures' = attempt' - 1 /\ failures' \in 0..Attempts
    BY <1>1, <1>2, <1>4, <2>1 DEF IInv, TypeOK
  <2>3. TypeOK'
    BY <1>1, <2>1, <2>2 DEF IInv, TypeOK, Request
  <2>4. (Known /\ Counted /\ TrueMeansReady /\ GivesUpAfterAll)'
    BY <1>2, <2>1, <2>2 DEF Known, Counted, TrueMeansReady, GivesUpAfterAll
  <2> QED
    BY <2>3, <2>4 DEF IInv
<1> QED
  BY <1>3, <1>4

\* An answer: only these actions let ensure_collection() go on or return.
Answered ==
    \/ ProbeFinds \/ ProbeFindsOther \/ ProbeMisses
    \/ Done \/ Refused \/ CreateConflicts \/ AgainConflicts \/ ParentAnswered

LEMMA AnswerInv == ASSUME IInv, Answered PROVE IInv'
<1> USE BootstrapAssumption DEF IInv, TypeOK, Known, Counted, TrueMeansReady, GivesUpAfterAll, Request
<1>1. CASE ProbeFinds
  BY <1>1 DEF ProbeFinds, Returns, backendVars
<1>2. CASE ProbeFindsOther
  BY <1>2 DEF ProbeFindsOther, Goto, backendVars
<1>3. CASE ProbeMisses
  BY <1>3 DEF ProbeMisses, Goto, backendVars
<1>4. CASE Done
  BY <1>4 DEF Done, Applies, Returns
<1>5. CASE Refused
  BY <1>5 DEF Refused, Returns, backendVars
<1>6. CASE CreateConflicts
  BY <1>6 DEF CreateConflicts, Conflicts, Goto, backendVars
<1>7. CASE AgainConflicts
  BY <1>7 DEF AgainConflicts, Conflicts, Returns, backendVars
<1>8. CASE ParentAnswered
  BY <1>8 DEF ParentAnswered, Applies, Goto, backendVars
<1> QED
  BY <1>1, <1>2, <1>3, <1>4, <1>5, <1>6, <1>7, <1>8 DEF Answered

LEMMA Inductive == Spec => []IInv
<1>1. Init => IInv
  BY InitInv
<1>2. IInv /\ [Next]_vars => IInv'
  <2> SUFFICES ASSUME IInv, [Next]_vars PROVE IInv'
    OBVIOUS
  <2>1. CASE Restarts
    BY <2>1, RestartInv DEF Restarts
  <2>2. CASE AttemptFails
    BY <2>2, FailsInv
  <2>3. CASE Answered
    BY <2>3, AnswerInv
  <2>4. CASE UNCHANGED vars
    BY <2>4 DEF vars, backendVars, IInv, TypeOK, Known, Counted, TrueMeansReady, GivesUpAfterAll
  <2> QED
    BY <2>1, <2>2, <2>3, <2>4 DEF Next, Ensure, Answered
<1> QED
  BY <1>1, <1>2, PTL DEF Spec

-----------------------------------------------------------------------------
\* The loop variable stays within its range and nothing leaves its type.
THEOREM TypeCorrect == Spec => []TypeOK
<1>1. IInv => TypeOK
  BY DEF IInv
<1> QED
  BY <1>1, Inductive, PTL

\* ensure_collection_with_retry() returns True over a collection with the
\* configured title, unless its last attempt met a refusal.
THEOREM TrueIsReady == Spec => []TrueMeansReady
<1>1. IInv => TrueMeansReady
  BY DEF IInv
<1> QED
  BY <1>1, Inductive, PTL

\* It returns False only after as many failures as it has attempts.
THEOREM FalseIsUnreachable == Spec => []GivesUpAfterAll
<1>1. IInv => GivesUpAfterAll
  BY DEF IInv
<1> QED
  BY <1>1, Inductive, PTL
=============================================================================
