---------------------------- MODULE DavGateProofs ----------------------------
(***************************************************************************)
(* Proofs about DavGate, for any number of requests in flight, keys and    *)
(* chunks and any limit.  A key's budget is the failures that count plus   *)
(* the verifications under way: admission adds to the second part while    *)
(* the first is under the limit, a failure moves one from the second to    *)
(* the first, and time and pruning only take from the first.               *)
(***************************************************************************)
EXTENDS DavGate, TLAPS, SequenceTheorems, FiniteSetTheorems

USE LimiterAssumption, GateAssumption DEF LimiterAssumption, GateAssumption

Fresh(h) == Cardinality(CountedHits(h))

LEMMA FreshBounds ==
    ASSUME NEW h \in Hits
    PROVE  /\ IsFiniteSet(CountedHits(h)) /\ Fresh(h) \in 0..Len(h) /\ Len(h) \in Nat
           /\ DOMAIN h = 1..Len(h) /\ \A i \in 1..Len(h) : h[i] \in 0..Window
  <1>1. Len(h) \in Nat /\ DOMAIN h = 1..Len(h) /\ \A i \in 1..Len(h) : h[i] \in 0..Window
    BY LenProperties DEF Hits
  <1>2. IsFiniteSet(1..Len(h)) /\ Cardinality(1..Len(h)) = Len(h)
    <2>1. /\ IsFiniteSet(1..Len(h))
          /\ Cardinality(1..Len(h)) = IF 1 > Len(h) THEN 0 ELSE Len(h) - 1 + 1
      BY <1>1, FS_Interval
    <2> QED BY <1>1, <2>1
  <1>3. CountedHits(h) \subseteq 1..Len(h)
    BY <1>1 DEF CountedHits
  <1>4. IsFiniteSet(CountedHits(h)) /\ Cardinality(CountedHits(h)) <= Len(h)
    BY <1>2, <1>3, FS_Subset
  <1> QED BY <1>1, <1>4, FS_CardinalityType DEF Fresh

LEMMA PruneKeepsFresh ==
    ASSUME NEW h \in Hits
    PROVE  Prune(h) \in Hits /\ Len(Prune(h)) = Fresh(h) /\ Fresh(Prune(h)) <= Fresh(h)
  <1> DEFINE m == Len(h) - Fresh(h) + 1
  <1>1. m \in 1..Len(h) + 1 /\ Fresh(h) = Len(h) - m + 1 /\ Len(h) \in Nat
    BY FreshBounds
  <1>2. \A i \in m..Len(h) : h[i] \in 0..Window
    BY <1>1, FreshBounds
  <1>3. Prune(h) = SubSeq(h, m, Len(h))
    BY DEF Prune, Fresh
  <1> HIDE DEF m
  <1>4. Prune(h) \in Hits /\ Len(Prune(h)) = Fresh(h)
    BY <1>1, <1>2, <1>3, SubSeqProperties DEF Hits
  <1> QED BY <1>4, FreshBounds

LEMMA RecordAddsOne ==
    ASSUME NEW h \in Hits
    PROVE  RecordFailure(h) \in Hits /\ Fresh(RecordFailure(h)) <= Fresh(h) + 1
  <1>1. RecordFailure(h) \in Hits /\ Len(RecordFailure(h)) = Len(Prune(h)) + 1
    BY PruneKeepsFresh, AppendProperties DEF RecordFailure, Hits
  <1> QED BY <1>1, PruneKeepsFresh, FreshBounds

LEMMA OlderIsNoFresher ==
    ASSUME NEW h \in Hits
    PROVE  Older(h) \in Hits /\ Fresh(Older(h)) <= Fresh(h)
  <1>1. Older(h) \in [1..Len(h) -> 0..Window] /\ Len(h) \in Nat
    BY FreshBounds DEF Older
  <1>2. Older(h) \in Hits
    BY <1>1 DEF Hits
  <1>3. CountedHits(Older(h)) \subseteq CountedHits(h)
    BY FreshBounds DEF CountedHits, Counted, Older
  <1> QED BY <1>2, <1>3, FreshBounds, FS_Subset DEF Fresh

LEMMA EmptyIsFresh == <<>> \in Hits /\ Fresh(<<>>) = 0
  <1>1. <<>> \in Hits /\ Len(<<>>) = 0
    BY EmptySeq DEF Hits
  <1>2. Fresh(<<>>) \in 0..Len(<<>>)
    BY <1>1, FreshBounds
  <1> QED BY <1>1, <1>2

-----------------------------------------------------------------------------
\* A request under way has been answered nothing yet, and the backend carries it
\* out at the last step.
InFlight ==
    \A r \in Request :
        /\ pc[r] # "idle" => key[r] # None /\ status[r] = None
        /\ pc[r] \in {"verify", "body", "backend"} => applied[r] = 0
        /\ applied[r] <= 1

Budget ==
    \A k \in LimitKey : Fresh(hits[k]) + Cardinality(Verifying(k)) <= Limit - 1 + Cardinality(Request)

Types == TypeOK /\ InFlight /\ AppliedAtMostOnce

LEMMA TypesInit == Init => Types
  BY EmptyIsFresh DEF Init, Types, TypeOK, InFlight, AppliedAtMostOnce

LEMMA TypesInductive == Types /\ [Next]_vars => Types'
  <1> SUFFICES ASSUME Types, [Next]_vars PROVE Types'
    OBVIOUS
  <1> USE DEF Types, TypeOK, InFlight, AppliedAtMostOnce
  <1>1. CASE Tick
    BY <1>1, OlderIsNoFresher DEF Tick
  <1>2. ASSUME NEW r \in Request, Arrive(r) PROVE Types'
    <2>1. CASE NoCredentials(r)
      BY <2>1 DEF NoCredentials
    <2>2. ASSUME NEW k \in LimitKey, Refused(r, k) PROVE Types'
      <3>1. hits' \in [LimitKey -> Hits]
        BY <2>2, PruneKeepsFresh DEF Refused, Pruned
      <3> QED BY <2>2, <3>1 DEF Refused
    <2>3. ASSUME NEW k \in LimitKey, Admitted(r, k) PROVE Types'
      <3>1. hits' \in [LimitKey -> Hits]
        BY <2>3, PruneKeepsFresh DEF Admitted, Pruned
      <3> QED BY <2>3, <3>1 DEF Admitted, Goto
    <2> QED BY <1>2, <2>1, <2>2, <2>3 DEF Arrive
  <1>3. ASSUME NEW r \in Request, Verdict(r) PROVE Types'
    <2>1. CASE VerifyFails(r)
      BY <2>1, RecordAddsOne DEF VerifyFails, Respond, Goto
    <2>2. CASE VerifySucceeds(r)
      BY <2>2, EmptyIsFresh DEF VerifySucceeds, Goto
    <2>3. CASE VerifyRaises(r)
      BY <2>3 DEF VerifyRaises, Respond, Goto
    <2> QED BY <1>3, <2>1, <2>2, <2>3 DEF Verdict
  <1>4. ASSUME NEW r \in Request, ReadBody(r) PROVE Types'
    BY <1>4 DEF ReadBody, TooLarge, Chunk, BodyEnds, Disconnects, Respond, Goto
  <1>5. ASSUME NEW r \in Request, Backend(r) PROVE Types'
    <2>1. CASE BackendApplies(r)
      BY <2>1 DEF BackendApplies, Goto
    <2>2. CASE Forwarded(r)
      BY <2>2 DEF Forwarded, Respond, Goto
    <2>3. CASE BackendLost(r)
      BY <2>3 DEF BackendLost, Respond, Goto
    <2> QED BY <1>5, <2>1, <2>2, <2>3 DEF Backend
  <1>6. CASE UNCHANGED vars
    BY <1>6 DEF vars
  <1> QED BY <1>1, <1>2, <1>3, <1>4, <1>5, <1>6 DEF Next

-----------------------------------------------------------------------------
LEMMA VerifyingFinite ==
    \A k : IsFiniteSet(Verifying(k)) /\ Cardinality(Verifying(k)) \in 0..Cardinality(Request)
  <1>1. \A k : Verifying(k) \subseteq Request
    BY DEF Verifying
  <1> QED BY <1>1, FS_Subset, FS_CardinalityType

LEMMA RequestsCounted == Cardinality(Request) \in Nat \ {0}
  BY FS_CardinalityType, FS_EmptySet

\* A step that makes no failure younger and starts no verification.
LEMMA BudgetKept ==
    ASSUME Types, Types', Budget,
           \A k \in LimitKey : Fresh(hits'[k]) <= Fresh(hits[k]) /\ Verifying(k)' \subseteq Verifying(k)
    PROVE  Budget'
  <1> SUFFICES ASSUME NEW k \in LimitKey
               PROVE  Fresh(hits'[k]) + Cardinality(Verifying(k)') <= Limit - 1 + Cardinality(Request)
    BY DEF Budget
  <1>1. Cardinality(Verifying(k)') <= Cardinality(Verifying(k)) /\ Cardinality(Verifying(k)') \in Nat
    BY VerifyingFinite, FS_Subset, FS_CardinalityType
  <1>2. Fresh(hits'[k]) \in Nat /\ Fresh(hits[k]) \in Nat
    BY FreshBounds DEF Types, TypeOK
  <1> QED BY <1>1, <1>2, VerifyingFinite, RequestsCounted DEF Budget

LEMMA BudgetInit == Init => Budget
  <1> SUFFICES ASSUME Init, NEW k \in LimitKey
               PROVE  Fresh(hits[k]) + Cardinality(Verifying(k)) <= Limit - 1 + Cardinality(Request)
    BY DEF Budget
  <1>1. hits[k] = <<>> /\ Verifying(k) = {}
    BY DEF Init, Verifying
  <1> QED BY <1>1, EmptyIsFresh, FS_EmptySet, RequestsCounted

LEMMA BudgetInductive == Types /\ Types' /\ Budget /\ [Next]_vars => Budget'
  <1> SUFFICES ASSUME Types, Types', Budget, [Next]_vars PROVE Budget'
    OBVIOUS
  <1>1. hits \in [LimitKey -> Hits] /\ pc \in [Request -> {"idle", "verify", "body", "backend", "answer"}]
    BY DEF Types, TypeOK
  <1>2. CASE Tick
    <2>1. \A k \in LimitKey : hits'[k] = Older(hits[k]) /\ Verifying(k)' = Verifying(k)
      BY <1>2 DEF Tick, Verifying
    <2> QED BY <1>1, <2>1, OlderIsNoFresher, BudgetKept
  <1>3. ASSUME NEW r \in Request, pc' = [pc EXCEPT ![r] = "idle"] \/ pc' = [pc EXCEPT ![r] = "body"]
                                  \/ pc' = [pc EXCEPT ![r] = "backend"] \/ pc' = [pc EXCEPT ![r] = "answer"],
               key' = key \/ key' = [key EXCEPT ![r] = None], hits' = hits
        PROVE  Budget'
    <2>1. \A k \in LimitKey : Verifying(k)' \subseteq Verifying(k)
      BY <1>1, <1>3 DEF Verifying, Types, TypeOK
    <2> QED BY <1>1, <1>3, <2>1, FreshBounds, BudgetKept
  <1>4. ASSUME NEW r \in Request, Arrive(r) PROVE Budget'
    <2>1. CASE NoCredentials(r)
      BY <1>1, <2>1, FreshBounds, BudgetKept DEF NoCredentials, Verifying
    <2>2. ASSUME NEW k \in LimitKey, Refused(r, k) PROVE Budget'
      <3>1. \A j \in LimitKey : hits'[j] \in {hits[j], Prune(hits[j])} /\ Verifying(j)' = Verifying(j)
        BY <1>1, <2>2 DEF Refused, Pruned, Verifying
      <3>2. \A j \in LimitKey : Fresh(hits'[j]) <= Fresh(hits[j])
        <4> SUFFICES ASSUME NEW j \in LimitKey PROVE Fresh(hits'[j]) <= Fresh(hits[j])
          OBVIOUS
        <4>1. CASE hits'[j] = hits[j]
          BY <1>1, <4>1, FreshBounds
        <4>2. CASE hits'[j] = Prune(hits[j])
          BY <1>1, <4>2, PruneKeepsFresh
        <4> QED BY <3>1, <4>1, <4>2
      <3> QED BY <3>1, <3>2, BudgetKept
    <2>3. ASSUME NEW k \in LimitKey, Admitted(r, k) PROVE Budget'
      <3> SUFFICES ASSUME NEW j \in LimitKey
                   PROVE  Fresh(hits'[j]) + Cardinality(Verifying(j)') <= Limit - 1 + Cardinality(Request)
        BY DEF Budget
      <3>1. CASE j = k
        <4>1. Fresh(hits[k]) < Limit /\ hits'[k] = Prune(hits[k])
          BY <1>1, <2>3, PruneKeepsFresh, FreshBounds DEF Admitted, IsBlocked, Pruned
        <4>2. Fresh(hits'[k]) <= Limit - 1 /\ Fresh(hits'[k]) \in Nat
          BY <1>1, <4>1, PruneKeepsFresh, FreshBounds
        <4>3. Cardinality(Verifying(k)') \in 0..Cardinality(Request)
          <5>1. Verifying(k)' \subseteq Request
            BY DEF Verifying
          <5> QED BY <5>1, FS_Subset, FS_CardinalityType
        <4> QED BY <3>1, <4>2, <4>3, RequestsCounted
      <3>2. CASE j # k
        <4>1. hits'[j] = hits[j] /\ Verifying(j)' \subseteq Verifying(j)
          BY <1>1, <2>3, <3>2 DEF Admitted, Pruned, Goto, Verifying, Types, TypeOK
        <4>2. Cardinality(Verifying(j)') <= Cardinality(Verifying(j)) /\ Cardinality(Verifying(j)') \in Nat
          BY <4>1, VerifyingFinite, FS_Subset, FS_CardinalityType
        <4>3. Fresh(hits[j]) \in Nat
          BY <1>1, FreshBounds
        <4> QED BY <4>1, <4>2, <4>3, VerifyingFinite, RequestsCounted DEF Budget
      <3> QED BY <3>1, <3>2
    <2> QED BY <1>4, <2>1, <2>2, <2>3 DEF Arrive
  <1>5. ASSUME NEW r \in Request, Verdict(r) PROVE Budget'
    <2>1. CASE VerifyFails(r)
      <3> SUFFICES ASSUME NEW j \in LimitKey
                   PROVE  Fresh(hits'[j]) + Cardinality(Verifying(j)') <= Limit - 1 + Cardinality(Request)
        BY DEF Budget
      <3>1. key[r] \in LimitKey /\ Fresh(hits[j]) \in Nat
        BY <1>1, <2>1, FreshBounds DEF VerifyFails, Types, TypeOK, InFlight
      <3>2. CASE j = key[r]
        <4>1. hits'[j] = RecordFailure(hits[j])
          BY <1>1, <2>1, <3>1, <3>2 DEF VerifyFails
        <4>2. Verifying(j)' \subseteq Verifying(j) \ {r} /\ r \in Verifying(j)
          BY <1>1, <2>1, <3>2 DEF VerifyFails, Respond, Goto, Verifying, Types, TypeOK
        <4>3. Cardinality(Verifying(j) \ {r}) = Cardinality(Verifying(j)) - 1 /\ IsFiniteSet(Verifying(j) \ {r})
          BY <4>2, VerifyingFinite, FS_RemoveElement
        <4>4. Cardinality(Verifying(j)') <= Cardinality(Verifying(j)) - 1 /\ Cardinality(Verifying(j)') \in Nat
          BY <4>2, <4>3, FS_Subset, FS_CardinalityType
        <4>5. Fresh(hits'[j]) <= Fresh(hits[j]) + 1 /\ Fresh(hits'[j]) \in Nat
          BY <1>1, <4>1, RecordAddsOne, FreshBounds
        <4> QED BY <3>1, <4>4, <4>5, VerifyingFinite, RequestsCounted DEF Budget
      <3>3. CASE j # key[r]
        <4>1. hits'[j] = hits[j] /\ Verifying(j)' \subseteq Verifying(j)
          BY <1>1, <2>1, <3>3 DEF VerifyFails, Respond, Goto, Verifying, Types, TypeOK
        <4>2. Cardinality(Verifying(j)') <= Cardinality(Verifying(j)) /\ Cardinality(Verifying(j)') \in Nat
          BY <4>1, VerifyingFinite, FS_Subset, FS_CardinalityType
        <4> QED BY <3>1, <4>1, <4>2, VerifyingFinite, RequestsCounted DEF Budget
      <3> QED BY <3>2, <3>3
    <2>2. CASE VerifySucceeds(r)
      <3>1. \A k \in LimitKey : hits'[k] \in {hits[k], <<>>} /\ Verifying(k)' \subseteq Verifying(k)
        BY <1>1, <2>2 DEF VerifySucceeds, Goto, Verifying
      <3> QED BY <1>1, <3>1, EmptyIsFresh, FreshBounds, BudgetKept
    <2>3. CASE VerifyRaises(r)
      BY <1>3, <2>3 DEF VerifyRaises, Respond, Goto
    <2> QED BY <1>5, <2>1, <2>2, <2>3 DEF Verdict
  <1>6. ASSUME NEW r \in Request, ReadBody(r) \/ Backend(r) PROVE Budget'
    <2>1. CASE Chunk(r)
      BY <1>1, <2>1, FreshBounds, BudgetKept DEF Chunk, Verifying
    <2>2. CASE ~Chunk(r)
      BY <1>3, <1>6, <2>2 DEF ReadBody, TooLarge, BodyEnds, Disconnects, Backend, BackendApplies, Forwarded, BackendLost, Respond, Goto
    <2> QED BY <2>1, <2>2
  <1>7. CASE UNCHANGED vars
    BY <1>1, <1>7, FreshBounds, BudgetKept DEF vars, Verifying
  <1> QED BY <1>2, <1>4, <1>5, <1>6, <1>7 DEF Next

-----------------------------------------------------------------------------
LEMMA Invariant == Spec => [](Types /\ Budget)
  BY TypesInit, TypesInductive, BudgetInit, BudgetInductive, PTL DEF Spec

\* The limiter's dictionary and every handler keep their types.
THEOREM TypeCorrect == Spec => []TypeOK
  <1>1. Types => TypeOK
    BY DEF Types
  <1> QED BY Invariant, <1>1, PTL

\* The backend carries a request out at most once, and not at all when it was
\* refused.
THEOREM AppliedOnce == Spec => []AppliedAtMostOnce
  <1>1. Types => AppliedAtMostOnce
    BY DEF Types
  <1> QED BY Invariant, <1>1, PTL

\* A burst exceeds the limit by less than the number of requests in flight.
THEOREM BurstBounded == Spec => []BurstIsBounded
  <1>1. Types /\ Budget => BurstIsBounded
    <2> SUFFICES ASSUME Types, Budget, NEW k \in LimitKey
                 PROVE  Len(Prune(hits[k])) + Cardinality(Verifying(k)) <= Limit - 1 + Cardinality(Request)
      BY DEF BurstIsBounded
    <2>1. Len(Prune(hits[k])) = Fresh(hits[k])
      BY PruneKeepsFresh DEF Types, TypeOK
    <2> QED BY <2>1 DEF Budget
  <1> QED BY Invariant, <1>1, PTL
=============================================================================
