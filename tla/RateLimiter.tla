----------------------------- MODULE RateLimiter -----------------------------
(***************************************************************************)
(* The sliding-window limiter of app/passwords.py, as operators on its     *)
(* dictionary _hits.  A failure is kept as its age, in clock steps, rather *)
(* than as the time it happened: the code only ever compares now - t with  *)
(* the window, so ages at or past the window are one age.                  *)
(***************************************************************************)
EXTENDS Integers, Sequences, FiniteSets

CONSTANTS
    Limit,          \* settings.auth_rate_limit
    Window          \* settings.auth_rate_window, in clock steps

ASSUME LimiterAssumption == Limit \in Nat /\ Window \in Nat \ {0}

\* The ages of the failures filed under one key, oldest first; <<>> also
\* stands for a key that is not in the dictionary.
Hits == Seq(0..Window)

\* A failure still counts while it is younger than the window.
Counted(age) == age < Window

CountedHits(hits) == {i \in DOMAIN hits : Counted(hits[i])}

\* _prune(): the filter keeps the end of a list that has the oldest first.
Prune(hits) == SubSeq(hits, Len(hits) - Cardinality(CountedHits(hits)) + 1, Len(hits))

IsBlocked(hits) == Len(Prune(hits)) >= Limit

RecordFailure(hits) == Append(Prune(hits), 0)

\* A step of the clock.
Older(hits) == [i \in DOMAIN hits |-> IF hits[i] < Window THEN hits[i] + 1 ELSE Window]
=============================================================================
