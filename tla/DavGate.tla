------------------------------- MODULE DavGate -------------------------------
(***************************************************************************)
(* The DAV handler of app/dav_proxy.py: many requests of one event loop    *)
(* share the limiter, and each leaves the loop at an await (the thread     *)
(* that verifies the password, every chunk of the body, the backend), so   *)
(* what it checked before the await may have changed after it.  A step is  *)
(* a stretch of the handler between two awaits, or what the other side of  *)
(* an await does.                                                          *)
(***************************************************************************)
EXTENDS RateLimiter

CONSTANTS
    Request,        \* requests in flight at the same time
    LimitKey,       \* "client_ip|username"
    BodyLimit,      \* settings.max_body_bytes, in chunks
    None

ASSUME GateAssumption ==
    /\ IsFiniteSet(Request) /\ Request # {}
    /\ BodyLimit \in Nat
    /\ None \notin LimitKey /\ None \notin {"401", "413", "429", "500", "502", "upstream"}

VARIABLES
    hits,           \* limit key -> its failures, the dict _hits
    pc,             \* request -> where its handler stands
    key,            \* request -> its limit key
    body,           \* request -> chunks buffered so far
    applied,        \* request -> times the backend has carried it out
    status          \* request -> the status of the last response

vars == <<hits, pc, key, body, applied, status>>

TypeOK ==
    /\ hits \in [LimitKey -> Hits]
    /\ pc \in [Request -> {"idle", "verify", "body", "backend", "answer"}]
    /\ key \in [Request -> LimitKey \cup {None}]
    /\ body \in [Request -> 0..BodyLimit]
    /\ applied \in [Request -> Nat]
    /\ status \in [Request -> {None, "401", "413", "429", "500", "502", "upstream"}]

Init ==
    /\ hits = [k \in LimitKey |-> <<>>]
    /\ pc = [r \in Request |-> "idle"]
    /\ key = [r \in Request |-> None]
    /\ body = [r \in Request |-> 0]
    /\ applied = [r \in Request |-> 0]
    /\ status = [r \in Request |-> None]

Tick ==
    /\ hits' = [k \in LimitKey |-> Older(hits[k])]
    /\ UNCHANGED <<pc, key, body, applied, status>>

Goto(r, label) == pc' = [pc EXCEPT ![r] = label]

\* The handler returns: `code` is what the client sees.
Respond(r, code) ==
    /\ Goto(r, "idle")
    /\ status' = [status EXCEPT ![r] = code]
    /\ key' = [key EXCEPT ![r] = None]
    /\ body' = [body EXCEPT ![r] = 0]

-----------------------------------------------------------------------------
(* A request arrives.                                                      *)

\* No Authorization header, or not one of Basic form.
NoCredentials(r) ==
    /\ pc[r] = "idle"
    /\ status' = [status EXCEPT ![r] = "401"]
    /\ applied' = [applied EXCEPT ![r] = 0]
    /\ UNCHANGED <<hits, pc, key, body>>

\* is_blocked() prunes the key as it looks.
Pruned(k) == hits' = [hits EXCEPT ![k] = Prune(@)]

\* Mutant: a request that is refused restarts the window of every failure.
RefusedRestarts(r, k) ==
    /\ pc[r] = "idle"
    /\ IsBlocked(hits[k])
    /\ hits' = [hits EXCEPT ![k] = [i \in DOMAIN Prune(@) |-> 0]]
    /\ status' = [status EXCEPT ![r] = "429"]
    /\ applied' = [applied EXCEPT ![r] = 0]
    /\ UNCHANGED <<pc, key, body>>

Refused(r, k) ==
    /\ pc[r] = "idle"
    /\ IsBlocked(hits[k])
    /\ Pruned(k)
    /\ status' = [status EXCEPT ![r] = "429"]
    /\ applied' = [applied EXCEPT ![r] = 0]
    /\ UNCHANGED <<pc, key, body>>

\* Not blocked: verify() is handed to a worker thread.
Admitted(r, k) ==
    /\ pc[r] = "idle"
    /\ ~IsBlocked(hits[k])
    /\ Pruned(k)
    /\ Goto(r, "verify")
    /\ key' = [key EXCEPT ![r] = k]
    /\ status' = [status EXCEPT ![r] = None]
    /\ applied' = [applied EXCEPT ![r] = 0]
    /\ UNCHANGED body

-----------------------------------------------------------------------------
(* The thread is done.  Which way depends on the password store.           *)

\* Mutant: a failure is recorded by verify()'s caller and again by the response.
VerifyFailsTwice(r) ==
    /\ pc[r] = "verify"
    /\ hits' = [hits EXCEPT ![key[r]] = Append(RecordFailure(@), 0)]
    /\ Respond(r, "401")
    /\ UNCHANGED applied

VerifyFails(r) ==
    /\ pc[r] = "verify"
    /\ hits' = [hits EXCEPT ![key[r]] = RecordFailure(@)]
    /\ Respond(r, "401")
    /\ UNCHANGED applied

\* limiter.reset(): failures of other requests in the window go too.
VerifySucceeds(r) ==
    /\ pc[r] = "verify"
    /\ hits' = [hits EXCEPT ![key[r]] = <<>>]
    /\ Goto(r, "body")
    /\ UNCHANGED <<key, body, applied, status>>

\* verify() raises, for example sqlite3.Error: neither failure nor success.
VerifyRaises(r) ==
    /\ pc[r] = "verify"
    /\ Respond(r, "500")
    /\ UNCHANGED <<hits, applied>>

-----------------------------------------------------------------------------
(* read_limited_body().                                                    *)

\* One chunk more than the limit: 413, whatever the headers declared.  A
\* Content-Length over the limit gets the same answer before the first chunk.
TooLarge(r) ==
    /\ pc[r] = "body"
    /\ Respond(r, "413")
    /\ UNCHANGED <<hits, applied>>

\* Mutant: the declared length is trusted and the stream is not measured.
ChunkUnmeasured(r) ==
    /\ pc[r] = "body"
    /\ body' = [body EXCEPT ![r] = @ + 1]
    /\ UNCHANGED <<hits, pc, key, applied, status>>

Chunk(r) ==
    /\ pc[r] = "body"
    /\ body[r] < BodyLimit
    /\ body' = [body EXCEPT ![r] = @ + 1]
    /\ UNCHANGED <<hits, pc, key, applied, status>>

BodyEnds(r) ==
    /\ pc[r] = "body"
    /\ Goto(r, "backend")
    /\ UNCHANGED <<hits, key, body, applied, status>>

\* ClientDisconnect leaves the handler: there is nobody to answer.
Disconnects(r) ==
    /\ pc[r] = "body"
    /\ Respond(r, None)
    /\ UNCHANGED <<hits, applied>>

-----------------------------------------------------------------------------
(* The backend.                                                            *)

BackendApplies(r) ==
    /\ pc[r] = "backend"
    /\ applied' = [applied EXCEPT ![r] = @ + 1]
    /\ Goto(r, "answer")
    /\ UNCHANGED <<hits, key, body, status>>

Forwarded(r) ==
    /\ pc[r] = "answer"
    /\ Respond(r, "upstream")
    /\ UNCHANGED <<hits, applied>>

\* Mutant: a request whose answer is lost is sent again.
BackendLostRetries(r) ==
    /\ pc[r] \in {"backend", "answer"}
    /\ Goto(r, "backend")
    /\ UNCHANGED <<hits, key, body, applied, status>>

\* httpx.HTTPError: never sent, refused, timed out after 30s, or the answer was
\* lost on its way back.
BackendLost(r) ==
    /\ pc[r] \in {"backend", "answer"}
    /\ Respond(r, "502")
    /\ UNCHANGED <<hits, applied>>

-----------------------------------------------------------------------------
Arrive(r) ==
    \/ NoCredentials(r)
    \/ \E k \in LimitKey : Refused(r, k) \/ Admitted(r, k)

Verdict(r) == VerifyFails(r) \/ VerifySucceeds(r) \/ VerifyRaises(r)

ReadBody(r) == TooLarge(r) \/ Chunk(r) \/ BodyEnds(r) \/ Disconnects(r)

Backend(r) == BackendApplies(r) \/ Forwarded(r) \/ BackendLost(r)

Next == Tick \/ \E r \in Request : Arrive(r) \/ Verdict(r) \/ ReadBody(r) \/ Backend(r)

Spec == Init /\ [][Next]_vars

\* Time passes.  Nothing is asked of the clients, the threads or the backend.
FairSpec == Spec /\ WF_vars(Tick)
-----------------------------------------------------------------------------
(* Properties.                                                             *)

Verifying(k) == {r \in Request : pc[r] = "verify" /\ key[r] = k}

\* The check is made before the await and the failure recorded after it, so a
\* burst may pass the check together.  It exceeds the limit by less than the
\* number of requests in flight: Limit - 1 failures that let all of them in.
BurstIsBounded ==
    \A k \in LimitKey :
        Len(Prune(hits[k])) + Cardinality(Verifying(k)) <= Limit - 1 + Cardinality(Request)

\* The backend carries a request out at most once, and not at all when the
\* client is told 401, 413, 429 or 500.  (After a 502 it may have been: nothing
\* the handler knows tells a request that never left from a lost answer.)
AppliedAtMostOnce ==
    \A r \in Request :
        /\ applied[r] <= 1
        /\ status[r] \in {"401", "413", "429", "500"} => applied[r] = 0

\* A lockout ends even if the locked-out client never stops retrying.
LockoutEnds == \A k \in LimitKey : IsBlocked(hits[k]) ~> ~IsBlocked(hits[k])
=============================================================================
