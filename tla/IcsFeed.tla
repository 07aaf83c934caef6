------------------------------- MODULE IcsFeed -------------------------------
(***************************************************************************)
(* ICS feed links: the FeedStore of app/feeds.py, the cache of the feed's  *)
(* body in app/caldav.py and the route of app/web.py that subscribers      *)
(* poll.  All of it runs on the event loop, so a step is a stretch of the  *)
(* route between two awaits (its store calls included), or the backend's   *)
(* answer to a request.  A poll of a link that was never created stands    *)
(* for an unknown token.  There is one clock.                              *)
(***************************************************************************)
EXTENDS Collection, RateLimiter

CONSTANTS
    User,           \* who owns links
    Feed,           \* links, and their tokens
    Poller,         \* polls in flight, each of one subscriber
    Ip,             \* client addresses
    MaxFeeds,       \* settings.max_ics_feeds
    Throttle,       \* settings.last_used_throttle
    MaxTime         \* bound: clock steps

Status == {"200", "304", "404", "429", "500", "503"}

ASSUME FeedAssumption ==
    /\ IsFiniteSet(Feed)
    /\ None \notin Status
    /\ None \notin User /\ None \notin Nat /\ None \notin Feed
    /\ MaxFeeds \in Nat /\ Throttle \in Nat /\ MaxTime \in Nat

VARIABLES
    now,            \* the clock
    owner,          \* feed -> username, None while the row does not exist
    revoked,        \* feeds with a revoked_at
    lastUsed,       \* feed -> last_used_at
    written,        \* feed -> the dict _last_used_written
    hits,           \* ip -> failures, the dict of feed_limiter
    cache,          \* the CollectionIcsCache
    pc,             \* poller -> where its handler stands
    local,          \* poller -> the variables of its handler
    start,          \* history: poller -> the version of the collection it started at
    reply,          \* poller -> the status of the last response
    held,           \* poller -> the body and ETag the subscriber keeps
    served,         \* history: feed -> when it was last answered, None after a 500
    raised          \* history: feed -> when its last UPDATE raised, None if it did not

useVars == <<served, raised>>
storeVars == <<owner, revoked>>
pollVars == <<pc, local, start, reply, held>>
vars == <<hist, now, owner, revoked, lastUsed, written, hits, cache, pollVars, useVars>>

Stamp == Nat \cup {None}
Locals == [feed : Feed \cup {None}, tag : Documents, fetched : Documents]
Label == {"idle", "ctag", "tagged", "get", "got"}

\* A body with the tag it is filed under: in the cache, or at a subscriber.
Copies == [tag : Documents, body : Documents]

TypeOK ==
    /\ CollectionTypeOK
    /\ now \in Nat
    /\ owner \in [Feed -> User \cup {None}]
    /\ revoked \in SUBSET Feed
    /\ lastUsed \in [Feed -> Stamp]
    /\ written \in [Feed -> Stamp]
    /\ hits \in [Ip -> Hits]
    /\ cache \in Copies
    /\ pc \in [Poller -> Label]
    /\ local \in [Poller -> Locals]
    /\ start \in [Poller -> Nat]
    /\ reply \in [Poller -> Status \cup {None}]
    /\ held \in [Poller -> Copies]
    /\ served \in [Feed -> Stamp]
    /\ raised \in [Feed -> Stamp]

NoCopy == [tag |-> None, body |-> None]
NoLocals == [feed |-> None, tag |-> None, fetched |-> None]

Init ==
    /\ CollectionInit
    /\ now = 0
    /\ owner = [f \in Feed |-> None]
    /\ revoked = {}
    /\ lastUsed = [f \in Feed |-> None]
    /\ written = [f \in Feed |-> None]
    /\ hits = [i \in Ip |-> <<>>]
    /\ cache = NoCopy
    /\ pc = [p \in Poller |-> "idle"]
    /\ local = [p \in Poller |-> NoLocals]
    /\ start = [p \in Poller |-> 0]
    /\ reply = [p \in Poller |-> None]
    /\ held = [p \in Poller |-> NoCopy]
    /\ served = [f \in Feed |-> None]
    /\ raised = [f \in Feed |-> None]

-----------------------------------------------------------------------------
(* Time, the collection, and a restart of the process.                     *)

Tick ==
    /\ now < MaxTime
    /\ now' = now + 1
    /\ hits' = [i \in Ip |-> Older(hits[i])]
    /\ UNCHANGED <<hist, storeVars, lastUsed, written, cache, pollVars, useVars>>

Write(c) ==
    /\ Changes(c)
    /\ UNCHANGED <<now, storeVars, lastUsed, written, hits, cache, pollVars, useVars>>

\* Dictionaries, caches and polls are lost; rows and subscribers are not.
Restart ==
    /\ written' = [f \in Feed |-> None]
    /\ hits' = [i \in Ip |-> <<>>]
    /\ cache' = NoCopy
    /\ pc' = [p \in Poller |-> "idle"]
    /\ local' = [p \in Poller |-> NoLocals]
    /\ UNCHANGED <<hist, now, storeVars, lastUsed, start, reply, held, useVars>>

-----------------------------------------------------------------------------
(* FeedStore.                                                              *)

\* SELECT ... WHERE revoked_at IS NULL
Active(u) == {f \in Feed : owner[f] = u /\ f \notin revoked}

\* Mutant: the values of the INSERT are bound in the wrong order.
CreateSwapped(u, f) ==
    /\ owner[f] = None
    /\ Cardinality(Active(u)) < MaxFeeds
    /\ owner' = [owner EXCEPT ![f] = f]
    /\ UNCHANGED <<hist, now, revoked, lastUsed, written, hits, cache, pollVars, useVars>>

\* create().  Its two blocks, the INSERT and the get() that reads the row back,
\* follow each other on the event loop with no await between, so no poll runs in
\* between.  A get() that raises turns the redirect into a 500 and changes
\* nothing: the row is committed, and the next page of links shows its URL.
Create(u, f) ==
    /\ owner[f] = None
    /\ Cardinality(Active(u)) < MaxFeeds
    /\ owner' = [owner EXCEPT ![f] = u]
    /\ UNCHANGED <<hist, now, revoked, lastUsed, written, hits, cache, pollVars, useVars>>

Revoke(u, f) ==
    /\ f \in Active(u)
    /\ revoked' = revoked \cup {f}
    /\ UNCHANGED <<hist, now, owner, lastUsed, written, hits, cache, pollVars, useVars>>

\* lookup() finds the token's row.
Found(f) == owner[f] # None /\ f \notin revoked

Throttled(f) == written[f] # None /\ now - written[f] < Throttle

\* Mutant: an answer that the throttle keeps from the database renews it.
TouchRenews(f) ==
    \/ /\ Throttled(f)
       /\ written' = [written EXCEPT ![f] = now]
       /\ UNCHANGED <<lastUsed, raised>>
    \/ /\ ~Throttled(f)
       /\ written' = [written EXCEPT ![f] = now]
       /\ lastUsed' = [lastUsed EXCEPT ![f] = now]
       /\ raised' = [raised EXCEPT ![f] = None]

\* touch()
Touch(f) ==
    \/ /\ Throttled(f)
       /\ UNCHANGED <<written, lastUsed, raised>>
    \/ /\ ~Throttled(f)
       /\ written' = [written EXCEPT ![f] = now]
       /\ lastUsed' = [lastUsed EXCEPT ![f] = now]
       /\ raised' = [raised EXCEPT ![f] = None]

\* touch() when its UPDATE raises: the mark is already made.
TouchRaises(f) ==
    /\ ~Throttled(f)
    /\ written' = [written EXCEPT ![f] = now]
    /\ raised' = [raised EXCEPT ![f] = now]
    /\ UNCHANGED lastUsed

-----------------------------------------------------------------------------
(* ics_feed().                                                             *)

Goto(p, label) == pc' = [pc EXCEPT ![p] = label]

\* The response is sent and the handler's variables are gone.
Respond(p, status) ==
    /\ Goto(p, "idle")
    /\ reply' = [reply EXCEPT ![p] = status]
    /\ local' = [local EXCEPT ![p] = NoLocals]

\* The segment before the first await: is_blocked(), lookup(), and the failure
\* or success that goes to the limiter.
Blocked(p, i) ==
    /\ pc[p] = "idle"
    /\ IsBlocked(hits[i])
    /\ hits' = [hits EXCEPT ![i] = Prune(@)]
    /\ Respond(p, "429")
    /\ UNCHANGED <<hist, now, storeVars, lastUsed, written, cache, start, held, useVars>>

\* Mutant: the failure is counted before the limiter is asked.
UnknownTokenUnchecked(p, f, i) ==
    /\ pc[p] = "idle"
    /\ ~Found(f)
    /\ hits' = [hits EXCEPT ![i] = RecordFailure(@)]
    /\ Respond(p, "404")
    /\ UNCHANGED <<hist, now, storeVars, lastUsed, written, cache, start, held, useVars>>

UnknownToken(p, f, i) ==
    /\ pc[p] = "idle"
    /\ ~IsBlocked(hits[i])
    /\ ~Found(f)
    /\ hits' = [hits EXCEPT ![i] = RecordFailure(@)]
    /\ Respond(p, "404")
    /\ UNCHANGED <<hist, now, storeVars, lastUsed, written, cache, start, held, useVars>>

KnownToken(p, f, i) ==
    /\ pc[p] = "idle"
    /\ ~IsBlocked(hits[i])
    /\ Found(f)
    /\ hits' = [hits EXCEPT ![i] = <<>>]
    /\ Goto(p, "ctag")
    /\ local' = [local EXCEPT ![p] = [NoLocals EXCEPT !.feed = f]]
    /\ start' = [start EXCEPT ![p] = Len(hist)]
    /\ reply' = [reply EXCEPT ![p] = None]
    /\ UNCHANGED <<hist, now, storeVars, lastUsed, written, cache, held, useVars>>

CtagAnswered(p) ==
    /\ pc[p] = "ctag"
    /\ Goto(p, "tagged")
    /\ \E t \in Ctag : local' = [local EXCEPT ![p].tag = t]
    /\ UNCHANGED <<hist, now, storeVars, lastUsed, written, hits, cache, start, reply, held, useVars>>

\* store.touch() and the answer: `copy` is what the subscriber keeps after it.
Serve(p, status, copy) ==
    \/ /\ Touch(local[p].feed)
       /\ Respond(p, status)
       /\ held' = [held EXCEPT ![p] = copy]
       /\ served' = [served EXCEPT ![local[p].feed] = now]
    \/ /\ TouchRaises(local[p].feed)
       /\ Respond(p, "500")
       /\ served' = [served EXCEPT ![local[p].feed] = None]
       /\ UNCHANGED held

\* The subscriber sends the ETag it keeps as If-None-Match.
Matches(p) == local[p].tag # None /\ held[p].tag = local[p].tag

CachedBody(tag) == IF tag # None /\ tag = cache.tag THEN cache.body ELSE None

NotModified(p) ==
    /\ pc[p] = "tagged"
    /\ Matches(p)
    /\ Serve(p, "304", held[p])
    /\ UNCHANGED <<hist, now, storeVars, hits, cache, start>>

CacheHit(p) ==
    /\ pc[p] = "tagged"
    /\ ~Matches(p)
    /\ CachedBody(local[p].tag) # None
    /\ Serve(p, "200", [tag |-> local[p].tag, body |-> CachedBody(local[p].tag)])
    /\ UNCHANGED <<hist, now, storeVars, hits, cache, start>>

CacheMiss(p) ==
    /\ pc[p] = "tagged"
    /\ ~Matches(p)
    /\ CachedBody(local[p].tag) = None
    /\ Goto(p, "get")
    /\ UNCHANGED <<hist, now, storeVars, lastUsed, written, hits, cache, local, start, reply, held, useVars>>

\* The backend answers the GET of the collection; None when it fails or runs
\* past max_calendar_bytes.
BodyAnswered(p) ==
    /\ pc[p] = "get"
    /\ Goto(p, "got")
    /\ \E b \in {Current, None} : local' = [local EXCEPT ![p].fetched = b]
    /\ UNCHANGED <<hist, now, storeVars, lastUsed, written, hits, cache, start, reply, held, useVars>>

BodyFailed(p) ==
    /\ pc[p] = "got"
    /\ local[p].fetched = None
    /\ Respond(p, "503")
    /\ UNCHANGED <<hist, now, storeVars, lastUsed, written, hits, cache, start, held, useVars>>

\* Mutant: the body is sent under a tag read after it was fetched.
BodyStoredRetagged(p) ==
    LET copy == [tag |-> Current, body |-> local[p].fetched] IN
    /\ pc[p] = "got"
    /\ local[p].fetched # None
    /\ cache' = copy
    /\ Serve(p, "200", copy)
    /\ UNCHANGED <<hist, now, storeVars, hits, start>>

\* cache.put(ctag, body), then the answer.
BodyStored(p) ==
    LET copy == [tag |-> local[p].tag, body |-> local[p].fetched] IN
    /\ pc[p] = "got"
    /\ local[p].fetched # None
    /\ cache' = IF local[p].tag = None THEN cache ELSE copy
    /\ Serve(p, "200", copy)
    /\ UNCHANGED <<hist, now, storeVars, hits, start>>

-----------------------------------------------------------------------------
Poll(p) ==
    \/ \E i \in Ip : Blocked(p, i)
    \/ \E i \in Ip, f \in Feed : UnknownToken(p, f, i) \/ KnownToken(p, f, i)
    \/ CtagAnswered(p)
    \/ NotModified(p) \/ CacheHit(p) \/ CacheMiss(p)
    \/ BodyAnswered(p) \/ BodyFailed(p) \/ BodyStored(p)

Next ==
    \/ Tick \/ Restart
    \/ \E c \in Content : Write(c)
    \/ \E u \in User, f \in Feed : Create(u, f) \/ Revoke(u, f)
    \/ \E p \in Poller : Poll(p)

Spec == Init /\ [][Next]_vars
-----------------------------------------------------------------------------
(* Properties.                                                             *)

\* A poll that is answered leaves its subscriber with the calendar as it was at
\* some time after the poll came in, also when the answer is 304 and the body
\* is one it kept from a poll long ago (README.md:395, web.ics_feed).
SubscriberIsFresh ==
    \A p \in Poller : reply[p] \in {"200", "304"} => held[p].body \in Since(start[p])

\* The limiter is asked and told without an await between, so an address gets
\* no more than Limit failures in a window, however many polls are in flight.
FailuresWithinLimit == \A i \in Ip : Len(Prune(hits[i])) <= Limit

\* When a link was last known to be used: what its row says, or an UPDATE that
\* tried to say so and raised.
Recorded(f) == {lastUsed[f], raised[f]} \ {None}

\* last_used_at lags the last answer of a link by less than the throttle, and
\* an UPDATE that raises hides answers for no longer than that: the mark that
\* suppresses an UPDATE is always that of an earlier one.
UseIsRecorded ==
    \A f \in Feed : served[f] # None =>
        \E t \in Recorded(f) : t = served[f] \/ (t < served[f] /\ served[f] - t < Throttle)
=============================================================================
