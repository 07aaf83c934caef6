---------------------------- MODULE IcsFeedProofs ----------------------------
(***************************************************************************)
(* Subscribers are fresh, the throttle loses no use, and the limiter       *)
(* admits Limit failures, for any number of users, links, polls and writes.*)
(***************************************************************************)
EXTENDS IcsFeed, SequenceTheorems, FiniteSetTheorems, TLAPS

-----------------------------------------------------------------------------
(* What a change tag is worth: while no write restores earlier contents, a  *)
(* tag names one version, and what was fetched under it is never older.     *)

\* A tag names one version.
TagsAreVersions ==
    /\ hist \in Seq(Content)
    /\ Len(hist) >= 1
    /\ \A i, j \in 1..Len(hist) : hist[i] = hist[j] => i = j

LEMMA SinceType ==
    ASSUME TagsAreVersions, NEW v \in Nat
    PROVE  /\ Since(v) \subseteq Content
           /\ v \in 0..Len(hist) => Current \in Since(v)
           /\ Current \in Content
  BY DEF TagsAreVersions, Since, Current

LEMMA SinceChain ==
    ASSUME TagsAreVersions, NEW s \in Nat, NEW tag \in Since(s),
           NEW docs, docs # None, Held(tag, docs)
    PROVE  docs \in Since(s)
  BY DEF TagsAreVersions, Since, Held

LEMMA SinceGrows ==
    ASSUME TagsAreVersions, NEW c \in Content, hist' = Append(hist, c),
           NEW v \in Nat
    PROVE  Since(v) \subseteq Since(v)'
  BY DEF TagsAreVersions, Since

LEMMA HeldGrows ==
    ASSUME TagsAreVersions, NEW c \in Content, hist' = Append(hist, c)
    PROVE  \A tag, docs : Held(tag, docs) => Held(tag, docs)'
<1> SUFFICES ASSUME NEW tag, NEW docs, Held(tag, docs), docs # None
             PROVE  \E v \in 1..Len(hist') : hist'[v] = tag /\ docs \in Since(v)'
  BY DEF Held
<1>1. PICK v \in 1..Len(hist) : hist[v] = tag /\ docs \in Since(v)
  BY DEF Held
<1>2. v \in 1..Len(hist') /\ hist'[v] = hist[v]
  BY DEF TagsAreVersions
<1>3. docs \in Since(v)'
  BY <1>1, SinceGrows DEF TagsAreVersions
<1> QED
  BY <1>1, <1>2, <1>3

LEMMA ChangesKeepVersions ==
    ASSUME TagsAreVersions, ~Reverts, NEW c \in Content, Changes(c)
    PROVE  TagsAreVersions'
  BY DEF TagsAreVersions, Changes

-----------------------------------------------------------------------------
(* The inductive invariant.                                                *)

CacheOK == cache \in Copies /\ Held(cache.tag, cache.body)

\* What holds of a poll whose handler is at q with locals l, that started at
\* version s, was last answered rp, and of the copy h its subscriber keeps.
PollOK(l, q, s, rp, h) ==
    /\ l \in Locals /\ q \in Label /\ s \in 0..Len(hist)
    /\ rp \in Status \cup {None} /\ h \in Copies
    /\ l.tag \in Since(s) \cup {None}
    /\ l.fetched \in Since(s) \cup {None}
    /\ l.tag # None => Held(l.tag, l.fetched)
    /\ q = "ctag" => l.fetched = None
    /\ h.tag # None => h.body # None /\ Held(h.tag, h.body)
    /\ rp \in {"200", "304"} => h.body \in Since(s)

FreshInv ==
    /\ TagsAreVersions
    /\ CacheOK
    /\ pc \in [Poller -> Label]
    /\ local \in [Poller -> Locals]
    /\ start \in [Poller -> Nat]
    /\ reply \in [Poller -> Status \cup {None}]
    /\ held \in [Poller -> Copies]
    /\ \A p \in Poller : PollOK(local[p], pc[p], start[p], reply[p], held[p])

-----------------------------------------------------------------------------
(* Freshness.                                                              *)

\* A step of one poll.
LEMMA OnePoll ==
    ASSUME FreshInv, NEW p \in Poller, hist' = hist, CacheOK',
           NEW l, NEW q, NEW s, NEW rp, NEW h, PollOK(l, q, s, rp, h),
           local' = [local EXCEPT ![p] = l], pc' = [pc EXCEPT ![p] = q],
           start' = [start EXCEPT ![p] = s], reply' = [reply EXCEPT ![p] = rp],
           held' = [held EXCEPT ![p] = h]
    PROVE  FreshInv'
<1>1. TagsAreVersions' /\ s \in Nat
  BY DEF FreshInv, TagsAreVersions, PollOK
<1>2. /\ pc' \in [Poller -> Label] /\ local' \in [Poller -> Locals] /\ start' \in [Poller -> Nat]
      /\ reply' \in [Poller -> Status \cup {None}] /\ held' \in [Poller -> Copies]
  BY <1>1 DEF FreshInv, PollOK
<1>3. \A k, a, v, b, g : PollOK(k, a, v, b, g)' <=> PollOK(k, a, v, b, g)
  BY DEF PollOK, Since, Held
<1>4. ASSUME NEW x \in Poller
      PROVE  PollOK(local[x], pc[x], start[x], reply[x], held[x])'
  <2>1. CASE x = p
    BY <2>1, <1>3 DEF FreshInv
  <2>2. CASE x # p
    BY <2>2, <1>3 DEF FreshInv
  <2> QED
    BY <2>1, <2>2
<1> QED
  BY <1>1, <1>2, <1>4 DEF FreshInv

LEMMA CacheStays ==
    ASSUME CacheOK, UNCHANGED <<hist, cache>>
    PROVE  CacheOK'
  BY DEF CacheOK, Held, Since

\* What a poll may rely on.
LEMMA PollFacts ==
    ASSUME FreshInv, NEW p \in Poller
    PROVE  /\ PollOK(local[p], pc[p], start[p], reply[p], held[p])
           /\ start[p] \in Nat /\ local[p] \in Locals /\ held[p] \in Copies
           /\ TagsAreVersions /\ CacheOK
           /\ Since(start[p]) \subseteq Content
           /\ Current \in Since(start[p])
           /\ start' = start => start' = [start EXCEPT ![p] = start[p]]
           /\ reply' = reply => reply' = [reply EXCEPT ![p] = reply[p]]
           /\ held' = held => held' = [held EXCEPT ![p] = held[p]]
           /\ local' = local => local' = [local EXCEPT ![p] = local[p]]
<1>1. start[p] \in Nat /\ start[p] \in 0..Len(hist) /\ TagsAreVersions
  BY DEF FreshInv, PollOK
<1>2. Since(start[p]) \subseteq Content /\ Current \in Since(start[p])
  BY <1>1, SinceType
<1> QED
  BY <1>1, <1>2 DEF FreshInv

\* A step of a handler that answers nothing.
LEMMA SilentStep ==
    ASSUME FreshInv, NEW p \in Poller, NEW l, NEW q,
           PollOK(l, q, start[p], reply[p], held[p]),
           local' = [local EXCEPT ![p] = l], pc' = [pc EXCEPT ![p] = q],
           UNCHANGED <<hist, cache, start, reply, held>>
    PROVE  FreshInv'
<1>1. PICK s, rp, h : s = start[p] /\ rp = reply[p] /\ h = held[p]
  OBVIOUS
<1>2. start' = [start EXCEPT ![p] = s] /\ reply' = [reply EXCEPT ![p] = rp]
      /\ held' = [held EXCEPT ![p] = h]
  BY <1>1, PollFacts
<1>3. PollOK(l, q, s, rp, h)
  BY <1>1
<1>4. CacheOK'
  BY CacheStays DEF FreshInv
<1>5. hist' = hist
  OBVIOUS
<1> QED
  BY <1>2, <1>3, <1>4, <1>5, OnePoll

\* Answers that carry no calendar.
LEMMA EmptyAnswer ==
    ASSUME FreshInv, NEW p \in Poller, NEW status \in Status \ {"200", "304"},
           Respond(p, status), UNCHANGED <<hist, cache, start, held>>
    PROVE  FreshInv'
<1>1. PollOK(NoLocals, "idle", start[p], status, held[p])
  BY PollFacts DEF PollOK, NoLocals, Locals, Documents, Label
<1>2. CacheOK'
  BY CacheStays DEF FreshInv
<1>3. start' = [start EXCEPT ![p] = start[p]] /\ held' = [held EXCEPT ![p] = held[p]]
  BY PollFacts
<1> QED
  BY <1>1, <1>2, <1>3, OnePoll DEF Respond, Goto

\* Answers that do.
LEMMA ServeStep ==
    ASSUME FreshInv, NEW p \in Poller, NEW status \in {"200", "304"},
           NEW copy \in Copies, copy.body \in Since(start[p]),
           copy.tag # None => Held(copy.tag, copy.body),
           Serve(p, status, copy), UNCHANGED <<hist, start>>, CacheOK'
    PROVE  FreshInv'
<1>1. CASE Respond(p, status) /\ held' = [held EXCEPT ![p] = copy]
  <2>1. copy.body # None
    BY PollFacts, CollectionAssumption
  <2>2. PollOK(NoLocals, "idle", start[p], status, copy)
    BY <2>1, PollFacts DEF PollOK, NoLocals, Locals, Documents, Label, Status
  <2>3. start' = [start EXCEPT ![p] = start[p]]
    BY PollFacts
  <2> QED
    BY <1>1, <2>2, <2>3, OnePoll DEF Respond, Goto
<1>2. CASE Respond(p, "500") /\ UNCHANGED held
  <2>1. PollOK(NoLocals, "idle", start[p], "500", held[p])
    BY PollFacts DEF PollOK, NoLocals, Locals, Documents, Label, Status
  <2>2. start' = [start EXCEPT ![p] = start[p]] /\ held' = [held EXCEPT ![p] = held[p]]
    BY <1>2, PollFacts
  <2>3. /\ pc' = [pc EXCEPT ![p] = "idle"] /\ local' = [local EXCEPT ![p] = NoLocals]
        /\ reply' = [reply EXCEPT ![p] = "500"]
    BY <1>2 DEF Respond, Goto
  <2> QED
    BY <2>1, <2>2, <2>3, OnePoll
<1> QED
  BY <1>1, <1>2 DEF Serve

LEMMA KnownTokenStep ==
    ASSUME FreshInv, NEW p \in Poller, NEW f \in Feed, NEW i \in Ip, KnownToken(p, f, i)
    PROVE  FreshInv'
<1> DEFINE l == [NoLocals EXCEPT !.feed = f]
<1>1. l \in Locals /\ l.tag = None /\ l.fetched = None
  BY DEF Locals, NoLocals, Documents
<1>2. Len(hist) \in 0..Len(hist)
  BY DEF FreshInv, TagsAreVersions
<1> HIDE DEF l
<1>3. PollOK(l, "ctag", Len(hist), None, held[p])
  BY <1>1, <1>2, PollFacts, FeedAssumption DEF PollOK, Label, Status
<1>4. local' = [local EXCEPT ![p] = l]
  BY DEF KnownToken, l
<1>5. CacheOK'
  BY CacheStays DEF FreshInv, KnownToken
<1>6. held' = [held EXCEPT ![p] = held[p]]
  BY PollFacts DEF KnownToken
<1> QED
  BY <1>3, <1>4, <1>5, <1>6, OnePoll DEF KnownToken, Goto

LEMMA CtagStep ==
    ASSUME FreshInv, NEW p \in Poller, CtagAnswered(p)
    PROVE  FreshInv'
<1>1. PICK t \in {Current, None} : local' = [local EXCEPT ![p].tag = t]
  BY DEF CtagAnswered, Ctag
<1> DEFINE l == [local[p] EXCEPT !.tag = t]
<1>2. pc[p] = "ctag"
  BY DEF CtagAnswered
<1>3. PollOK(l, "tagged", start[p], reply[p], held[p])
  BY <1>1, <1>2, PollFacts DEF PollOK, Locals, Documents, Label, Held
<1>4. local' = [local EXCEPT ![p] = l]
  BY <1>1 DEF FreshInv
<1> HIDE DEF l
<1>5. UNCHANGED <<hist, cache, start, reply, held>> /\ pc' = [pc EXCEPT ![p] = "tagged"]
  BY DEF CtagAnswered, Goto
<1> QED
  BY <1>3, <1>4, <1>5, SilentStep

\* A 304: the copy the subscriber keeps was filed under a tag that is at least
\* as new as the poll, and so is the copy.
LEMMA NotModifiedStep ==
    ASSUME FreshInv, NEW p \in Poller, NotModified(p)
    PROVE  FreshInv'
<1>1. /\ held[p] \in Copies /\ local[p].tag # None /\ held[p].tag = local[p].tag
      /\ PollOK(local[p], pc[p], start[p], reply[p], held[p])
      /\ start[p] \in Nat /\ TagsAreVersions
  BY PollFacts DEF NotModified, Matches
<1>2. held[p].body # None /\ Held(held[p].tag, held[p].body) /\ held[p].tag \in Since(start[p])
  BY <1>1 DEF PollOK
<1>3. held[p].body \in Since(start[p])
  BY <1>1, <1>2, SinceChain
<1>4. CacheOK'
  BY CacheStays DEF FreshInv, NotModified
<1> QED
  BY <1>1, <1>2, <1>3, <1>4, ServeStep DEF NotModified

LEMMA CacheHitStep ==
    ASSUME FreshInv, NEW p \in Poller, CacheHit(p)
    PROVE  FreshInv'
<1> DEFINE copy == [tag |-> local[p].tag, body |-> CachedBody(local[p].tag)]
<1>1. /\ local[p].tag # None /\ local[p].tag = cache.tag
      /\ CachedBody(local[p].tag) = cache.body /\ cache.body # None
  BY DEF CacheHit, CachedBody
<1>2. /\ PollOK(local[p], pc[p], start[p], reply[p], held[p])
      /\ start[p] \in Nat /\ TagsAreVersions /\ CacheOK
  BY PollFacts
<1>3. Held(cache.tag, cache.body) /\ cache.tag \in Since(start[p]) /\ cache \in Copies
  BY <1>1, <1>2 DEF CacheOK, PollOK
<1>4. cache.body \in Since(start[p])
  BY <1>1, <1>2, <1>3, SinceChain
<1>5. /\ copy \in Copies /\ copy.body \in Since(start[p]) /\ Held(copy.tag, copy.body)
  BY <1>1, <1>3, <1>4 DEF Copies
<1>6. CacheOK'
  BY CacheStays DEF FreshInv, CacheHit
<1> HIDE DEF copy
<1>7. Serve(p, "200", copy) /\ UNCHANGED <<hist, start>>
  BY DEF CacheHit, copy
<1> QED
  BY <1>5, <1>6, <1>7, ServeStep

LEMMA CacheMissStep ==
    ASSUME FreshInv, NEW p \in Poller, CacheMiss(p)
    PROVE  FreshInv'
<1>1. PollOK(local[p], "get", start[p], reply[p], held[p])
  BY PollFacts DEF PollOK, Label
<1>2. local' = [local EXCEPT ![p] = local[p]]
  BY PollFacts DEF CacheMiss
<1>3. UNCHANGED <<hist, cache, start, reply, held>> /\ pc' = [pc EXCEPT ![p] = "get"]
  BY DEF CacheMiss, Goto
<1> QED
  BY <1>1, <1>2, <1>3, SilentStep

LEMMA BodyAnsweredStep ==
    ASSUME FreshInv, NEW p \in Poller, BodyAnswered(p)
    PROVE  FreshInv'
<1>1. PICK b \in {Current, None} : local' = [local EXCEPT ![p].fetched = b]
  BY DEF BodyAnswered
<1> DEFINE l == [local[p] EXCEPT !.fetched = b]
<1>2. \A tag \in Since(start[p]) : Held(tag, Current)
  BY PollFacts DEF TagsAreVersions, Since, Held, Current
<1>3. PollOK(l, "got", start[p], reply[p], held[p])
  <2>1. l.tag = local[p].tag /\ l.fetched = b /\ l \in Locals
    BY <1>1, PollFacts DEF Locals, Documents
  <2>2. PollOK(local[p], pc[p], start[p], reply[p], held[p]) /\ Current \in Since(start[p])
    BY PollFacts
  <2>3. l.tag # None => Held(l.tag, l.fetched)
    BY <1>1, <1>2, <2>1, <2>2 DEF PollOK, Held
  <2>4. l.fetched \in Since(start[p]) \cup {None}
    BY <1>1, <2>1, <2>2
  <2> HIDE DEF l
  <2> QED
    BY <2>1, <2>2, <2>3, <2>4 DEF PollOK, Label
<1>4. local' = [local EXCEPT ![p] = l]
  BY <1>1 DEF FreshInv
<1> HIDE DEF l
<1>5. UNCHANGED <<hist, cache, start, reply, held>> /\ pc' = [pc EXCEPT ![p] = "got"]
  BY DEF BodyAnswered, Goto
<1> QED
  BY <1>3, <1>4, <1>5, SilentStep

LEMMA BodyStoredStep ==
    ASSUME FreshInv, NEW p \in Poller, BodyStored(p)
    PROVE  FreshInv'
<1> DEFINE copy == [tag |-> local[p].tag, body |-> local[p].fetched]
<1>1. /\ local[p].fetched # None /\ local[p] \in Locals
      /\ PollOK(local[p], pc[p], start[p], reply[p], held[p])
  BY PollFacts DEF BodyStored
<1>2. /\ copy \in Copies /\ copy.body \in Since(start[p])
      /\ copy.tag # None => Held(copy.tag, copy.body)
  BY <1>1 DEF PollOK, Locals, Copies
<1>3. CacheOK'
  BY <1>1, <1>2, PollFacts DEF BodyStored, CacheOK, Held, Since
<1> HIDE DEF copy
<1>4. Serve(p, "200", copy) /\ UNCHANGED <<hist, start>>
  BY DEF BodyStored, copy
<1> QED
  BY <1>2, <1>3, <1>4, ServeStep

LEMMA FreshWrite ==
    ASSUME FreshInv, ~Reverts, NEW c \in Content, Write(c)
    PROVE  FreshInv'
<1>1. /\ TagsAreVersions /\ hist' = Append(hist, c)
      /\ UNCHANGED <<cache, pc, local, start, reply, held>>
  BY DEF FreshInv, Write, Changes, pollVars
<1>2. TagsAreVersions'
  BY <1>1, ChangesKeepVersions DEF Write
<1>3. \A tag, docs : Held(tag, docs) => Held(tag, docs)'
  BY <1>1, HeldGrows
<1>4. CacheOK'
  BY <1>1, <1>3 DEF FreshInv, CacheOK
<1>5. ASSUME NEW p \in Poller
      PROVE  PollOK(local[p], pc[p], start[p], reply[p], held[p])'
  <2>1. PollOK(local[p], pc[p], start[p], reply[p], held[p]) /\ start[p] \in Nat
    BY PollFacts
  <2>2. Since(start[p]) \subseteq Since(start[p])'
    BY <1>1, <2>1, SinceGrows
  <2>3. Len(hist') = Len(hist) + 1 /\ Len(hist) \in Nat
    BY <1>1 DEF TagsAreVersions
  <2> QED
    BY <1>1, <1>3, <2>1, <2>2, <2>3 DEF PollOK
<1> QED
  BY <1>1, <1>2, <1>4, <1>5 DEF FreshInv

LEMMA FreshRestart ==
    ASSUME FreshInv, Restart
    PROVE  FreshInv'
<1>1. hist' = hist /\ UNCHANGED <<start, reply, held>>
  BY DEF Restart
<1>2. CacheOK'
  BY DEF Restart, CacheOK, NoCopy, Copies, Documents, Held
<1>3. ASSUME NEW p \in Poller
      PROVE  PollOK(local[p], pc[p], start[p], reply[p], held[p])'
  <2>1. PollOK(NoLocals, "idle", start[p], reply[p], held[p])
    BY PollFacts DEF PollOK, NoLocals, Locals, Documents, Label
  <2>2. local'[p] = NoLocals /\ pc'[p] = "idle"
    BY DEF Restart
  <2> QED
    BY <1>1, <2>1, <2>2 DEF PollOK, Held, Since
<1>4. pc' \in [Poller -> Label] /\ local' \in [Poller -> Locals]
  BY DEF Restart, Label, NoLocals, Locals, Documents
<1> QED
  BY <1>1, <1>2, <1>3, <1>4 DEF FreshInv, TagsAreVersions

LEMMA FreshStays ==
    ASSUME FreshInv, UNCHANGED <<hist, cache, pollVars>>
    PROVE  FreshInv'
  BY DEF FreshInv, CacheOK, pollVars, TagsAreVersions, PollOK, Held, Since

LEMMA FreshInit == Init => FreshInv
<1> SUFFICES ASSUME Init PROVE FreshInv
  OBVIOUS
<1>1. TagsAreVersions
  BY DEF Init, CollectionInit, TagsAreVersions
<1>2. CacheOK
  BY DEF Init, CacheOK, NoCopy, Copies, Documents, Held
<1>3. PollOK(NoLocals, "idle", 0, None, NoCopy)
  BY <1>1, FeedAssumption DEF TagsAreVersions, PollOK, NoLocals, NoCopy, Locals, Copies,
     Documents, Label, Status, Held
<1> QED
  BY <1>1, <1>2, <1>3 DEF Init, FreshInv, PollOK

LEMMA FreshStep == ASSUME ~Reverts PROVE FreshInv /\ [Next]_vars => FreshInv'
<1> SUFFICES ASSUME FreshInv, [Next]_vars PROVE FreshInv'
  OBVIOUS
<1>1. CASE Tick
  BY <1>1, FreshStays DEF Tick
<1>2. CASE Restart
  BY <1>2, FreshRestart
<1>3. ASSUME NEW c \in Content, Write(c) PROVE FreshInv'
  BY <1>3, FreshWrite
<1>4. ASSUME NEW u \in User, NEW f \in Feed, Create(u, f) \/ Revoke(u, f) PROVE FreshInv'
  BY <1>4, FreshStays DEF Create, Revoke
<1>5. ASSUME NEW p \in Poller, Poll(p) PROVE FreshInv'
  <2>1. ASSUME NEW i \in Ip, Blocked(p, i) PROVE FreshInv'
    BY <2>1, EmptyAnswer DEF Blocked, Status
  <2>2. ASSUME NEW i \in Ip, NEW f \in Feed, UnknownToken(p, f, i) PROVE FreshInv'
    BY <2>2, EmptyAnswer DEF UnknownToken, Status
  <2>3. ASSUME NEW i \in Ip, NEW f \in Feed, KnownToken(p, f, i) PROVE FreshInv'
    BY <2>3, KnownTokenStep
  <2>4. CASE CtagAnswered(p)
    BY <2>4, CtagStep
  <2>5. CASE NotModified(p)
    BY <2>5, NotModifiedStep
  <2>6. CASE CacheHit(p)
    BY <2>6, CacheHitStep
  <2>7. CASE CacheMiss(p)
    BY <2>7, CacheMissStep
  <2>8. CASE BodyAnswered(p)
    BY <2>8, BodyAnsweredStep
  <2>9. CASE BodyFailed(p)
    BY <2>9, EmptyAnswer DEF BodyFailed, Status
  <2>10. CASE BodyStored(p)
    BY <2>10, BodyStoredStep
  <2> QED
    BY <1>5, <2>1, <2>2, <2>3, <2>4, <2>5, <2>6, <2>7, <2>8, <2>9, <2>10 DEF Poll
<1>6. CASE UNCHANGED vars
  BY <1>6, FreshStays DEF vars
<1> QED
  BY <1>1, <1>2, <1>3, <1>4, <1>5, <1>6 DEF Next

\* A poll that is answered 200 or 304 leaves its subscriber with the calendar
\* as it was after the poll came in (web.ics_feed, CollectionIcsCache), when
\* tags name versions.
THEOREM SubscribersFresh == ASSUME ~Reverts PROVE Spec => []SubscriberIsFresh
<1>1. Init => FreshInv
  BY FreshInit
<1>2. FreshInv /\ [Next]_vars => FreshInv'
  BY FreshStep
<1>3. FreshInv => SubscriberIsFresh
  BY DEF FreshInv, PollOK, SubscriberIsFresh
<1> QED
  BY <1>1, <1>2, <1>3, PTL DEF Spec

-----------------------------------------------------------------------------
(* The throttle.                                                           *)

\* A mark is the time of an UPDATE: one the row shows, or one that raised.
MarkIsAnUpdate ==
    \A f \in Feed : written[f] # None => written[f] \in Recorded(f) /\ written[f] <= now

UseInv ==
    /\ now \in Nat
    /\ lastUsed \in [Feed -> Stamp] /\ written \in [Feed -> Stamp]
    /\ served \in [Feed -> Stamp] /\ raised \in [Feed -> Stamp]
    /\ MarkIsAnUpdate
    /\ UseIsRecorded

LEMMA UseStays ==
    ASSUME UseInv, UNCHANGED <<now, lastUsed, written, useVars>>
    PROVE  UseInv'
  BY DEF UseInv, MarkIsAnUpdate, UseIsRecorded, Recorded, useVars

LEMMA UseServe ==
    ASSUME UseInv, NEW p \in Poller, NEW status, NEW copy,
           Serve(p, status, copy), UNCHANGED now
    PROVE  UseInv'
<1> DEFINE f == local[p].feed
           MarkOK(g) == written[g] # None => written[g] \in Recorded(g) /\ written[g] <= now
           UseOK(g) == served[g] # None =>
                \E t \in Recorded(g) : t = served[g] \/ (t < served[g] /\ served[g] - t < Throttle)
<1>1. now \in Stamp /\ now # None /\ None \in Stamp /\ now \in Nat
  BY FeedAssumption DEF UseInv, Stamp
<1>2. /\ UNCHANGED now
      /\ \/ Touch(f) /\ served' = [served EXCEPT ![f] = now]
         \/ TouchRaises(f) /\ served' = [served EXCEPT ![f] = None]
  BY DEF Serve
<1> HIDE DEF f
<1>3. /\ lastUsed' \in [Feed -> Stamp] /\ written' \in [Feed -> Stamp]
      /\ served' \in [Feed -> Stamp] /\ raised' \in [Feed -> Stamp]
  BY <1>1, <1>2 DEF UseInv, Touch, TouchRaises
<1>4. ASSUME NEW g \in Feed PROVE MarkOK(g)' /\ UseOK(g)'
  <2>1. MarkOK(g) /\ UseOK(g)
    BY DEF UseInv, MarkIsAnUpdate, UseIsRecorded
  <2>2. CASE g # f
    <3>1. /\ lastUsed'[g] = lastUsed[g] /\ written'[g] = written[g]
          /\ served'[g] = served[g] /\ raised'[g] = raised[g]
      BY <1>2, <2>2 DEF UseInv, Touch, TouchRaises
    <3> QED
      BY <1>2, <2>1, <3>1 DEF Recorded
  <2>3. CASE g = f /\ Throttled(f) /\ Touch(f)
    <3>1. /\ UNCHANGED <<lastUsed, written, raised, now>>
          /\ served'[g] = now
      BY <1>2, <2>3 DEF UseInv, Touch, Throttled, TouchRaises
    <3>2. written[g] \in Recorded(g) /\ written[g] <= now /\ now - written[g] < Throttle
      BY <2>1, <2>3 DEF Throttled
    <3>3. written[g] \in Nat
      BY <2>3 DEF Throttled, UseInv, Stamp
    <3>4. written[g] = now \/ written[g] < now
      BY <1>1, <3>2, <3>3
    <3>5. UseOK(g)'
      BY <3>1, <3>2, <3>4 DEF Recorded
    <3> QED
      BY <2>1, <3>1, <3>5 DEF Recorded
  <2>4. CASE g = f /\ ~Throttled(f) /\ Touch(f)
    <3>1. lastUsed'[g] = now /\ written'[g] = now /\ served'[g] = now
      BY <1>2, <2>4 DEF UseInv, Touch, TouchRaises
    <3>2. now \in Recorded(g)'
      BY <1>1, <3>1 DEF Recorded
    <3> QED
      BY <1>1, <1>2, <3>1, <3>2
  <2>5. CASE g = f /\ TouchRaises(f) /\ served' = [served EXCEPT ![f] = None]
    <3>1. raised'[g] = now /\ written'[g] = now /\ served'[g] = None
      BY <2>5 DEF UseInv, TouchRaises
    <3>2. now \in Recorded(g)'
      BY <1>1, <3>1 DEF Recorded
    <3> QED
      BY <1>1, <1>2, <3>1, <3>2
  <2> QED
    BY <1>2, <2>2, <2>3, <2>4, <2>5
<1> QED
  BY <1>1, <1>2, <1>3, <1>4 DEF UseInv, MarkIsAnUpdate, UseIsRecorded

LEMMA UseStep == UseInv /\ [Next]_vars => UseInv'
<1> SUFFICES ASSUME UseInv, [Next]_vars PROVE UseInv'
  OBVIOUS
<1>1. CASE Tick
  <2>1. now' = now + 1 /\ UNCHANGED <<lastUsed, written, served, raised>>
    BY <1>1 DEF Tick, useVars
  <2>2. \A f \in Feed : written[f] # None => written[f] \in Nat /\ written[f] <= now'
    BY <2>1 DEF UseInv, MarkIsAnUpdate, Stamp
  <2>3. MarkIsAnUpdate'
    BY <2>1, <2>2 DEF UseInv, MarkIsAnUpdate, Recorded
  <2>4. UseIsRecorded'
    BY <2>1 DEF UseInv, UseIsRecorded, Recorded
  <2> QED
    BY <2>1, <2>3, <2>4 DEF UseInv
<1>2. CASE Restart
  <2>1. written' \in [Feed -> Stamp] /\ \A f \in Feed : written'[f] = None
    BY <1>2 DEF Restart, Stamp
  <2> QED
    BY <1>2, <2>1 DEF Restart, useVars, UseInv, MarkIsAnUpdate, UseIsRecorded, Recorded
<1>3. ASSUME NEW c \in Content, Write(c) PROVE UseInv'
  BY <1>3, UseStays DEF Write
<1>4. ASSUME NEW u \in User, NEW f \in Feed, Create(u, f) \/ Revoke(u, f) PROVE UseInv'
  BY <1>4, UseStays DEF Create, Revoke
<1>5. ASSUME NEW p \in Poller, Poll(p) PROVE UseInv'
  <2>1. CASE NotModified(p) \/ CacheHit(p) \/ BodyStored(p)
    BY <2>1, UseServe DEF NotModified, CacheHit, BodyStored
  <2>2. CASE UNCHANGED <<now, lastUsed, written, useVars>>
    BY <2>2, UseStays
  <2> QED
    BY <1>5, <2>1, <2>2 DEF Poll, Blocked, UnknownToken, KnownToken, CtagAnswered, CacheMiss,
       BodyAnswered, BodyFailed
<1>6. CASE UNCHANGED vars
  BY <1>6, UseStays DEF vars
<1> QED
  BY <1>1, <1>2, <1>3, <1>4, <1>5, <1>6 DEF Next

\* last_used_at lags the last answered poll by less than the throttle, across
\* restarts (FeedStore.touch); where an UPDATE raised, the answers it hides are
\* those of less than a throttle after it.
THEOREM UsesRecorded == Spec => []UseIsRecorded
<1>1. Init => UseInv
  BY DEF Init, UseInv, Stamp, MarkIsAnUpdate, UseIsRecorded, Recorded
<1>2. UseInv /\ [Next]_vars => UseInv'
  BY UseStep
<1>3. UseInv => UseIsRecorded
  BY DEF UseInv
<1> QED
  BY <1>1, <1>2, <1>3, PTL DEF Spec

-----------------------------------------------------------------------------
(* The limiter.                                                            *)

USE LimiterAssumption DEF LimiterAssumption

\* The failures of an address that still count.
Fresh(h) == Cardinality(CountedHits(h))

LEMMA FreshBounds ==
    ASSUME NEW h \in Hits
    PROVE  /\ IsFiniteSet(CountedHits(h)) /\ Fresh(h) \in 0..Len(h) /\ Len(h) \in Nat
           /\ DOMAIN h = 1..Len(h) /\ \A i \in 1..Len(h) : h[i] \in 0..Window
  <1>1. Len(h) \in Nat /\ DOMAIN h = 1..Len(h) /\ \A i \in 1..Len(h) : h[i] \in 0..Window
    BY LenProperties DEF Hits
  <1>2. IsFiniteSet(1..Len(h)) /\ Cardinality(1..Len(h)) = Len(h)
    <2> DEFINE n == Len(h)
    <2>0. n \in Int /\ 1 \in Int
      BY <1>1
    <2> HIDE DEF n
    <2>1. Cardinality(1..n) = IF 1 > n THEN 0 ELSE n - 1 + 1
      BY <2>0, FS_Interval
    <2>2. IsFiniteSet(1..n)
      BY <2>0, FS_Interval
    <2>3. n \in Nat
      BY <1>1 DEF n
    <2>4. (IF 1 > n THEN 0 ELSE n - 1 + 1) = n
      BY <2>3
    <2> QED BY <2>1, <2>2, <2>4 DEF n
  <1>3. CountedHits(h) \subseteq 1..Len(h)
    BY <1>1 DEF CountedHits
  <1>4. IsFiniteSet(CountedHits(h)) /\ Cardinality(CountedHits(h)) <= Len(h)
    BY <1>2, <1>3, FS_Subset
  <1> QED BY <1>1, <1>4, FS_CardinalityType DEF Fresh

LEMMA PruneKeepsFresh ==
    ASSUME NEW h \in Hits
    PROVE  Prune(h) \in Hits /\ Len(Prune(h)) = Fresh(h) /\ Fresh(Prune(h)) <= Fresh(h)
  <1> DEFINE m == Len(h) - Fresh(h) + 1
  <1>1. m \in 1..Len(h) + 1 /\ Fresh(h) = Len(h) - m + 1 /\ Len(h) \in Nat
    BY FreshBounds
  <1>2. \A i \in m..Len(h) : h[i] \in 0..Window
    BY <1>1, FreshBounds
  <1>3. Prune(h) = SubSeq(h, m, Len(h))
    BY DEF Prune, Fresh
  <1> HIDE DEF m
  <1>4. Prune(h) \in Hits /\ Len(Prune(h)) = Fresh(h)
    BY <1>1, <1>2, <1>3, SubSeqProperties DEF Hits
  <1> QED BY <1>4, FreshBounds

LEMMA RecordAddsOne ==
    ASSUME NEW h \in Hits
    PROVE  RecordFailure(h) \in Hits /\ Fresh(RecordFailure(h)) <= Fresh(h) + 1
  <1>1. RecordFailure(h) \in Hits /\ Len(RecordFailure(h)) = Len(Prune(h)) + 1
    BY PruneKeepsFresh, AppendProperties DEF RecordFailure, Hits
  <1> QED BY <1>1, PruneKeepsFresh, FreshBounds

LEMMA OlderIsNoFresher ==
    ASSUME NEW h \in Hits
    PROVE  Older(h) \in Hits /\ Fresh(Older(h)) <= Fresh(h)
  <1>1. Older(h) \in [1..Len(h) -> 0..Window] /\ Len(h) \in Nat
    BY FreshBounds DEF Older
  <1>2. Older(h) \in Hits
    BY <1>1 DEF Hits
  <1>3. CountedHits(Older(h)) \subseteq CountedHits(h)
    BY FreshBounds DEF CountedHits, Counted, Older
  <1> QED BY <1>2, <1>3, FreshBounds, FS_Subset DEF Fresh

LEMMA EmptyIsFresh == <<>> \in Hits /\ Fresh(<<>>) = 0
  <1>1. <<>> \in Hits /\ Len(<<>>) = 0
    BY EmptySeq DEF Hits
  <1>2. Fresh(<<>>) \in 0..Len(<<>>)
    BY <1>1, FreshBounds
  <1> QED BY <1>1, <1>2

LimiterInv == hits \in [Ip -> Hits] /\ \A i \in Ip : Fresh(hits[i]) <= Limit

\* The failures of one address change, to at most Limit that count.
LEMMA OneAddress ==
    ASSUME LimiterInv, NEW i \in Ip, NEW h \in Hits, Fresh(h) <= Limit, hits' = [hits EXCEPT ![i] = h]
    PROVE  LimiterInv'
<1>1. hits' \in [Ip -> Hits]
  BY DEF LimiterInv
<1>2. ASSUME NEW j \in Ip PROVE Fresh(hits'[j]) <= Limit
  BY DEF LimiterInv
<1> QED
  BY <1>1, <1>2 DEF LimiterInv

LEMMA LimiterInit == Init => LimiterInv
  BY EmptyIsFresh DEF Init, LimiterInv

LEMMA LimiterStep == LimiterInv /\ [Next]_vars => LimiterInv'
<1> SUFFICES ASSUME LimiterInv, [Next]_vars PROVE LimiterInv'
  OBVIOUS
<1>0. ASSUME UNCHANGED hits PROVE LimiterInv'
  BY <1>0 DEF LimiterInv
<1>1. ASSUME NEW i \in Ip
      PROVE  hits[i] \in Hits /\ Fresh(hits[i]) <= Limit /\ Fresh(hits[i]) \in Nat
  BY FreshBounds DEF LimiterInv
<1>2. CASE Tick
  <2>1. hits' = [i \in Ip |-> Older(hits[i])]
    BY <1>2 DEF Tick
  <2>2. ASSUME NEW i \in Ip PROVE Older(hits[i]) \in Hits /\ Fresh(Older(hits[i])) <= Limit
    BY <1>1, OlderIsNoFresher, FreshBounds
  <2> QED
    BY <2>1, <2>2 DEF LimiterInv
<1>3. CASE Restart
  BY <1>3, EmptyIsFresh DEF Restart, LimiterInv
<1>4. ASSUME NEW p \in Poller, NEW i \in Ip, Blocked(p, i) PROVE LimiterInv'
  <2>1. Prune(hits[i]) \in Hits /\ Fresh(Prune(hits[i])) <= Limit
    BY <1>1, PruneKeepsFresh, FreshBounds
  <2>2. hits' = [hits EXCEPT ![i] = Prune(hits[i])]
    BY <1>4 DEF Blocked
  <2> QED
    BY <2>1, <2>2, OneAddress
<1>5. ASSUME NEW p \in Poller, NEW f \in Feed, NEW i \in Ip, UnknownToken(p, f, i) PROVE LimiterInv'
  <2>1. Fresh(hits[i]) < Limit
    BY <1>1, <1>5, PruneKeepsFresh DEF UnknownToken, IsBlocked
  <2>2. RecordFailure(hits[i]) \in Hits /\ Fresh(RecordFailure(hits[i])) <= Limit
    BY <1>1, <2>1, RecordAddsOne, FreshBounds
  <2>3. hits' = [hits EXCEPT ![i] = RecordFailure(hits[i])]
    BY <1>5 DEF UnknownToken
  <2> QED
    BY <2>2, <2>3, OneAddress
<1>6. ASSUME NEW p \in Poller, NEW f \in Feed, NEW i \in Ip, KnownToken(p, f, i) PROVE LimiterInv'
  <2> DEFINE none == <<>>
  <2>1. hits' = [hits EXCEPT ![i] = none]
    BY <1>6 DEF KnownToken
  <2>2. none \in Hits /\ Fresh(none) <= Limit
    BY EmptyIsFresh
  <2> HIDE DEF none
  <2> QED
    BY <2>1, <2>2, OneAddress
<1>7. ASSUME NEW p \in Poller, Poll(p) PROVE LimiterInv'
  BY <1>0, <1>4, <1>5, <1>6, <1>7 DEF Poll, CtagAnswered, NotModified, CacheHit, CacheMiss,
     BodyAnswered, BodyFailed, BodyStored
<1>8. ASSUME NEW u \in User, NEW f \in Feed, Create(u, f) \/ Revoke(u, f) PROVE LimiterInv'
  BY <1>0, <1>8 DEF Create, Revoke
<1>9. CASE (\E c \in Content : Write(c)) \/ UNCHANGED vars
  BY <1>0, <1>9 DEF Write, vars
<1> QED
  BY <1>2, <1>3, <1>7, <1>8, <1>9 DEF Next

\* An address gets at most Limit failures in a window, however many polls are
\* in flight (web.ics_feed, RateLimiter).
THEOREM FailuresBounded == Spec => []FailuresWithinLimit
<1>1. LimiterInv => FailuresWithinLimit
  BY PruneKeepsFresh DEF LimiterInv, FailuresWithinLimit
<1> QED
  BY LimiterInit, LimiterStep, <1>1, PTL DEF Spec

-----------------------------------------------------------------------------
(* Types.                                                                  *)

StoreTypes ==
    /\ now \in Nat
    /\ owner \in [Feed -> User \cup {None}]
    /\ revoked \in SUBSET Feed
    /\ lastUsed \in [Feed -> Stamp]
    /\ written \in [Feed -> Stamp]
    /\ served \in [Feed -> Stamp]
    /\ raised \in [Feed -> Stamp]

PollTypes ==
    /\ CollectionTypeOK
    /\ cache \in Copies
    /\ pc \in [Poller -> Label]
    /\ local \in [Poller -> Locals]
    /\ start \in [Poller -> Nat]
    /\ reply \in [Poller -> Status \cup {None}]
    /\ held \in [Poller -> Copies]

LEMMA StoreTypesStep == StoreTypes /\ [Next]_vars => StoreTypes'
<1> SUFFICES ASSUME StoreTypes, [Next]_vars PROVE StoreTypes'
  OBVIOUS
<1> USE DEF StoreTypes, Stamp
<1>1. CASE Tick
  BY <1>1 DEF Tick, storeVars, useVars
<1>2. CASE Restart
  BY <1>2 DEF Restart, storeVars, useVars
<1>3. ASSUME NEW u \in User, NEW f \in Feed, Create(u, f) \/ Revoke(u, f) PROVE StoreTypes'
  BY <1>3 DEF Create, Revoke, storeVars, useVars
<1>4. ASSUME NEW p \in Poller, NEW status, NEW copy, Serve(p, status, copy), UNCHANGED <<now, storeVars>>
      PROVE  StoreTypes'
  BY <1>4 DEF Serve, Touch, TouchRaises, storeVars, useVars
<1>5. ASSUME NEW p \in Poller, Poll(p) PROVE StoreTypes'
  <2>1. CASE NotModified(p) \/ CacheHit(p) \/ BodyStored(p)
    BY <1>4, <2>1 DEF NotModified, CacheHit, BodyStored
  <2>2. CASE UNCHANGED <<now, storeVars, lastUsed, written, useVars>>
    BY <2>2 DEF storeVars, useVars
  <2> QED
    BY <1>5, <2>1, <2>2 DEF Poll, Blocked, UnknownToken, KnownToken, CtagAnswered, CacheMiss,
       BodyAnswered, BodyFailed
<1>6. CASE (\E c \in Content : Write(c)) \/ UNCHANGED vars
  BY <1>6 DEF Write, vars, storeVars, useVars
<1> QED
  BY <1>1, <1>2, <1>3, <1>5, <1>6 DEF Next

LEMMA PollTypesStep == PollTypes /\ [Next]_vars => PollTypes'
<1> SUFFICES ASSUME PollTypes, [Next]_vars PROVE PollTypes'
  OBVIOUS
<1>0. /\ NoLocals \in Locals /\ NoCopy \in Copies /\ Current \in Content /\ Len(hist) \in Nat
      /\ UNCHANGED hist => CollectionTypeOK'
  BY DEF PollTypes, CollectionTypeOK, NoLocals, Locals, NoCopy, Copies, Documents, Current
<1>1. CASE Tick \/ (\E u \in User, f \in Feed : Create(u, f) \/ Revoke(u, f)) \/ UNCHANGED vars
  BY <1>0, <1>1 DEF Tick, Create, Revoke, vars, pollVars, PollTypes
<1>2. CASE Restart
  BY <1>0, <1>2 DEF Restart, PollTypes, Label
<1>3. ASSUME NEW c \in Content, Write(c) PROVE PollTypes'
  <2>1. CollectionTypeOK'
    BY <1>3, CollectionAssumption DEF CollectionAssumption, Write, Changes, PollTypes, CollectionTypeOK
  <2> QED
    BY <1>3, <2>1 DEF Write, pollVars, PollTypes
<1>4. ASSUME NEW p \in Poller, NEW status \in Status, NEW copy \in Copies, Serve(p, status, copy), UNCHANGED <<hist, start>>,
             cache' \in Copies
      PROVE  PollTypes'
  <2>1. PICK answer \in Status : Respond(p, answer)
    BY <1>4 DEF Serve, Status
  <2>2. pc' \in [Poller -> Label] /\ reply' \in [Poller -> Status \cup {None}] /\ local' \in [Poller -> Locals]
    BY <1>0, <2>1 DEF Respond, Goto, PollTypes, Label
  <2>3. held' \in [Poller -> Copies]
    BY <1>4 DEF Serve, PollTypes
  <2> QED
    BY <1>0, <1>4, <2>2, <2>3 DEF PollTypes
<1>5. ASSUME NEW p \in Poller, Poll(p) PROVE PollTypes'
  <2>1. local[p] \in Locals /\ held[p] \in Copies /\ cache \in Copies
    BY DEF PollTypes
  <2>2. CASE NotModified(p)
    BY <1>4, <2>1, <2>2 DEF NotModified, Status
  <2>3. CASE CacheHit(p)
    <3>1. [tag |-> local[p].tag, body |-> CachedBody(local[p].tag)] \in Copies
      BY <2>1 DEF CachedBody, Locals, Copies, Documents
    <3> QED
      BY <1>4, <2>1, <2>3, <3>1 DEF CacheHit, Status
  <2>4. CASE BodyStored(p)
    <3>1. [tag |-> local[p].tag, body |-> local[p].fetched] \in Copies
      BY <2>1 DEF Locals, Copies
    <3> QED
      BY <1>4, <2>1, <2>4, <3>1 DEF BodyStored, Status
  <2>5. ASSUME NEW i \in Ip, Blocked(p, i) PROVE PollTypes'
    BY <1>0, <2>5 DEF Blocked, Respond, Goto, PollTypes, Label, Status
  <2>6. ASSUME NEW i \in Ip, NEW f \in Feed, UnknownToken(p, f, i) PROVE PollTypes'
    BY <1>0, <2>6 DEF UnknownToken, Respond, Goto, PollTypes, Label, Status
  <2>7. ASSUME NEW i \in Ip, NEW f \in Feed, KnownToken(p, f, i) PROVE PollTypes'
    <3>1. [NoLocals EXCEPT !.feed = f] \in Locals
      BY DEF NoLocals, Locals, Documents
    <3> QED
      BY <1>0, <2>7, <3>1 DEF KnownToken, Goto, PollTypes, Label
  <2>8. CASE CtagAnswered(p)
    <3>1. PICK t \in Ctag : local' = [local EXCEPT ![p].tag = t]
      BY <2>8 DEF CtagAnswered
    <3>2. local' \in [Poller -> Locals]
      BY <1>0, <3>1 DEF Ctag, Documents, Locals, PollTypes
    <3> QED
      BY <1>0, <2>8, <3>2 DEF CtagAnswered, Goto, PollTypes, Label
  <2>9. CASE BodyAnswered(p)
    <3>1. PICK b \in {Current, None} : local' = [local EXCEPT ![p].fetched = b]
      BY <2>9 DEF BodyAnswered
    <3>2. local' \in [Poller -> Locals]
      BY <1>0, <3>1 DEF Documents, Locals, PollTypes
    <3> QED
      BY <1>0, <2>9, <3>2 DEF BodyAnswered, Goto, PollTypes, Label
  <2>10. CASE CacheMiss(p)
    BY <1>0, <2>10 DEF CacheMiss, Goto, PollTypes, Label
  <2>11. CASE BodyFailed(p)
    BY <1>0, <2>11 DEF BodyFailed, Respond, Goto, PollTypes, Label, Status
  <2> QED
    BY <1>5, <2>2, <2>3, <2>4, <2>5, <2>6, <2>7, <2>8, <2>9, <2>10, <2>11 DEF Poll
<1> QED
  BY <1>1, <1>2, <1>3, <1>5 DEF Next

\* The links, the dictionaries and the handlers stay well typed.
THEOREM TypeCorrect == Spec => []TypeOK
<1>1. Init => StoreTypes /\ PollTypes
  <2> SUFFICES ASSUME Init PROVE StoreTypes /\ PollTypes
    OBVIOUS
  <2>1. CollectionTypeOK
    BY CollectionAssumption DEF CollectionAssumption, Init, CollectionInit, CollectionTypeOK
  <2>2. NoLocals \in Locals /\ NoCopy \in Copies
    BY DEF NoLocals, Locals, NoCopy, Copies, Documents
  <2> QED
    BY <2>1, <2>2 DEF Init, StoreTypes, PollTypes, Stamp, Label
<1>2. LimiterInv /\ StoreTypes /\ PollTypes => TypeOK
  BY DEF LimiterInv, StoreTypes, PollTypes, TypeOK
<1> QED
  BY LimiterInit, LimiterStep, StoreTypesStep, PollTypesStep, <1>1, <1>2, PTL DEF Spec

=============================================================================
