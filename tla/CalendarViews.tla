---------------------------- MODULE CalendarViews ----------------------------
(***************************************************************************)
(* The calendar page of app/web.py over the caches of app/caldav.py and    *)
(* app/viewer.py.  A page reads the change tag of the collection, then its *)
(* month window, then (for the month it is) the countdown horizon; each    *)
(* read is an await, during which other pages use the caches and CalDAV    *)
(* clients write to the backend.  A step is a stretch of the handler       *)
(* between two awaits, or the backend's answer to a request.               *)
(*                                                                         *)
(* What a window shows is a function of the contents of the collection, so *)
(* the contents stand for it.                                              *)
(***************************************************************************)
EXTENDS Collection

CONSTANTS
    Reader,         \* page requests in flight
    Empty,          \* the contents that yield no document
    Months,         \* months 1..Months pass by
    MaxWindows,     \* settings.calendar_cache_windows
    Garbles         \* may the backend answer a REPORT with a malformed 207?

ASSUME ViewsAssumption ==
    /\ Empty \in Content
    /\ Months \in Nat \ {0} /\ MaxWindows \in Nat \ {0}
    /\ Garbles \in BOOLEAN

Month == 1..Months

\* A month grid, and the year that follows it: the two windows a page fetches.
Window == Month \X {"grid", "horizon"}

VARIABLES
    today,          \* the month it is
    cache,          \* the CalendarCache: tag, documents by window, order of the keys
    memo,           \* the ExpansionCache: its key and events
    pc,             \* reader -> where its handler stands
    local,          \* reader -> the variables of its handler
    start           \* reader -> the version of the collection it started at

vars == <<hist, today, cache, memo, pc, local, start>>

Caches == [tag : Documents, docs : [Window -> Documents], order : Seq(Window)]
Memos == [tag : Documents, window : Window \cup {None}, events : Documents]
Locals == [month : Month,
           current : BOOLEAN,       \* (year, month) == (now.year, now.month)
           tag : Documents,
           fetched : Documents,     \* what the last REPORT returned
           grid : Documents,        \* what the page shows in the grid
           horizon : Documents]     \* and behind its countdowns

Label == {"idle", "ctag", "tagged", "grid", "gridDone", "horizon", "horizonDone", "page"}

TypeOK ==
    /\ CollectionTypeOK
    /\ today \in Month
    /\ cache \in Caches /\ Len(cache.order) <= MaxWindows
    /\ memo \in Memos
    /\ pc \in [Reader -> Label]
    /\ local \in [Reader -> Locals]
    /\ start \in [Reader -> Nat]

NoLocals == [month |-> 1, current |-> FALSE, tag |-> None, fetched |-> None,
             grid |-> None, horizon |-> None]

EmptyCache == [tag |-> None, docs |-> [w \in Window |-> None], order |-> <<>>]
EmptyMemo == [tag |-> None, window |-> None, events |-> None]

Init ==
    /\ CollectionInit
    /\ today = 1
    /\ cache = EmptyCache
    /\ memo = EmptyMemo
    /\ pc = [r \in Reader |-> "idle"]
    /\ local = [r \in Reader |-> NoLocals]
    /\ start = [r \in Reader |-> 0]

-----------------------------------------------------------------------------
(* CalendarCache.                                                          *)

\* get(): what is filed under the window, if the tag is the cache's.
Lookup(c, tag, w) == IF tag # None /\ tag = c.tag THEN c.docs[w] ELSE None

\* A hit moves the window to the back of the dict.
Touch(c, w) ==
    LET last == Len(c.order)
        at == CHOOSE i \in 1..last : c.order[i] = w
    IN  [c EXCEPT !.order = [i \in 1..last |-> IF i = last THEN w ELSE IF i < at THEN @[i] ELSE @[i + 1]]]

\* put(), under a tag that is the cache's: a key that is there stays where it
\* is, a new one goes to the back, and one window too many evicts the front.
File(c, w, docs) ==
    LET order == IF c.docs[w] # None THEN c.order ELSE Append(c.order, w)
        held == [c.docs EXCEPT ![w] = docs]
    IN  IF Len(order) <= MaxWindows
        THEN [c EXCEPT !.docs = held, !.order = order]
        ELSE [c EXCEPT !.docs = [held EXCEPT ![Head(order)] = None], !.order = Tail(order)]

\* Mutant: the cache takes over a new tag and keeps the windows of the old one.
PutKeepsWindows(c, tag, w, docs) ==
    IF tag = None THEN c ELSE File([c EXCEPT !.tag = tag], w, docs)

\* Mutant: nothing is evicted.
PutUnbounded(c, tag, w, docs) ==
    LET base == IF tag = c.tag THEN c ELSE [EmptyCache EXCEPT !.tag = tag] IN
    IF tag = None THEN c
    ELSE [base EXCEPT !.docs[w] = docs,
                      !.order = IF base.docs[w] # None THEN @ ELSE Append(@, w)]

\* A new tag clears the dict first.
Put(c, tag, w, docs) ==
    IF tag = None THEN c
    ELSE File(IF tag = c.tag THEN c ELSE [EmptyCache EXCEPT !.tag = tag], w, docs)

-----------------------------------------------------------------------------
(* The backend, and what happens to the process around its pages.          *)

Write(c) ==
    /\ Changes(c)
    /\ UNCHANGED <<today, cache, memo, pc, local, start>>

\* What a REPORT sent now returns: the documents, None when it fails, and no
\* document when parse_calendar_data() cannot read the answer.
Report == {Current, None} \cup (IF Garbles THEN {Empty} ELSE {})

MonthTurns ==
    /\ today < Months
    /\ today' = today + 1
    /\ UNCHANGED <<hist, cache, memo, pc, local, start>>

\* The process starts again: cold caches, every page lost.
Restart ==
    /\ cache' = EmptyCache
    /\ memo' = EmptyMemo
    /\ pc' = [r \in Reader |-> "idle"]
    /\ local' = [r \in Reader |-> NoLocals]
    /\ start' = [r \in Reader |-> 0]
    /\ UNCHANGED <<hist, today>>

-----------------------------------------------------------------------------
(* calendar_view().                                                        *)

Goto(r, label) == pc' = [pc EXCEPT ![r] = label]

Grid(r) == <<local[r].month, "grid">>
Horizon(r) == <<local[r].month, "horizon">>

Open(r, m) ==
    /\ pc[r] = "idle"
    /\ Goto(r, "ctag")
    /\ local' = [local EXCEPT ![r] = [NoLocals EXCEPT !.month = m, !.current = (m = today)]]
    /\ start' = [start EXCEPT ![r] = Len(hist)]
    /\ UNCHANGED <<hist, today, cache, memo>>

\* The backend answers the PROPFIND; None when fetch_ctag() cannot use it.
CtagAnswered(r) ==
    /\ pc[r] = "ctag"
    /\ Goto(r, "tagged")
    /\ \E t \in Ctag : local' = [local EXCEPT ![r].tag = t]
    /\ UNCHANGED <<hist, today, cache, memo, start>>

\* Mutant: the horizon is memoised whatever the fetch returned.
MemoAlways(tag, w, docs) ==
    IF tag = None THEN memo ELSE [tag |-> tag, window |-> w, events |-> docs]

\* "if documents: expansion_cache.put(key, events)".
Memo(tag, w, docs) ==
    IF tag = None \/ docs \in {None, Empty} THEN memo
    ELSE [tag |-> tag, window |-> w, events |-> docs]

Memoised(r) == local[r].tag # None /\ memo.tag = local[r].tag /\ memo.window = Horizon(r)

\* The grid has its documents and `c` is the cache: a month that is not the
\* current one is done, the current one needs the horizon, from the memo, from
\* the cache or from the backend.
AfterGrid(r, c, docs) ==
    LET cached == Lookup(c, local[r].tag, Horizon(r))
        Shows(horizon) == /\ Goto(r, "page")
                          /\ local' = [local EXCEPT ![r].fetched = None, ![r].grid = docs,
                                                    ![r].horizon = horizon]
    IN  \/ /\ ~local[r].current
           /\ Shows(None)
           /\ cache' = c /\ UNCHANGED memo
        \/ /\ local[r].current /\ Memoised(r)
           /\ Shows(memo.events)
           /\ cache' = c /\ UNCHANGED memo
        \/ /\ local[r].current /\ ~Memoised(r) /\ cached # None
           /\ Shows(cached)
           /\ cache' = Touch(c, Horizon(r))
           /\ memo' = Memo(local[r].tag, Horizon(r), cached)
        \/ /\ local[r].current /\ ~Memoised(r) /\ cached = None
           /\ Goto(r, "horizon")
           /\ local' = [local EXCEPT ![r].fetched = None, ![r].grid = docs]
           /\ cache' = c /\ UNCHANGED memo

GridHit(r) ==
    LET docs == Lookup(cache, local[r].tag, Grid(r)) IN
    /\ pc[r] = "tagged"
    /\ docs # None
    /\ AfterGrid(r, Touch(cache, Grid(r)), docs)
    /\ UNCHANGED <<hist, today, start>>

GridMiss(r) ==
    /\ pc[r] = "tagged"
    /\ Lookup(cache, local[r].tag, Grid(r)) = None
    /\ Goto(r, "grid")
    /\ UNCHANGED <<hist, today, cache, memo, local, start>>

\* The backend answers the REPORT of one window.
Answered(r, from, to) ==
    /\ pc[r] = from
    /\ Goto(r, to)
    /\ \E docs \in Report : local' = [local EXCEPT ![r].fetched = docs]
    /\ UNCHANGED <<hist, today, cache, memo, start>>

GridAnswered(r) == Answered(r, "grid", "gridDone")
HorizonAnswered(r) == Answered(r, "horizon", "horizonDone")

\* The cache once the documents of a window are fetched, or not.
Fetched(r, w) ==
    IF local[r].fetched = None THEN cache ELSE Put(cache, local[r].tag, w, local[r].fetched)

GridStored(r) ==
    /\ pc[r] = "gridDone"
    /\ AfterGrid(r, Fetched(r, Grid(r)), local[r].fetched)
    /\ UNCHANGED <<hist, today, start>>

HorizonStored(r) ==
    /\ pc[r] = "horizonDone"
    /\ Goto(r, "page")
    /\ local' = [local EXCEPT ![r].fetched = None, ![r].horizon = local[r].fetched]
    /\ cache' = Fetched(r, Horizon(r))
    /\ memo' = Memo(local[r].tag, Horizon(r), local[r].fetched)
    /\ UNCHANGED <<hist, today, start>>

\* The page is sent.
Close(r) ==
    /\ pc[r] = "page"
    /\ Goto(r, "idle")
    /\ local' = [local EXCEPT ![r] = NoLocals]
    /\ start' = [start EXCEPT ![r] = 0]
    /\ UNCHANGED <<hist, today, cache, memo>>

View(r) ==
    \/ \E m \in Month : Open(r, m)
    \/ CtagAnswered(r) \/ GridHit(r) \/ GridMiss(r)
    \/ GridAnswered(r) \/ GridStored(r)
    \/ HorizonAnswered(r) \/ HorizonStored(r)
    \/ Close(r)

Next ==
    \/ \E c \in Content : Write(c)
    \/ MonthTurns \/ Restart
    \/ \E r \in Reader : View(r)

Spec == Init /\ [][Next]_vars
-----------------------------------------------------------------------------
(* Properties.                                                             *)

\* A page shows the collection as it was at some time after the request came
\* in: whatever a client wrote before is there, and so is every page before it,
\* whoever filled the caches and under whichever tag.  (A window whose fetch
\* failed shows None.)
PageIsFresh ==
    \A r \in Reader :
        pc[r] = "page" => {local[r].grid, local[r].horizon} \subseteq Since(start[r]) \cup {None}

\* The memo is what the collection held at its tag or later, and never what a
\* failed fetch left: that would hide the countdowns until the next write
\* (viewer.ExpansionCache, web._expand_horizon).
MemoIsReal == memo.tag # None => memo.events # None /\ Held(memo.tag, memo.events)

\* caldav.py:274, "Returns None if the fetch failed, which an empty list would
\* not distinguish from a genuinely empty calendar - and caching a failure
\* would keep the calendar looking empty until the collection next changed":
\* what is cached under a tag, the collection held at that tag or later.
FailuresAreNotCached ==
    \A w \in Window : Held(cache.tag, cache.docs[w])
=============================================================================
