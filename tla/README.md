# Verification of community-calendar-oauth-proxy

TLA+ specifications of the proxy in `src/app/`, the TLC configurations that
check them on small instances, and theorems about them that TLAPS proves for
every instance. Paths below are relative to the repository's `src/` root (for
example `app/passwords.py:155`).

1. [The system](#the-system): inventory, state, interactions, what is hard
2. [Modules](#modules): which module models what, and how it corresponds to the code
3. [Runs](#runs): what TLC checks, with which bounds, and what it shows
4. [Fairness](#fairness)
5. [Theorems](#theorems): what is proved, from what, along which argument
6. [Findings](#findings)
7. [What is left out](#what-is-left-out)
8. [Plan](#plan)

## The system

One Python process (FastAPI on one asyncio event loop, with a pool of worker
threads) stands between browsers, CalDAV clients and feed subscribers on one
side, and a Radicale server that holds one shared calendar collection on the
other. Every user is mapped to the same Radicale principal.

| Component | State | Operations | Talks to |
| --- | --- | --- | --- |
| `PasswordStore` (`app/passwords.py`) | rows of `app_passwords`; `_cache` (username, secret) -> expiry; `_last_used_written` | `create`, `verify`, `_touch`, `revoke`, `invalidate_cache_for`, `get`, `list_for_user` | `Database`; called from worker threads (`verify`, `create`) and from the event loop (`revoke`, lists) |
| `RateLimiter` (`app/passwords.py`) | key -> times of recent failures | `is_blocked`, `record_failure`, `reset` | the DAV proxy and the feed route, one instance each |
| `Database` (`app/db.py`) | one SQLite connection shared by every thread, a lock, the connection's implicit transaction | `cursor()` block: lock, statements, commit or rollback, release | both stores |
| DAV proxy (`app/dav_proxy.py`) | none of its own | `dav`: limiter, `verify` in a thread, failure or reset, body up to a limit, backend | limiter, `PasswordStore`, Radicale |
| `FeedStore` (`app/feeds.py`) | rows of `ics_feeds`; `_last_used_written` | `create`, `revoke`, `lookup`, `touch`, `get`, `list_for_user` | `Database`, on the event loop |
| Feed route and `CollectionIcsCache` (`app/web.py`, `app/caldav.py`) | one body with its tag | `ics_feed`: limiter, lookup, tag, `If-None-Match`, cache or fetch, touch | `FeedStore`, limiter, Radicale |
| Calendar page, `CalendarCache`, `ExpansionCache` (`app/web.py`, `app/caldav.py`, `app/viewer.py`) | documents per window under one tag, in LRU order; one expanded window | `calendar_view`: tag, grid window, horizon window, memo | Radicale |
| Calendar bootstrap (`app/caldav.py`) | none of its own | `ensure_collection`, `ensure_collection_with_retry`, at start-up | Radicale |
| Adding events (`app/events.py`, `create_event`, `put_event`) | none; the collection is Radicale's | parse the form, build the document, `PUT`, redirect to the month | Radicale, session |
| Sign-in, session, CSRF (`app/auth.py`) | the signed session cookie, in the browser: user, token, pending logins, a new secret | `login`, `callback`, `logout`, `csrf_token`, `verify_csrf` | the OIDC provider; every page |
| Credential pages (`app/web.py`) | none of their own | both pages, create and revoke on each | session, `PasswordStore`, `FeedStore` |
| Event expansion, month grid, countdowns (`app/viewer.py`) | none | functions from components to events, days and countdowns | recurring_ical_events |
| Assembly (`app/main.py`), settings, templates, health check, development tools, CI | - | - | - |

What is hard here, and what would make it correct:

- **Threads without a lock.** `_cache` and `_last_used_written` are plain
  dictionaries that worker threads and the event loop touch together. A `verify()`
  spends a long time in argon2 between its SELECT and its cache insert, and a
  revocation may fall in between. Correct: a secret works for its owner only, and
  for no longer than the cache's lifetime after its revocation; a use that the
  throttle hides is one the database knows of.
- **One transaction for everybody.** The shared connection has one implicit
  transaction, so one thread's commit would land another's statements and one
  thread's rollback discard them. Correct: a block is atomic, its outcome is
  what its caller is told, and no error path keeps the lock or leaves work pending.
- **Checks before an await, actions after it.** The DAV handler asks the limiter,
  waits for a thread, then records the failure. Correct: how far a burst gets past the
  limit is bounded, a lockout ends, and nothing that is refused reaches the backend.
- **A tag read before the data.** Both caches file what the backend returns under a
  tag that was read one or two awaits earlier, while clients write and other
  handlers fill the same cache. Correct: nobody is shown a calendar older than
  their own request, and a subscriber answered 304 keeps a copy that is current.
- **Restarts and lost answers.** Dictionaries vanish and rows stay; a request may
  be applied though its answer is lost. Correct: caps, revocations and `last_used_at`
  survive; the proxy sends a request to the backend at most once; an event that was called added is there, and every copy
  of it is one POST's.
- **State in the browser.** The session travels with each request and each answer replaces all
  of it, so requests of two tabs overwrite each other's changes, a logout included. Forms stay open
  while the browser changes accounts. Correct: a form acts for the account its page was rendered
  for, a secret is shown to its owner, and what is only true of requests one at a time is said to be so.
- **Four readings of one time.** A form's text is a wall time, stored in UTC (or as a date with
  an exclusive end), queried by a window of instants and drawn by the dates of wall times. Correct: an
  event is drawn on the days it was entered for, on both sides of every clock change.

`PROJECT.json` lists each hazard at its line, with the properties aimed at it.

## Modules

```
CredentialStore            what a table of credentials promises
  ^ implemented by
  |-- Transactions         the locked connection: each cursor() block is atomic
AppPasswords               passwords, cache, throttle, revocation (blocks atomic)
RateLimiter  <-- DavGate, IcsFeed (feed links and the feed route, blocks atomic)
Collection   <-- CalendarViews, IcsFeed
Bootstrap                  on its own: it runs before everything else
Session                    the browser's cookie, the pages and forms of auth.py and web.py
Grid         <-- AddEvent  the display's calendar; the form, the PUT, and CalDAV clients' events
```

Every `X` that is checked has an `MCX` that extends it with TLC's symmetry sets, and
one or more `.cfg` files; the theorems about `X` are in `XProofs`. A definition headed
"Mutant" is a plausible bug: replacing the definition after it by the mutant
makes TLC refute a property, which shows that the property can fail.

**CredentialStore** is the abstract specification: rows have an owner, an account
creates them up to a cap in one indivisible step, and revokes them for good.

**Transactions** (`app/db.py`, with the statements of both stores) models the lock
(`lock`), the committed file (`owner`, `revoked`) and what the connection sees
inside its transaction (`txOwner`, `txRevoked`). A thread's `cursor()` block is its own
sequence of steps: acquire, the statements of its method (`Count` and `Insert`
for create, `Update` for revoke, `Read` for everything else), `Commit` or, when a statement or the commit
raises or the cap is reached, `Rollback`, then `Release`. `create()` has a second block: it ends with
`self.get(...)` (`app/passwords.py:116`, `app/feeds.py:119`), so `ReadBack` lets go of the lock
and waits for it again under the method `record`, whose read may raise with the row already committed. `Crash` drops the open
transaction. A `Read` block stands for `get`, `list_for_user`, `lookup` and the SELECT of
`verify`; the UPDATE of `last_used_at` changes no column of this module, so it is one as well.
`Store == INSTANCE CredentialStore` maps the committed columns.

**AppPasswords** (`app/passwords.py`) uses what Transactions shows: a block is one step.
Everything between two such steps that another thread could interleave with is an
action of its own: the lookup in `_cache`, the clock read after it, the pop of an
expired entry, the SELECT, the match, the insert, and the four steps of `_touch`. The
SELECT and the UPDATE may raise (`VerifyRaises`, `TouchRaises`), the latter after the mark was made;
`unrecorded` remembers that, for the properties.
`create()` runs in a worker thread too: `Create` is its count and INSERT, `CreateReturns` and `CreateRaises` the end of
its `get()`, and a secret is `known`, and can be sent by anybody, only when it returned; its row can be revoked before.
`revoke()` runs on the event loop: the UPDATE, then the
comprehension over the live dictionary (`InvalidateBegin`, `ScanNext`, `ScanEnd`), then the
pops. CPython raises when the dictionary changes size under the iterator, or when more keys turn
up than it started with (`ScanRaise`), and an insertion may compact the table and
move entries behind the iterator (`skipped` in `StoreEntry`, which allows any subset:
more than CPython does). A secret and the row its hash is filed
under name each other, because secrets never repeat.

**RateLimiter** has the window as operators on ages: the code compares only `now - t`
with the window, so all ages at or past it are one. `reset` is `<<>>`.

**DavGate** (`app/dav_proxy.py`) lets requests interleave at each await: the thread that
verifies (its verdict is arbitrary here; it is AppPasswords' subject), each body
chunk, the backend applying the request, and its answer, which may be lost after
the request was applied.

**Collection** is the backend as the caches see it: a history of contents, and a tag that
is a function of the contents. `hist` keeps the whole history so that properties
can speak of earlier versions; the code never sees it. `Reverts` says whether a write
may restore contents the collection had before (see Findings).

**CalendarViews** (`calendar_view`, `fetch_ctag`, `fetch_window`, `CalendarCache`,
`ExpansionCache`) has any number of page requests, each of which reads the tag, then
the grid's window and, for the current month, the horizon's window or its memo; between the
awaits the caches belong to whoever runs. `File`, `Put`, `Lookup` and `Touch` are
the cache's methods, including the order of the dictionary and the eviction
of the oldest. The month turns, and the process restarts. Documents
are abstracted to the contents of the collection they came from.

**IcsFeed** (`ics_feed`, `FeedStore`, `CollectionIcsCache`) has subscribers that keep
the last body with its ETag and send it as `If-None-Match`. The
first segment of the route (limiter, lookup, failure or reset) contains no await
and is one step, as is `create()`, whose two blocks follow each other on the event loop; then come the tag, the 304, the cache, the
fetch, and `touch()` before the answer. The UPDATE of `touch()` may
raise, after its mark was made: then the poll is answered 500. `start`, `served` and `raised` are history,
for the properties.

**Bootstrap** (`ensure_collection`, `ensure_collection_with_retry`) sends one request per
action, each of which may also fail in transport, applied or not. `Applies` and `Conflicts` are what the
backend does with MKCOL, MKCALENDAR and PROPPATCH. `refused` records whether the backend answered with
a status nothing in the model explains (a 503, a 207 that nobody can read, a 403), which the code logs and does not retry.

**Session** (`app/auth.py`, the page routes of `app/web.py`) is one browser with tabs that share
`jar`, its cookie. A request carries the cookie of its moment (`sess`, `request.session`), an answer
(`answer`) carries a cookie back if the session was or is not empty (Starlette's
`SessionMiddleware`), and `Receive` replaces the whole jar with it. A GET is handled in the step that
sends it, because its handler reads nothing shared but the cookie; a form is sent (`Submit`) and acts later
(`CreateCredential`, `CreateEvent`, `Revoke`, ...). Any request or answer may be lost (`Lose`), after the row
is committed too. `items` are the rows and events, each with the account the form's page was rendered for
(`reader`, which the code never stores). `overlapped`, `lost`, `current`, `quiet` and `out` record
what happened, for the properties that hold of requests one at a time. A link that was sent from outside, a
reload and the redirect's own GET are all `Visits`.

**Grid** (`app/viewer.py`, and the two windows of `calendar_view`) has a clock that is put forward and back again
any number of times (`Summers`). `Wall` and `Utc` are zoneinfo's two conversions with `fold = 0`: a
skipped wall time is read with the offset before the change, a repeated one as the first. `Overlaps`
and `Occurrences` stand for recurring_ical_events, `Matches` for the REPORT's time-range filter at the server,
and `WindowEvents` is `fetch_window()` (`FetchWindow`, what the server returns of the collection) with its expansion (`ExpandEvents`) over the same window. `SortedByStart` is some order by start: ties are broken by
title, which nothing else depends on. `Visit` is one event of the loop in `countdowns`, whose limit is tested
after the append, and `Countdowns` the loop. Months start on the days `MonthStart` says, so that they differ in length.

**AddEvent** (`app/events.py`, `create_event`, `put_event`) is that form: `Valid` and `Overflows` say which are
accepted, refused and raise, `BuildEvent` what is stored, `MonthOfStart` where the user is sent. Each `Post` is
one handler of a POST. Nothing in the code keeps a form from being POSTed again, after an error, after it
was added (Back, a lost 303) or twice at once (a double click), and each POST takes a new UID: any number of POSTs may follow
each other or overlap, with equal forms or others. A PUT is under way (`sent`) until the backend stores it (`BackendStores`) or it
is gone (`Drop`); its handler hears 201 (`Answered`), an error status (`BackendRefuses`) or nothing usable (`AnswerLost`),
and in the last case the PUT may be stored already, never, or later, when the user has long been told to try again. CalDAV clients add events with DTEND, DURATION or neither, as dates, UTC
and wall times, some of them weekly.

| In the models | In the code |
| --- | --- |
| a `pc` label | a place between two awaits, or between two bytecodes where another thread may run |
| `local`, `entry`, `localNow`, `rows` | local variables of the handler or method |
| `None` | Python `None`, SQL `NULL`, a key that is not in a dictionary |
| `Restart`, `Crash` | the process dies and `lifespan` (`app/main.py:81`) runs again |
| `now`, `Tick` | the clock: one for `time.time()` and `time.monotonic()` |
| ages in `RateLimiter` | `now - t` for the times in `_hits` |
| `jar`, `sess`, `answer` | the session cookie in the browser, in a request, in a response |
| `hist`, `start`, `served`, `shown`, `overlapped`, `asked`, `answer` of AddEvent | nothing: they record what happened, for the properties |

## Runs

All runs check deadlock. A run whose specification states no fairness checks safety only.

| Run | Bounds | What it asks and shows |
| --- | --- | --- |
| `passwords` | 2 users, 1 secret and a wrong one, 2 worker threads, TTL 2, throttle 1, clock 0..2 | Two `verify()` calls race each other, `create()`'s second block, `revoke()`, the clock, raising statements and restarts. A secret works for its owner only (`OnlyTheOwnerIsAccepted`); a revoked one is accepted for less than the TTL (`StaleEntriesAreBounded`, `NoLateAcceptance`); the mark that throttles is of an UPDATE that reached the database, is about to, or raised (`MarksReachTheDatabase`); and `last_used_at` never moves back. Two threads are what every race in the module needs, two users what a wrong owner needs; TTL 2 and two ticks let an entry be made, be revoked and be used at the very second it expires. With one secret the scan of `revoke()` meets one entry; the theorems cover any number. |
| `revoke_raises` | as little as the counterexample needs | Violation of `FailedRevokeLeavesNoEntry`: see Findings. |
| `transactions` | 3 threads, 1 account, 2 rows, cap 1 | Creates and revokes race at the cap while statements fail and the process crashes. Exclusion, nothing left behind in the connection, outcomes that tell what the file holds (`OutcomesAreTrue`, also of a create whose `get()` raises after the commit), the refinement (and with it the cap), and `LockIsReleased` under fairness. Three threads give a waiting queue behind a failing block. |
| `dav_gate` | 3 requests, 1 key, limit 2, window 2, 1 body chunk | `BurstIsBounded`: the excess over the limit is less than the number of requests in flight. `AppliedAtMostOnce`: the backend carries out no request twice, and none that was refused. `LockoutEnds` under fairness of the clock alone. |
| `calendar_views` | 2 pages, 2 months (4 windows), room for 2 windows, 3 contents, 1 write | `PageIsFresh`: every window on a page is the collection at some time after the request came in. `MemoIsReal`: a failed fetch is never memoised. Two windows force evictions on each current page; the write may fall between any two reads of either page. |
| `calendar_failures` | 1 month, malformed answers | Violation of `FailuresAreNotCached`: see Findings. |
| `ics_feed_fresh` | 2 subscribers, 1 link, 3 contents, 2 writes, no clock, failing UPDATEs | `SubscriberIsFresh`: whoever is answered 200 or 304 holds the calendar as it was after the poll came in, whatever the cache, another poll or a restart did in between. The clock plays no part in it and stands still. |
| `ics_feed_links` | 1 subscriber, 2 links, cap 1, limit 2, window 2, throttle 2, clock 0..3, no writes, failing UPDATEs | `FailuresWithinLimit`: here the limiter is exact, because no await separates its check from its update. `UseIsRecorded`: `last_used_at`, or an UPDATE of it that raised, is less than a throttle older than the last answer, across restarts. The limiter, the rows and the marks are each read and written in one step, so a second poll in flight adds no case (`ics_feed_fresh` has two, and the theorems any number); three ticks let a throttle period pass after an UPDATE that raised. |
| `bootstrap` | 3 attempts, 2 titles, a backend that refuses, restarts with another title | `TrueMeansReady`: True means the calendar is there under its title unless something was refused, whichever earlier attempts were applied and lost. `GivesUpAfterAll`: False means that every attempt failed in transport. `BootstrapEnds`: it returns, though the backend be down for ever. Three attempts give a first, a middle and a last one. |
| `session` | 2 tabs, 2 accounts, 2 tokens, 1 item, cap 1, forms for a password and for an event | `FormsActForTheirReader`: whatever overlaps, is late or gets lost, a form acts for the account of its page, because a sign-in clears the token. `SecretsReachTheirOwner`. One request at a time, a secret is shown once (`SecretsShownOnce`) and every form rendered since the last sign-in works (`OpenFormsWork`). `QuietLogoutHolds`: a logout that overlaps with nothing holds. Two tabs are what a race takes; a second account is what makes an old form wrong. With two tokens a page that needs a third while both are borne is not explored; the theorems cover any number. |
| `add_event` | days of 6 ticks (3 hours), weeks of 2 days, months of 2 to 4 days, years of 2 months; two summers, the first from a short month into a long one; 2 POSTs, 8 form times (midnights, the hour skipped in each spring, the repeated one, the first and last of the accepted range, beyond it), 3 times of clients; 2 components | `EventsFillTheirDays`: each month's grid draws an event on the days it was entered for and no other. `OnlySkippedTimesTurn`: only an event entered into the skipped hour can be stored with its end not after its start. `RedirectShowsIt`. `CopiesAreAccountedFor`: every copy in the collection is due to one POST that was answered with "Added", lost its answer or is under way. `CountdownsAreTheNearest` (limits 0, 1 and 2). Two POSTs overlap or follow each other. The calendar is small so that every boundary (midnight, week, month, year, clock change) lies near another. |
| `countdown_limit` | those of `add_event` | Violation of `AtMostLimitCountdowns`: see Findings. |

Symmetry is used in runs without temporal properties to check, and in those whose only temporal
properties are refinements of a specification without fairness. Time bounds (`MaxTime`),
write bounds (`MaxWrites`) and `Months` are guards of `Tick`, `Changes` and `MonthTurns`;
the theorems hold for every value of them.

## Fairness

- `Transactions!FairSpec`: weak fairness of `Work(t)`, the steps of a thread that
  holds the lock. The operating system schedules runnable threads, and no statement inside a
  block waits for anything but SQLite, which returns or raises. Nothing is assumed of
  threads that wait for the lock: `threading.Lock` promises them no order, and no property
  says that every waiter gets in.
- `DavGate!FairSpec`: weak fairness of `Tick`. Time passes; nothing is assumed of
  clients, threads or the backend.

- `Bootstrap!FairSpec`: weak fairness of `Ensure`, the process's own steps. Every request is
  answered or fails by its timeout of 30 s (`app/main.py:83`). Nothing is assumed of the backend; a
  process that is restarted for ever is excused.

The other specifications state no fairness and have no liveness property.

## Theorems

Each theorem holds for every value of the constants that the named assumptions
allow: any number of users, secrets, threads, rows, pages, windows, subscribers, writes.

**AppPasswordsProofs** (`ConstantsAssumption`). `TypeCorrect`; `OwnerCorrect`,
`StalenessBounded`, `AcceptanceBounded`, `MarksStamped`, `LastUsedMonotonic`.
None of the invariants is inductive alone. The strengthening says, for each place in
`verify()`, what the locals still have to do with the shared state: the rows a
thread holds belong to its user and, if they have been revoked since, were revoked no earlier
than the clock it read (`CallInv`, `TimeInv`). From this an entry inserted
after a revocation expires within the TTL of it, because its expiry counts from the clock read
*before* the SELECT. `MarksReachTheDatabase` is about the last mark only: the thread
that made it stamps a later time or raises, and any other that stamps meanwhile does no harm.

**TransactionsProofs** (`TransactionsAssumption`). `TypeCorrect`, `Exclusion`,
`ConnectionClean`, `OutcomesCorrect`, `StoreImplemented`, `CapHolds`. The invariant
`IInv` says for each place in a block how the connection's view differs from
the file: not at all, or by the one statement of the thread that holds the lock (`TxAt`),
whose count of active rows is still right when it inserts. A COMMIT is
then one abstract step, and everything else stutters. `OutcomesCorrect` speaks of both blocks of `create()`: one that raises
in the first has left no row, and from the commit on its row is in the file, whatever becomes of the second.

**CalendarViewsProofs** (`CollectionAssumption`, `ViewsAssumption`): `Fresh` (the property `PageIsFresh`, assuming `~Reverts` and `~Garbles`), and with neither
assumption `CacheIsTagged`, `MemoReal` (`MemoIsReal`) and `TypeCorrect`. `CacheIsTagged` is what the code achieves of
`FailuresAreNotCached`, which `calendar_failures` refutes: whatever tag the cache is under, whichever
pages overlap and whichever fetches fail, every window holds documents of contents that the collection
has had since it bore that tag, or else the empty list of a malformed answer; no failed fetch is ever filed. The invariant says
that what the cache and the memo file under a tag the collection held at that tag or later, a malformed answer apart
(`CacheOK`), and that a handler's tag is from after its start and its documents from
after its tag (`HandlerOK`). Freshness, of pages and of subscribers, rests on one more fact: if no write restores earlier
contents, a tag that was read at or after version *v* names a version at or after *v* (`TagsAreVersions`,
`SinceChain`; IcsFeedProofs repeats these few lemmas, because its module has other variables). It needs both assumptions:
without either, a run violates `PageIsFresh`. For `TypeCorrect` the order of the cache lists each cached
window once (`KeysOK`), so that a new window evicts exactly one when it is one too many and the cache
stays within `MaxWindows`.

**IcsFeedProofs** (`CollectionAssumption`, `FeedAssumption`, `LimiterAssumption`): `SubscribersFresh` (assuming `~Reverts`) along the same argument,
with the subscriber's own copy in place of a window; `UsesRecorded`, because a
mark is the time of an UPDATE that the row shows or that raised (`MarkIsAnUpdate`); `FailuresBounded` (`FailuresWithinLimit`), because the
limiter is asked and told in one segment; `TypeCorrect`. The lemmas about the
limiter are those of DavGateProofs, whose module has other variables.

**BootstrapProofs** (`BootstrapAssumption`): `TypeCorrect`, `TrueIsReady`, `FalseIsUnreachable`. The invariant
says where an attempt that met no refusal stands in relation to the backend (`Known`): at MKCALENDAR
there is no collection, at MKCOL no parent either, and so on; earlier attempts do not matter,
because each one probes first.

**DavGateProofs** (`LimiterAssumption`, `GateAssumption`): `TypeCorrect`, `AppliedOnce`, `BurstBounded`. What `Prune`
leaves is counted by `Fresh`, the cardinality of the ages that still count, so the lemmas about the limiter
(`PruneKeepsFresh`, `RecordAddsOne`, `OlderIsNoFresher`) speak of sets. The invariant `Budget` adds to it the
verifications under way: admission happens below the limit, a failure moves one from the second
part to the first, everything else only takes away.

**SessionProofs** (`SessionAssumption`, `NoneAssumption`): `TypeCorrect`, `FormsAct`, `SecretsReach`, `QuietLogout`, `OpenForms`, `SecretsOnce`.
The invariant is about pairs of things that bear a CSRF token (the jar, pages, requests, answers,
forms): two with the same token have the same account (`TokensPair`). A sign-in leaves a session without
a token, so it cannot join two accounts, and a new token is one that nothing bears. What holds a secret
belongs to its owner (`SecretsPair`); `QuietInv` follows a logout that overlaps with nothing to the next sign-in.
`OpenForms` and `SecretsOnce` are about requests one at a time. `Serial` says what one request under way
has to do with the jar (a form was sent with the jar's session, an answer keeps its account and token or switches and
shows no form); `ShownOnce` and `OnItsWay` that a secret is displayed by an answer whose session has given it up, and that, with
no answer lost, the jar holds one only while a tab is being redirected to the page that displays it.

**AddEventProofs** (`GridAssumption`, `AddEventAssumption`): `EventsAreDrawnOnTheirDays`, `RedirectLeadsToTheEvent`,
`OnlySkippedTimesTurnRound`, `CopiesAccounted`, `CountdownsAreNearest`, `TypeCorrect`, and of the operators
`StoredDate`, `WindowFinds`, `CountdownsFind`. They hold for every zone, calendar, collection and number of forms, and the
argument has four parts.

1. *The clock.* Wall time is not monotonic, but midnights are `Regular`: no change skips or repeats one. So
   the instants before and from `Utc(d * Day)` on are exactly those that show a date before and from `d` on
   (`RegularTimes`, `MidnightTimes`), dates follow each other (`ClockChange`, `DatesIncrease`), and what is stored of a
   typed time is shown on its date (`StoredDate`).
2. *Events.* The days an event is drawn on run from the date of its first instant to that of its last (`Span`), for each shape a
   component can have (`ShapesOnTheirDays`), also if it was turned round in a skipped hour; instants lie on every day in between (`SpanIsTouched`).
   The window of a query over whole days finds what is drawn on one of them (`WindowFinds`).
3. *The steps.* `IInv` adds to the types that each component, stored or on its way, came from a client, or from an accepted form whose days
   `asked` still remembers (`StoredInv`), and that no two share a form's UID (`UidInv`); that the draft of a POST is such a component,
   stored once it was called added, and its month the form's (`DraftInv`); that each POST waits for its own (`WaitInv`); and what each
   answer says of the collection (`AnswerInv`). None of the properties is inductive: they say nothing of what is about to be stored, and PUTs
   arrive after their handlers have given up.
4. *The countdowns.* `LoopInv` says of the events visited so far which were chosen, and of each other that counts that the list was full, or its
   identity taken, when no chosen event was later (`PassedOver`); `VisitKeepsInv` shows it for one event. `Induction` over a set of
   numbers carries it through the loop, and shows that finite sets of events can be sorted.

A zone violates `GridAssumption` if it changes its clock at midnight or from or to it (the Azores, Lebanon), if a summer lasts
no longer than the change, or if the next starts within a day; changes other than by summer time are not modelled. A zone that never changes its clock has no `Summers`.

Beyond the prover's reach here, and left to TLC: liveness under fairness
(`LockIsReleased`, `LockoutEnds`, `BootstrapEnds`). Every other property of a passing run is a theorem. The library's
induction theorems take an operator as a parameter, which the provers cannot instantiate; where the countdowns
need induction, it is over a set of numbers, by the least number outside it.

## Findings

- **A revocation can fail half-way** (`revoke_raises`, `app/passwords.py:150`).
  `invalidate_cache_for` walks the live dictionary while worker threads insert into it. CPython raises
  `RuntimeError`; the row is revoked, nothing is removed from the cache, the user sees an error,
  and revoking again does nothing because the row is already revoked.
- **A malformed answer is cached as an empty calendar** (`calendar_failures`, `app/caldav.py:184`),
  against the intention stated at `app/caldav.py:274`.
- **A countdown limit of 0 is no limit** (`countdown_limit`, `app/viewer.py:199`). "Most countdowns shown at once" say `app/config.py:93`
  and `README.md:130`; the loop appends first and compares for equality afterwards, so a limit of 0 is never met and all countdowns
  of the horizon are shown.

What the properties state as it is rather than refute:

- *A revocation during a `verify()`* (`app/passwords.py:182`). "A revocation clears the cache immediately"
  (`README.md:388`) is true of what the cache holds at that moment; a `verify()` that read the row before is
  still hashing and stores its entry afterwards. `StaleEntriesAreBounded` and `NoLateAcceptance` give what
  does hold: the TTL.
- *A write that restores earlier contents* (`app/caldav.py:412`, `app/web.py:366`). A page reads the tag, a client adds an
  event, the page's REPORT returns it and files it under the earlier tag; when the event is deleted again
  the tag is the earlier one again, if the backend derives it from the contents (Radicale hashes them), and pages
  show the deleted event until the next write. Hence `Reverts` in Collection and the assumption `~Reverts` of the
  two freshness theorems; with `Reverts = TRUE` TLC refutes `PageIsFresh` with two writes and one month.
- *The hour that the spring change skips* (`app/events.py:115`). The form compares wall times. In the hour
  before the change its own suggestion starts and ends at wall times that are the same instant in UTC, and a start
  half past it is stored after its end. `OnlySkippedTimesTurn` says that nothing else turns an event around, the
  repeated hour in autumn included.
- *A logout with requests in flight* (`app/auth.py:129`). Their answers bring the signed-in cookie back; and a
  logout sent with an empty cookie sends none back. Hence "quiet" in `QuietLogoutHolds`.
- *Two first pages at once* (`app/auth.py:69`) make two tokens, and the forms of the page whose cookie lost are refused with
  403: `OpenFormsWork` is stated for requests one at a time, `FormsActForTheirReader` for all.
- *An event added twice* (`app/web.py:198`, `app/web.py:227`). The CSRF token stays good and every POST makes a UID of its own, so a
  double click, Back and resubmit, or a reload after a lost 303 stores the event again. And "The calendar could not be
  updated just now. Please try again." (`app/web.py:227`) may be said of an event that is stored, or still will be. `CopiesAreAccountedFor`
  says what every copy is due to; that there is one is not promised.
- *A create that raises after its commit* (`app/passwords.py:116`, `app/feeds.py:119`). The row is read back in a block of its own.
  When that raises, the user sees an error, the row exists and counts against the cap; nobody knows a password's secret. The pages list the
  row and it can be revoked. `OutcomesAreTrue` distinguishes the two kinds of failure.
- *The limiter and the bootstrap.* The
number of "failed Basic-auth attempts allowed inside the window" (`app/config.py:64`) is exceeded by requests that are in
flight together, because the limiter is asked before the await and told after it; `BurstIsBounded` gives the excess. And
the bootstrap takes a refusal for success, without a retry: hence the `~refused` in `TrueMeansReady`.

## What is left out

- *Data.* Events, documents, XML, headers, labels, hashes and tokens are abstracted to what the
  properties tell apart. Argon2 and the CSPRNG are perfect.
- *Clocks.* One clock for `time.time()` and `time.monotonic()`; a wall clock set back
  would move `last_used_at` back, which the models do not show.
- *SQLite.* Durability and isolation are taken as SQLite documents them; `rollback()` itself does not raise, and an
  exception that is not an `Exception` (cancellation, interpreter exit) does not hit a block.
- *Limits of the abstractions.* A lost backend request is applied before its 502 or not at all; one
  that the backend applies after the client was told 502 changes no property.
  A client that sends its request again after the 502 makes a new one, which `AppliedAtMostOnce` says nothing about.
  Likewise no request of the bootstrap is applied after the next one is sent, and one that was refused something
  is outside `TrueMeansReady`. `If-None-Match: *`,
  several tags, and `max-age` are not modelled. `countdown_days > 0` is assumed (0 removes
  the horizon's steps). Tags are equal exactly when contents are. Dictionaries that only grow
  are not modelled, nor are clients that delete or change what is stored.
- *Session.* One browser; a second one shares nothing with it but the stores. The cookie does not
  expire and the signature is perfect. One-time messages (a cap was reached, an event was added) are left out: they
  travel as the secret does. Authlib's state is one pending login per tab.
- *Calendar arithmetic.* Summer times, each put forward and back by one hour, away from midnight (`GridAssumption`). In a zone whose
  change falls at midnight an event that ends at that instant may be drawn on a day too many; such zones are
  excluded, and so are zones that change their offset for good. The server's
  time-range filter (`app/caldav.py:279`) is taken to be recurring_ical_events' own test of overlap: a server that reads floating times
  and dates in another zone than the display's may miss one at the edge of a window. `shift_month`, `upcoming`, time labels and components
  that cannot be expanded are left out. A form submitted in the last hour of the year 9999 overflows (`app/events.py:105`), which
  `Raise` shows.
- *Components.* Settings, templates, health check, the
  development provider and CI hold no state worth a model.

Some properties say less than a reader may wish, and their comments say so: `PageIsFresh` and `SubscriberIsFresh` suppose that
no write restores earlier contents, `TrueMeansReady` that nothing was refused, `SecretsShownOnce` and `OpenFormsWork` requests one at a
time, `QuietLogoutHolds` a logout that overlaps with nothing.

## Plan

Done, in this order: CredentialStore and Transactions (everything rests on the
block being atomic), AppPasswords (the credential that guards the calendar),
RateLimiter and DavGate, Collection and CalendarViews, IcsFeed, Bootstrap, Session, Grid and AddEvent.

Next:

1. **AddEvent** composed with Collection, so that the redirect after a PUT is followed by the page that reads it.
2. `shift_month` and the navigation from month to month, up to the edges of the year range.

Abstract specifications worth stating beyond CredentialStore: a one-copy calendar that
CalendarViews and IcsFeed read atomically (the freshness properties as a refinement), and
a session whose requests are serial.
