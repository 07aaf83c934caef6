-------------------------------- MODULE Grid --------------------------------
(***************************************************************************)
(* app/viewer.py: from the components the backend returned to the cells of *)
(* a month grid and the countdowns.  An instant is a UTC time in ticks, a  *)
(* wall time is what the clock of the display zone shows at it.  The code  *)
(* compares, sorts and takes the dates of wall times.                      *)
(***************************************************************************)
EXTENDS Integers, FiniteSets, SequencesExt

CONSTANTS
    Day,            \* ticks in a day
    Week,           \* days in a week; day 0 is a Sunday
    LastMonth,      \* months are counted from the year 0
    MonthStart,     \* their first days, and the day after the last of them
    YearMonths,     \* months in a year
    Summers,        \* the instants at which each summer time starts and ends
    Shift,          \* ticks the clock is put forward by, one hour
    MinSpan,        \* settings.countdown_min_span
    Horizon,        \* settings.countdown_days
    NoUid           \* the empty UID

\* The clock never changes at, from or to midnight, and a time it skips is read
\* as one of the same day.  Between two summers there is at least a day.
ASSUME GridAssumption ==
    /\ {Day, Week, YearMonths, Shift} \subseteq Nat \ {0}
    /\ {LastMonth, MinSpan, Horizon} \subseteq Nat
    /\ MonthStart \in [0..LastMonth + 1 -> Nat] /\ MonthStart[0] = 0
    /\ \A m \in 0..LastMonth : MonthStart[m] < MonthStart[m + 1]
    /\ Summers \subseteq [spring : Nat, autumn : Nat]
    /\ \A s \in Summers :
           /\ s.spring + Shift < s.autumn
           /\ \A t \in {s.spring, s.autumn} : t % Day # 0 /\ (t % Day) + Shift < Day
           /\ (s.spring % Day) + 2 * Shift <= Day
           /\ \A t \in Summers \ {s} : s.autumn + Day <= t.spring \/ t.autumn + Day <= s.spring

SummerTime(u) == \E s \in Summers : s.spring <= u /\ u < s.autumn

Wall(u) == IF SummerTime(u) THEN u + Shift ELSE u

\* astimezone(UTC) with fold = 0: a wall time the clock skips is read with the
\* offset from before the change, and of one it shows twice the first is meant.
Utc(w) == IF SummerTime(w - Shift) THEN w - Shift ELSE w

DateOf(w) == w \div Day

-----------------------------------------------------------------------------
(* Components.  DTSTART is a date, a UTC time or a wall time.  `ends` says   *)
(* whether `end` is a DTEND of the same type, a DURATION or not there, and   *)
(* `times` how often a weekly rule repeats the component.                    *)

\* _as_datetime()
AsDatetime(type, value) ==
    CASE type = "date"  -> value * Day
      [] type = "utc"   -> Wall(value)
      [] type = "local" -> value

\* _component_to_event()
ToEvent(c) ==
    LET start == AsDatetime(c.type, c.start) IN
    [uid   |-> c.uid,
     start |-> start,
     end   |-> CASE c.ends = "dtend"    -> AsDatetime(c.type, c.end)
                 [] c.ends = "duration" -> start + c.end
                 [] c.ends = "none"     -> IF c.type = "date" THEN start + Day ELSE start]

\* The instants a component starts and ends at.
Instant(type, value) == IF type = "utc" THEN value ELSE Utc(AsDatetime(type, value))
Starts(c) == Instant(c.type, c.start)
Ends(c) == IF c.ends = "dtend" THEN Instant(c.type, c.end) ELSE Utc(ToEvent(c).end)

\* recurring_ical_events: the occurrences of a component ...
Occurrences(c) ==
    LET period == IF c.type = "date" THEN Week ELSE Week * Day
        moved(n) == [c EXCEPT !.start = @ + n * period, !.end = IF c.ends = "dtend" THEN @ + n * period ELSE @]
    IN {moved(n) : n \in 0..c.times - 1}

\* ... and whether one overlaps the instants from lo up to hi.
Overlaps(c, lo, hi) ==
    IF Starts(c) = Ends(c) THEN lo <= Starts(c) /\ Starts(c) < hi
    ELSE \E s, e \in {Starts(c), Ends(c)} : s < e /\ s < hi /\ lo < e

\* The REPORT's time-range filter: the server returns the whole document if an
\* occurrence of it falls in the range.
Matches(c, lo, hi) == \E o \in Occurrences(c) : Overlaps(o, lo, hi)

\* fetch_window() for a window of days.
FetchWindow(components, first, last) ==
    {c \in components : Matches(c, Utc(first * Day), Utc((last + 1) * Day))}

\* expand_events() for a window of days: the order of events that start
\* together is left open.
ExpandEvents(components, first, last) ==
    {ToEvent(o) : o \in {o \in UNION {Occurrences(c) : c \in components} :
                             Overlaps(o, Utc(first * Day), Utc((last + 1) * Day))}}

SortedByStart(events) ==
    CHOOSE s \in SetToSeqs(events) : \A i, j \in DOMAIN s : i < j => s[i].start <= s[j].start

-----------------------------------------------------------------------------
(* Events.                                                                 *)

StartDate(e) == DateOf(e.start)

\* An end of exactly midnight belongs to the previous day.
EndDate(e) == IF e.end <= e.start THEN StartDate(e) ELSE DateOf(e.end - 1)

Dates(e) == StartDate(e)..EndDate(e)

DaySpan(e) == EndDate(e) - StartDate(e) + 1

GroupByDate(events, day) == {e \in events : day \in Dates(e)}

\* month_weeks(): whole weeks.
Sunday(d) == d - (d % Week)
FirstDate(m) == Sunday(MonthStart[m])
LastDate(m) == Sunday(MonthStart[m + 1] - 1) + Week - 1

\* calendar_view(): the documents of a window, expanded over the same window.
WindowEvents(components, first, last) == ExpandEvents(FetchWindow(components, first, last), first, last)

MonthEvents(components, m) == WindowEvents(components, FirstDate(m), LastDate(m))

\* Mutant: events without a UID are taken for one series.
IdentityOrNone(e) == {e.uid}

\* An empty UID is not an identity.
Identity(e) == {e.uid} \ {NoUid}

\* countdowns(): one event of the loop.  The limit is only tested after an event
\* was added.
Visit(acc, e, through, limit) ==
    IF \/ acc.found # <<>> /\ Len(acc.found) = limit
       \/ DaySpan(e) < MinSpan \/ StartDate(e) <= through
       \/ e.uid \in acc.seen
    THEN acc
    ELSE [found |-> Append(acc.found, e), seen |-> acc.seen \cup Identity(e)]

Countdowns(events, through, limit) ==
    LET after[i \in 0..Len(events)] ==
            IF i = 0 THEN [found |-> <<>>, seen |-> {}] ELSE Visit(after[i - 1], events[i], through, limit)
    IN after[Len(events)].found

\* calendar_view(): those of the horizon after the grid of month m.
MonthCountdowns(components, m, limit) ==
    Countdowns(SortedByStart(WindowEvents(components, LastDate(m) + 1, LastDate(m) + Horizon)), LastDate(m), limit)
=============================================================================
