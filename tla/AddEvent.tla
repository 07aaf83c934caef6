------------------------------ MODULE AddEvent ------------------------------
(***************************************************************************)
(* Adding an event from the web form: app/events.py, create_event() of     *)
(* app/web.py and put_event() of app/caldav.py.  A form is read as wall    *)
(* times of the display zone, stored as instants or dates, and drawn from  *)
(* those again.  A PUT or its answer may be lost, and a PUT may arrive when *)
(* its handler has given up on it.  Nothing stops a form from being POSTed *)
(* again, after an error, from the Back button or twice at once: the CSRF  *)
(* token stays good, and every POST makes a UID of its own.                *)
(***************************************************************************)
EXTENDS Grid

CONSTANTS
    Post,           \* POSTs of /events that may be under way together
    Uid,            \* what new_uid() may return
    Series,         \* the UID of a CalDAV client's event
    FormTimes,      \* wall times that get typed into the form
    ClientTimes,    \* instants CalDAV clients put events at
    MinYear, MaxYear,
    LastMoment,     \* datetime.max
    MaxComponents,  \* bound: components in the collection and on their way to it
    Blank, Unreadable, None

Hour == Shift
MonthOf(w) == CHOOSE m \in 0..LastMonth : DateOf(w) \in MonthStart[m]..MonthStart[m + 1] - 1
YearOf(w) == MonthOf(w) \div YearMonths
Months == (MinYear * YearMonths)..(MaxYear * YearMonths + YearMonths - 1)

ASSUME AddEventAssumption ==
    /\ {MinYear, MaxYear, LastMoment} \subseteq Nat
    /\ ClientTimes \subseteq Nat
    /\ Series \notin Uid \cup {NoUid} /\ NoUid \notin Uid
    /\ None \notin {"added", "refused", "lost"}
    /\ \A w \in FormTimes : w \in 0..LastMoment
    /\ DateOf(LastMoment) < MonthStart[LastMonth + 1]
    /\ YearOf(LastMoment) > MaxYear

VARIABLES
    stored,         \* the components in the shared collection
    sent,           \* components on their way to the backend
    pc,             \* post -> "idle", "put" while put_event() waits, "added"
    draft,          \* post -> the component of its PUT
    month,          \* post -> the month it redirects to
    asked,          \* history: UID -> the days the form asked for
    answer          \* history: UID -> how its PUT ended for the handler

postVars == <<pc, draft, month>>
vars == <<stored, sent, postVars, asked, answer>>

Component == [uid : Uid \cup {Series, NoUid}, type : {"date", "utc", "local"}, start : Nat, end : Nat,
              ends : {"dtend", "duration", "none"}, times : Nat]

Init ==
    /\ stored = {} /\ sent = {}
    /\ pc = [p \in Post |-> "idle"]
    /\ draft = [p \in Post |-> None]
    /\ month = [p \in Post |-> None]
    /\ asked = [u \in Uid |-> {}]
    /\ answer = [u \in Uid |-> None]

UidsOf(components) == {c.uid : c \in components}

-----------------------------------------------------------------------------
(* The form.                                                               *)

Forms == [texts : BOOLEAN, start : FormTimes \cup {Blank, Unreadable},
          end : FormTimes \cup {Blank, Unreadable}, allDay : BOOLEAN]

\* new_event_form() suggests the hour after the present one, which is somewhere
\* around the times that get typed.
Suggested ==
    LET start(now) == (now - (now % Hour)) + Hour
        form(now) == [texts |-> TRUE, start |-> start(now), end |-> start(now) + Hour, allDay |-> FALSE]
    IN {f \in {form(Wall(Utc(w))) : w \in FormTimes} : f.end <= LastMoment}

\* Where the event ends when the form is accepted.
EndOf(f) == IF f.end # Blank THEN f.end ELSE IF f.allDay THEN f.start ELSE f.start + Hour

\* The default duration leads past the last datetime there is.
Overflows(f) ==
    f.texts /\ f.start \in Nat /\ f.end = Blank /\ ~f.allDay /\ f.start + Hour > LastMoment

\* Mutant: an event may end the moment it starts.
InOrderOrEmpty(f) == f.start <= EndOf(f)

\* Of an all-day event only the dates matter.
InOrder(f) == IF f.allDay THEN DateOf(f.start) <= DateOf(EndOf(f)) ELSE f.start < EndOf(f)

\* parse_event_form() returns a draft.
Valid(f) ==
    /\ f.texts                                   \* a title, and nothing too long
    /\ f.start \notin {Blank, Unreadable}
    /\ f.end # Unreadable
    /\ ~Overflows(f)
    /\ \A w \in {f.start, EndOf(f)} : YearOf(w) \in MinYear..MaxYear
    /\ InOrder(f)

\* Mutant: DTEND is taken to be inclusive.
BuildEventInclusive(f, uid) ==
    [uid |-> uid, ends |-> "dtend", times |-> 1, type |-> IF f.allDay THEN "date" ELSE "utc",
     start |-> IF f.allDay THEN DateOf(f.start) ELSE Utc(f.start),
     end |-> IF f.allDay THEN DateOf(EndOf(f)) ELSE Utc(EndOf(f))]

\* build_event_ics()
BuildEvent(f, uid) ==
    [uid |-> uid, ends |-> "dtend", times |-> 1, type |-> IF f.allDay THEN "date" ELSE "utc",
     start |-> IF f.allDay THEN DateOf(f.start) ELSE Utc(f.start),
     end |-> IF f.allDay THEN DateOf(EndOf(f)) + 1 ELSE Utc(EndOf(f))]

\* Mutant: the month the event ends in.
MonthOfEnd(f) == MonthOf(EndOf(f))

\* month_of(): the month the event starts in.
MonthOfStart(f) == MonthOf(f.start)

-----------------------------------------------------------------------------
(* create_event(): one handler per POST, whatever other POSTs of the form   *)
(* are under way or were answered before.                                   *)

Submitted == Forms \cup Suggested
ValidForms == {f \in Submitted : Valid(f)}

\* The form comes back with what was typed.
Refuse == {f \in Submitted : ~Valid(f) /\ ~Overflows(f)} # {} /\ UNCHANGED vars

\* OverflowError: 500.
Raise == {f \in Submitted : Overflows(f)} # {} /\ UNCHANGED vars

DaysAskedFor(f) == DateOf(f.start)..DateOf(IF f.allDay THEN EndOf(f) ELSE EndOf(f) - 1)

\* The PUT leaves for the backend, under a name made from a UID that is new.
Accept(p, f, uid) ==
    /\ pc[p] # "put"
    /\ Cardinality(stored \cup sent) < MaxComponents
    /\ uid \notin UidsOf(stored \cup sent)
    /\ draft' = [draft EXCEPT ![p] = BuildEvent(f, uid)]
    /\ month' = [month EXCEPT ![p] = MonthOfStart(f)]
    /\ sent' = sent \cup {BuildEvent(f, uid)}
    /\ asked' = [asked EXCEPT ![uid] = DaysAskedFor(f)]
    /\ answer' = [answer EXCEPT ![uid] = None]
    /\ pc' = [pc EXCEPT ![p] = "put"]
    /\ UNCHANGED stored

\* The backend stores a component that reaches it, awaited or not.
BackendStores(c) ==
    /\ c \in sent
    /\ sent' = sent \ {c}
    /\ stored' = stored \cup {c}
    /\ UNCHANGED <<postVars, asked, answer>>

\* put_event() returns False: "The calendar could not be updated just now.
\* Please try again."
Failed(p, how) ==
    /\ pc' = [pc EXCEPT ![p] = "idle"]
    /\ draft' = [draft EXCEPT ![p] = None]
    /\ month' = [month EXCEPT ![p] = None]
    /\ answer' = [answer EXCEPT ![draft[p].uid] = how]

\* A PUT that will not be stored leaves nothing behind.
Drop(c) ==
    /\ c \in sent
    /\ sent' = sent \ {c}
    /\ asked' = [asked EXCEPT ![c.uid] = {}]

\* Mutant: only 200 and 204 are taken for success.
Answered201(p) ==
    /\ pc[p] = "put" /\ draft[p] \in stored
    /\ Failed(p, "refused")
    /\ UNCHANGED <<stored, sent, asked>>

\* 200, 201 or 204: put_event() returns True.
Answered(p) ==
    /\ pc[p] = "put" /\ draft[p] \in stored
    /\ pc' = [pc EXCEPT ![p] = "added"]
    /\ answer' = [answer EXCEPT ![draft[p].uid] = "added"]
    /\ UNCHANGED <<stored, sent, draft, month, asked>>

\* The backend's own error status: nothing is stored.
BackendRefuses(p) ==
    /\ pc[p] = "put"
    /\ Failed(p, "refused")
    /\ Drop(draft[p])
    /\ UNCHANGED stored

\* httpx.HTTPError, or an error status of something in between: the PUT has been
\* stored, or never will be, or still may be.
AnswerLost(p) ==
    /\ pc[p] = "put"
    /\ Failed(p, "lost")
    /\ UNCHANGED stored
    /\ UNCHANGED <<sent, asked>> \/ Drop(draft[p])

-----------------------------------------------------------------------------
(* CalDAV clients.                                                         *)

ClientComponents ==
    {c \in [uid : {NoUid, Series}, type : {"utc"}, start : ClientTimes, end : ClientTimes,
            ends : {"dtend"}, times : 1..2] : c.start <= c.end /\ (c.times = 1 <=> c.uid = NoUid)}
    \cup [uid : {NoUid}, type : {"local"}, start : {Wall(u) : u \in ClientTimes}, end : {Day},
          ends : {"duration", "none"}, times : {1}]
    \cup [uid : {NoUid}, type : {"date"}, start : {DateOf(Wall(u)) : u \in ClientTimes}, end : {0},
          ends : {"none"}, times : {2}]

ClientWrites(c) ==
    /\ Cardinality(stored \cup sent) < MaxComponents
    /\ c.uid = NoUid \/ \A d \in stored : d.uid # c.uid
    /\ stored' = stored \cup {c}
    /\ UNCHANGED <<sent, postVars, asked, answer>>

Submit ==
    \/ Refuse \/ Raise
    \/ \E p \in Post, f \in ValidForms, uid \in Uid : Accept(p, f, uid)

Next ==
    \/ Submit
    \/ \E c \in sent : BackendStores(c)
    \/ \E p \in Post : Answered(p) \/ BackendRefuses(p) \/ AnswerLost(p)
    \/ \E c \in ClientComponents : ClientWrites(c)

Spec == Init /\ [][Next]_vars
-----------------------------------------------------------------------------
(* Properties.                                                             *)

\* The days on which some instant of a component falls.
Touched(c) == {DateOf(Wall(u)) : u \in {Starts(c)} \cup Starts(c)..(Ends(c) - 1)}

Days(c) == IF c.uid \in Uid THEN asked[c.uid] ELSE Touched(c)

\* Every month's grid draws an occurrence on those of its days that the form
\* asked for, or that an instant of a client's event falls on, and on no other:
\* through the form's zone, UTC, the window of the query and the zone again,
\* across both clock changes.
EventsFillTheirDays ==
    \A c \in stored, m \in Months :
        LET shown == MonthEvents({c}, m)
            grid == FirstDate(m)..LastDate(m)
        IN \A o \in Occurrences(c) :
               {d \in grid : ToEvent(o) \in GroupByDate(shown, d)} = Days(o) \cap grid

\* The month that create_event() redirects to shows the first day of the event
\* that was added, whatever other POSTs and clients have stored by then.
RedirectShowsIt ==
    \A p \in Post : pc[p] = "added" =>
        LET e == ToEvent(draft[p]) IN
        /\ draft[p] \in stored
        /\ month[p] \in Months
        /\ e \in GroupByDate(MonthEvents(stored, month[p]), StartDate(e))
        /\ MonthOf(e.start) = month[p]

\* Every POST stores its event at most once, and an "Added" is never wrong: its
\* event is in the collection.  Conversely a copy in the collection belongs to a
\* POST that was told so, is still to be told, or lost its answer, never to one
\* that the backend refused.  So there are as many copies of a form as POSTs of
\* it were answered with "Added", lost their answer or are under way: a second
\* POST, a double click or the Back button stores a second copy, and "could not
\* be updated" may be said of an event that is stored or still will be.
CopiesAreAccountedFor ==
    /\ \A u \in Uid : answer[u] = "added" => u \in UidsOf(stored)
    /\ \A u \in Uid : answer[u] = "refused" => u \notin UidsOf(stored \cup sent)
    /\ \A c \in stored : c.uid \in Uid =>
          /\ \A d \in stored : d.uid = c.uid => d = c
          /\ \/ answer[c.uid] \in {"added", "lost"}
             \/ \E p \in Post : pc[p] = "put" /\ draft[p] = c

\* The countdowns of a month are to the nearest long events after its grid, one
\* per series, every one of the nearest up to the limit.  A limit of 0 is no
\* limit here, as in the code; what the settings' comment makes of it is the
\* next property.
CountdownsAreTheNearest ==
    \A m \in Months :
        LET long == {ToEvent(o) : o \in {o \in UNION {Occurrences(c) : c \in stored} :
                        /\ Cardinality(Days(o)) >= MinSpan
                        /\ DateOf(Wall(Starts(o))) \in LastDate(m) + 1..LastDate(m) + Horizon}}
        IN \A limit \in 0..2 :
            LET found == MonthCountdowns(stored, m, limit)
                chosen == {found[i] : i \in DOMAIN found}
            IN /\ chosen \subseteq long
               /\ Cardinality(chosen) = Len(found)
               /\ \A e \in long \ chosen :
                      \/ limit > 0 /\ Len(found) = limit /\ \A f \in chosen : f.start <= e.start
                      \/ e.uid # NoUid /\ \E f \in chosen : f.uid = e.uid /\ f.start <= e.start
               /\ limit > 0 => Len(found) <= limit
               /\ \A e, f \in chosen : e.uid = f.uid /\ e # f => e.uid = NoUid

\* "Most countdowns shown at once" (config.py:93, README.md:130).
AtMostLimitCountdowns ==
    \A m \in Months, limit \in 0..2 : Len(MonthCountdowns(stored, m, limit)) <= limit

\* The form's message says "The event must end after it starts.", and compares
\* wall times.  An event it accepted ends after it starts, except for one that
\* starts in the hour the clock skips: its start is stored an hour later than the
\* form said, which is less than an hour after its end.
OnlySkippedTimesTurn ==
    \A c \in stored : c.uid \in Uid =>
        \/ Starts(c) < Ends(c)
        \/ /\ \E s \in Summers : Starts(c) \in s.spring..s.spring + Shift - 1
           /\ Starts(c) - Ends(c) < Shift
=============================================================================
