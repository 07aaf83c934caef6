---------------------------- MODULE AddEventProofs ----------------------------
(***************************************************************************)
(* What the form asks for is what gets drawn, for every display zone whose *)
(* clock changes as GridAssumption says, every calendar of months, day and *)
(* week, any number of components and any limit of countdowns.  Midnights  *)
(* divide the instants into days although the clock changes in between, so *)
(* an event touches the days its ends span, and the window of a query over *)
(* whole days finds it.  The countdowns' loop keeps an invariant that says *)
(* why it passed over each event.                                          *)
(***************************************************************************)
EXTENDS AddEvent, FiniteSetTheorems, WellFoundedInduction, TLAPS

-----------------------------------------------------------------------------
(* Arithmetic.                                                             *)

LEMMA Division ==
    ASSUME NEW x \in Int, NEW a \in Nat \ {0}
    PROVE  /\ x \div a \in Int
           /\ (x \div a) * a <= x /\ x < (x \div a) * a + a
           /\ x % a \in 0..a - 1 /\ x - (x % a) = (x \div a) * a
  OBVIOUS

LEMMA Remainder ==
    ASSUME NEW x \in Nat, NEW a \in Nat \ {0}
    PROVE  x % a \in 0..a - 1
  OBVIOUS

LEMMA Multiples ==
    ASSUME NEW x \in Int, NEW y \in Int, NEW a \in Nat \ {0}
    PROVE  /\ x * a \in Int
           /\ x < y => x * a + a <= y * a
           /\ (x + 1) * a = x * a + a
  OBVIOUS

\* The quotient is the only multiple that fits.
LEMMA Quotient ==
    ASSUME NEW x \in Int, NEW q \in Int, NEW a \in Nat \ {0},
           q * a <= x, x < q * a + a
    PROVE  x \div a = q
<1> DEFINE p == x \div a
<1>1. p \in Int /\ p * a <= x /\ x < p * a + a
  BY Division
<1>2. ~ (p < q) /\ ~ (q < p)
  BY <1>1, Multiples
<1> QED
  BY <1>1, <1>2

\* A set that holds 0 and every successor holds every number.
LEMMA Induction ==
    ASSUME NEW S, 0 \in S, \A n \in Nat : n \in S => n + 1 \in S
    PROVE  \A n \in Nat : n \in S
<1> SUFFICES ASSUME NEW k \in Nat, k \notin S
             PROVE  FALSE
  OBVIOUS
<1> DEFINE R == OpToRel(<, Nat)
           T == Nat \ S
<1>1. \A x, y \in Nat : x < y => <<x, y>> \in R
  BY DEF OpToRel
<1>2. IsWellFoundedOn(R, Nat) /\ T \subseteq Nat /\ T # {}
  BY NatLessThanWellFounded
<1> HIDE DEF R
<1>3. PICK x \in T : \A y \in T : ~ (<<y, x>> \in R)
  <2> HIDE DEF T
  <2> QED
    BY <1>2, WFMin
<1>4. x - 1 \in Nat /\ x - 1 < x /\ x = (x - 1) + 1
  BY <1>3
<1>5. x - 1 \in T
  BY <1>3, <1>4
<1> QED
  BY <1>1, <1>3, <1>4, <1>5

-----------------------------------------------------------------------------
(* The clock.                                                              *)

LEMMA ClockConstants ==
    /\ Day \in Nat \ {0} /\ Week \in Nat \ {0}
    /\ YearMonths \in Nat \ {0} /\ Shift \in Nat \ {0}
    /\ LastMonth \in Nat /\ MinSpan \in Nat /\ Horizon \in Nat
  BY GridAssumption

LEMMA SummersAreApart ==
    ASSUME NEW s \in Summers
    PROVE  /\ s.spring \in Nat /\ s.autumn \in Nat /\ s.spring + Shift < s.autumn
           /\ 2 * Shift < Day
           /\ \A t \in Summers : s = t \/ s.autumn + Day <= t.spring \/ t.autumn + Day <= s.spring
<1>1. s.spring \in Nat /\ s.autumn \in Nat /\ s.spring + Shift < s.autumn
  BY GridAssumption
<1>2. \A t \in Summers : s = t \/ s.autumn + Day <= t.spring \/ t.autumn + Day <= s.spring
  BY GridAssumption
<1>3. s.spring % Day \in 0..Day - 1
  BY <1>1, Remainder, ClockConstants
<1>4. s.spring % Day # 0 /\ (s.spring % Day) + 2 * Shift <= Day
  BY GridAssumption
<1>5. 2 * Shift < Day
  BY <1>3, <1>4, ClockConstants
<1> QED
  BY <1>1, <1>2, <1>5

LEMMA DateType ==
    ASSUME NEW w \in Int
    PROVE  DateOf(w) \in Int
  BY Division, ClockConstants DEF DateOf

LEMMA DateIs ==
    ASSUME NEW w \in Int, NEW d \in Int
    PROVE  /\ DateOf(w) \in Int
           /\ d * Day \in Int /\ (d + 1) * Day = d * Day + Day
           /\ DateOf(w) >= d <=> w >= d * Day
           /\ DateOf(w) = d <=> d * Day <= w /\ w < d * Day + Day
<1>1. DateOf(w) \in Int /\ DateOf(w) * Day <= w /\ w < DateOf(w) * Day + Day
  BY Division, ClockConstants DEF DateOf
<1>2. d * Day \in Int /\ (d + 1) * Day = d * Day + Day
  BY Multiples, ClockConstants
<1>3. DateOf(w) < d => DateOf(w) * Day + Day <= d * Day
  BY <1>1, Multiples, ClockConstants
<1>4. d < DateOf(w) => d * Day + Day <= DateOf(w) * Day
  BY <1>1, Multiples, ClockConstants
<1> QED
  BY <1>1, <1>2, <1>3, <1>4, ClockConstants

\* Where a time can be, seen from a summer, for no midnight to be skipped or
\* shown twice, or to follow a skipped time as closely as the change is long.
Regular(m, s) ==
    \/ m < s.spring
    \/ s.spring + 2 * Shift <= m /\ m < s.autumn
    \/ s.autumn + Shift < m

LEMMA MidnightsAreRegular ==
    ASSUME NEW d \in Int, NEW s \in Summers
    PROVE  Regular(d * Day, s)
<1>1. ASSUME NEW t \in Nat, NEW room \in Nat, t % Day # 0, (t % Day) + room <= Day
      PROVE  d * Day < t \/ t + room <= d * Day
  <2>1. /\ DateOf(t) \in Int /\ DateOf(t) * Day \in Int
        /\ DateOf(t) * Day < t /\ t + room <= DateOf(t) * Day + Day
    <3>1. DateOf(t) \in Int /\ t % Day \in 0..Day - 1 /\ t - (t % Day) = DateOf(t) * Day
      BY Division, ClockConstants DEF DateOf
    <3>2. DateOf(t) * Day \in Int
      BY <3>1, Multiples, ClockConstants
    <3> QED
      BY <1>1, <3>1, <3>2, ClockConstants
  <2>2. d < DateOf(t) + 1 => d * Day <= DateOf(t) * Day
    BY <2>1, Multiples, ClockConstants
  <2>3. DateOf(t) < d => DateOf(t) * Day + Day <= d * Day
    BY <2>1, Multiples, ClockConstants
  <2> QED
    BY <2>1, <2>2, <2>3, Multiples, ClockConstants
<1>2. s.spring \in Nat /\ s.autumn \in Nat
  BY SummersAreApart
<1>3. d * Day < s.spring \/ s.spring + 2 * Shift <= d * Day
  <2>1. s.spring % Day # 0 /\ (s.spring % Day) + 2 * Shift <= Day
    BY GridAssumption
  <2> QED
    BY <1>1, <1>2, <2>1, ClockConstants
<1>4. d * Day < s.autumn \/ s.autumn + Shift < d * Day
  <2> DEFINE room == Shift + 1
  <2>1. s.autumn % Day # 0 /\ (s.autumn % Day) + Shift < Day
    BY GridAssumption
  <2>2. room \in Nat /\ (s.autumn % Day) + room <= Day
    <3>1. s.autumn % Day \in 0..Day - 1
      BY <1>2, Remainder, ClockConstants
    <3> QED
      BY <2>1, <3>1, ClockConstants
  <2> HIDE DEF room
  <2>3. d * Day < s.autumn \/ s.autumn + room <= d * Day
    BY <1>1, <1>2, <2>1, <2>2
  <2> QED
    BY <1>2, <2>3, Multiples, ClockConstants DEF room
<1> QED
  BY <1>2, <1>3, <1>4, Multiples, ClockConstants DEF Regular

LEMMA WallType == \A u \in Int : Wall(u) \in Int /\ Utc(u) \in Int
  BY ClockConstants DEF Wall, Utc

\* In a summer the clock is ahead, and outside of every one it is not.
LEMMA InSummer ==
    ASSUME NEW s \in Summers, NEW u \in Int, s.spring <= u, u < s.autumn
    PROVE  Wall(u) = u + Shift
  BY DEF Wall, SummerTime

LEMMA OutOfSummer ==
    ASSUME NEW u \in Int, \A s \in Summers : ~ (s.spring <= u /\ u < s.autumn)
    PROVE  Wall(u) = u
  BY DEF Wall, SummerTime

LEMMA SummerOrNot ==
    ASSUME NEW u \in Int
    PROVE  \/ Wall(u) = u + Shift /\ \E s \in Summers : s.spring <= u /\ u < s.autumn
           \/ Wall(u) = u /\ \A s \in Summers : ~ (s.spring <= u /\ u < s.autumn)
  BY DEF Wall, SummerTime

LEMMA Unshifted ==
    ASSUME NEW w \in Int
    PROVE  \/ Utc(w) = w - Shift /\ \E s \in Summers : s.spring <= w - Shift /\ w - Shift < s.autumn
           \/ Utc(w) = w /\ \A s \in Summers : ~ (s.spring <= w - Shift /\ w - Shift < s.autumn)
  BY DEF Utc, SummerTime

\* The instant a day starts at.
Midnight(d) == Utc(d * Day)

\* A time at which every summer is regular is shown at one instant, that divides
\* the instants that show earlier times from the others.
LEMMA RegularTimes ==
    ASSUME NEW m \in Int, \A s \in Summers : Regular(m, s)
    PROVE  /\ Wall(Utc(m)) = m
           /\ \A u \in Int : Wall(u) >= m <=> u >= Utc(m)
           /\ \A s \in Summers : Utc(m) < s.spring \/ s.spring + Shift <= Utc(m)
<1>1. Utc(m) \in Int /\ Shift \in Nat
  BY WallType, ClockConstants
<1>2. ASSUME NEW s \in Summers
      PROVE  Utc(m) < s.spring \/ s.spring + Shift <= Utc(m)
  BY <1>1, Unshifted, SummersAreApart DEF Regular
<1>3. CASE Utc(m) = m - Shift /\ \E s \in Summers : s.spring <= m - Shift /\ m - Shift < s.autumn
  <2>1. PICK s \in Summers : s.spring <= m - Shift /\ m - Shift < s.autumn
    BY <1>3
  <2>2. /\ s.spring \in Nat /\ s.autumn \in Nat
        /\ \A t \in Summers : s = t \/ s.autumn + Day <= t.spring \/ t.autumn + Day <= s.spring
        /\ 2 * Shift < Day
    BY SummersAreApart
  <2>3. s.spring + 2 * Shift <= m /\ m < s.autumn
    BY <1>1, <2>1, <2>2 DEF Regular
  <2>4. Wall(Utc(m)) = m
    BY <1>1, <1>3, <2>1, InSummer
  <2>5. ASSUME NEW u \in Int
        PROVE  Wall(u) >= m <=> u >= Utc(m)
    <3>1. CASE Wall(u) = u + Shift /\ \E t \in Summers : t.spring <= u /\ u < t.autumn
      <4>1. PICK t \in Summers : t.spring <= u /\ u < t.autumn
        BY <3>1
      <4>2. t.spring \in Nat /\ t.autumn \in Nat
        BY SummersAreApart
      <4> QED
        BY <1>1, <1>3, <2>2, <2>3, <3>1, <4>1, <4>2
    <3>2. CASE Wall(u) = u /\ \A t \in Summers : ~ (t.spring <= u /\ u < t.autumn)
      BY <1>1, <1>3, <2>2, <2>3, <3>2
    <3> QED
      BY <3>1, <3>2, SummerOrNot
  <2> QED
    BY <1>2, <2>4, <2>5
<1>4. CASE Utc(m) = m /\ \A s \in Summers : ~ (s.spring <= m - Shift /\ m - Shift < s.autumn)
  <2>1. ASSUME NEW s \in Summers
        PROVE  s.spring \in Nat /\ s.autumn \in Nat /\ s.spring + Shift < s.autumn /\ (m < s.spring \/ s.autumn + Shift < m)
    BY <1>1, <1>4, SummersAreApart DEF Regular
  <2>2. ASSUME NEW u \in Int
        PROVE  Wall(u) >= m <=> u >= m
    <3>1. CASE Wall(u) = u + Shift /\ \E s \in Summers : s.spring <= u /\ u < s.autumn
      BY <1>1, <2>1, <3>1
    <3>2. CASE Wall(u) = u
      BY <3>2
    <3> QED
      BY <3>1, <3>2, SummerOrNot
  <2>3. Wall(m) = m
    BY <1>1, <2>1, OutOfSummer
  <2> QED
    BY <1>2, <1>4, <2>2, <2>3
<1> QED
  BY <1>3, <1>4, Unshifted

\* No regular time lies between what an instant shows and what the one before does.
LEMMA ClockChange ==
    ASSUME NEW e \in Int, NEW m \in Int, \A s \in Summers : Regular(m, s)
    PROVE  Wall(e - 1) >= m <=> Wall(e) - 1 >= m
<1>1. Wall(e) \in Int /\ Wall(e - 1) \in Int /\ e - 1 \in Int /\ Shift \in Nat
  BY WallType, ClockConstants
<1>2. CASE Wall(e) = e + Shift /\ \E s \in Summers : s.spring <= e /\ e < s.autumn
  <2>1. PICK s \in Summers : s.spring <= e /\ e < s.autumn
    BY <1>2
  <2>2. CASE s.spring <= e - 1
    <3>1. s.spring \in Nat /\ s.autumn \in Nat /\ e - 1 < s.autumn
      BY <2>1, SummersAreApart
    <3>2. Wall(e - 1) = (e - 1) + Shift
      BY <1>1, <2>2, <3>1, InSummer
    <3> QED
      BY <1>1, <1>2, <3>2
  <2>3. CASE e = s.spring
    <3>1. /\ \A t \in Summers : t.spring \in Nat /\ t.autumn \in Nat
          /\ \A t \in Summers : s = t \/ s.autumn + Day <= t.spring \/ t.autumn + Day <= s.spring
      BY SummersAreApart
    <3>2. \A t \in Summers : ~ (t.spring <= e - 1 /\ e - 1 < t.autumn)
      BY <2>1, <2>3, <3>1, ClockConstants
    <3>3. Wall(e - 1) = e - 1
      BY <1>1, <3>2, OutOfSummer
    <3> QED
      <4>1. Regular(m, s) /\ s.spring \in Nat /\ s.autumn \in Nat /\ s.spring + Shift < s.autumn
        BY SummersAreApart
      <4>2. m < s.spring \/ s.spring + 2 * Shift <= m
        BY <1>1, <4>1 DEF Regular
      <4>3. Wall(e) - 1 = (s.spring + Shift) - 1 /\ Wall(e - 1) = s.spring - 1
        BY <1>2, <2>3, <3>3
      <4> QED
        BY <1>1, <4>1, <4>2, <4>3
  <2> QED
    BY <1>1, <2>1, <2>2, <2>3, SummersAreApart
<1>3. CASE Wall(e) = e /\ \A s \in Summers : ~ (s.spring <= e /\ e < s.autumn)
  <2>1. CASE Wall(e - 1) = (e - 1) + Shift /\ \E s \in Summers : s.spring <= e - 1 /\ e - 1 < s.autumn
    <3>1. PICK s \in Summers : s.spring <= e - 1 /\ e - 1 < s.autumn
      BY <2>1
    <3>2. s.spring \in Nat /\ s.autumn \in Nat
      BY SummersAreApart
    <3>3. e = s.autumn
      BY <1>3, <3>1, <3>2
    <3>4. Regular(m, s) /\ s.spring + Shift < s.autumn
      BY SummersAreApart
    <3>5. m < s.autumn \/ s.autumn + Shift < m
      BY <1>1, <3>2, <3>4 DEF Regular
    <3>6. Wall(e) - 1 = s.autumn - 1 /\ Wall(e - 1) = (s.autumn - 1) + Shift
      BY <1>3, <2>1, <3>3
    <3> QED
      BY <1>1, <3>2, <3>5, <3>6
  <2>2. CASE Wall(e - 1) = e - 1
    BY <1>1, <1>3, <2>2
  <2> QED
    BY <1>1, <2>1, <2>2, SummerOrNot
<1> QED
  BY <1>2, <1>3, SummerOrNot

\* A date starts at the instant its midnight is read as.
LEMMA MidnightTimes ==
    ASSUME NEW d \in Int
    PROVE  /\ d * Day \in Int /\ (d + 1) * Day = d * Day + Day
           /\ \A s \in Summers : Regular(d * Day, s)
           /\ Midnight(d) \in Int
           /\ Wall(Midnight(d)) = d * Day
           /\ \A u \in Int : Wall(u) >= d * Day <=> u >= Midnight(d)
           /\ \A s \in Summers : Midnight(d) < s.spring \/ s.spring + Shift <= Midnight(d)
<1>1. d * Day \in Int /\ (d + 1) * Day = d * Day + Day
  BY Multiples, ClockConstants
<1>2. \A s \in Summers : Regular(d * Day, s)
  BY MidnightsAreRegular
<1> QED
  BY <1>1, <1>2, RegularTimes, WallType DEF Midnight

\* The days partition the instants, in order.
LEMMA DaysByInstant ==
    ASSUME NEW u \in Int, NEW d \in Int
    PROVE  /\ Midnight(d) \in Int
           /\ \A s \in Summers : Midnight(d) < s.spring \/ s.spring + Shift <= Midnight(d)
           /\ Midnight(d) < Midnight(d + 1)
           /\ DateOf(Wall(u)) \in Int
           /\ DateOf(Wall(u)) >= d <=> u >= Midnight(d)
           /\ DateOf(Wall(Midnight(d))) = d
<1>1. /\ d * Day \in Int /\ (d + 1) * Day = d * Day + Day
      /\ Midnight(d) \in Int /\ Wall(Midnight(d)) = d * Day
      /\ \A s \in Summers : Midnight(d) < s.spring \/ s.spring + Shift <= Midnight(d)
      /\ Wall(u) >= d * Day <=> u >= Midnight(d)
      /\ Wall(u) \in Int
  BY MidnightTimes, WallType
<1>2. d + 1 \in Int /\ Midnight(d + 1) \in Int /\ (Wall(Midnight(d)) >= (d + 1) * Day <=> Midnight(d) >= Midnight(d + 1))
  <2>1. d + 1 \in Int
    OBVIOUS
  <2> QED
    BY <1>1, <2>1, MidnightTimes
<1>3. Midnight(d) < Midnight(d + 1)
  BY <1>1, <1>2, ClockConstants
<1>4. DateOf(d * Day) = d
  BY <1>1, DateIs, ClockConstants
<1> QED
  BY <1>1, <1>3, <1>4, DateIs

LEMMA MidnightsIncrease ==
    ASSUME NEW a \in Int, NEW b \in Int, a < b
    PROVE  Midnight(a) < Midnight(b)
<1>1. Midnight(a) \in Int /\ Midnight(b) \in Int /\ DateOf(Wall(Midnight(a))) = a
  BY DaysByInstant
<1> QED
  BY <1>1, DaysByInstant

\* Later instants are not on earlier dates.
LEMMA DatesIncrease ==
    ASSUME NEW u \in Int, NEW v \in Int, u <= v
    PROVE  DateOf(Wall(u)) <= DateOf(Wall(v))
<1> DEFINE d == DateOf(Wall(u))
<1>1. d \in Int
  BY DaysByInstant
<1>2. Midnight(d) \in Int /\ Midnight(d) <= u
  BY <1>1, DaysByInstant
<1> QED
  BY <1>1, <1>2, DaysByInstant

\* Times on the same side of every midnight are of the same date.
LEMMA SameDate ==
    ASSUME NEW v \in Int, NEW w \in Int,
           \A d \in Int : v >= d * Day <=> w >= d * Day
    PROVE  DateOf(v) = DateOf(w)
<1>1. DateOf(v) \in Int /\ DateOf(w) \in Int
  BY DateIs
<1> QED
  BY <1>1, DateIs

\* What build_event_ics() stores of a wall time, or of the end of an event, is
\* shown by _as_datetime() on the date that was typed.
THEOREM StoredDate ==
    ASSUME NEW w \in Int
    PROVE  /\ Utc(w) \in Int
           /\ DateOf(Wall(Utc(w))) = DateOf(w)
           /\ DateOf(Wall(Utc(w) - 1)) = DateOf(w - 1)
<1>1. Utc(w) \in Int /\ Utc(w) - 1 \in Int /\ Wall(Utc(w)) \in Int /\ Wall(Utc(w) - 1) \in Int
  BY WallType
<1>2. ASSUME NEW m \in Int, \A s \in Summers : Regular(m, s)
      PROVE  /\ Wall(Utc(w)) >= m <=> w >= m
             /\ Wall(Utc(w) - 1) >= m <=> w - 1 >= m
  <2>1. Utc(m) \in Int /\ \A u \in Int : Wall(u) >= m <=> u >= Utc(m)
    BY <1>2, RegularTimes, WallType
  <2>2. \A s \in Summers : s.spring \in Nat /\ s.autumn \in Nat /\ s.spring + Shift < s.autumn
    BY SummersAreApart
  <2>3. w >= m <=> Utc(w) >= Utc(m)
    BY <1>1, <1>2, <2>1, <2>2, Unshifted, ClockConstants DEF Regular
  <2>4. w - 1 >= m <=> Utc(w) - 1 >= Utc(m)
    BY <1>1, <1>2, <2>1, <2>2, Unshifted, ClockConstants DEF Regular
  <2> QED
    BY <1>1, <2>1, <2>3, <2>4
<1>3. ASSUME NEW d \in Int
      PROVE  /\ Wall(Utc(w)) >= d * Day <=> w >= d * Day
             /\ Wall(Utc(w) - 1) >= d * Day <=> w - 1 >= d * Day
  BY <1>2, MidnightTimes
<1> QED
  BY <1>1, <1>3, SameDate

-----------------------------------------------------------------------------
(* The days of an event.                                                   *)

\* The dates of the instants from s up to e, and of s.
Span(s, e) == DateOf(Wall(s))..(IF s < e THEN DateOf(Wall(e - 1)) ELSE DateOf(Wall(s)))

\* The instants of an event fall on every day from its first to its last.
LEMMA SpanIsTouched ==
    ASSUME NEW s \in Int, NEW e \in Int
    PROVE  {DateOf(Wall(u)) : u \in {s} \cup s..(e - 1)} = Span(s, e)
<1> DEFINE at(u) == DateOf(Wall(u))
           instants == {s} \cup s..(e - 1)
<1>1. \A u \in Int : at(u) \in Int
  BY DaysByInstant
<1>2. \A u, v \in Int : u <= v => at(u) <= at(v)
  BY DatesIncrease
<1>3. Span(s, e) = at(s)..(IF s < e THEN at(e - 1) ELSE at(s))
  BY DEF Span
<1>4. ASSUME NEW u \in instants
      PROVE  at(u) \in Span(s, e)
  <2>0. u = s \/ u \in s..(e - 1)
    OBVIOUS
  <2>1. u \in Int /\ s <= u /\ (u = s \/ (s < e /\ u <= e - 1))
    BY <2>0
  <2>2. at(u) \in Int /\ at(s) \in Int /\ at(e - 1) \in Int /\ at(s) <= at(u)
    BY <2>1, <1>1, <1>2
  <2>3. u = s \/ (s < e /\ at(u) <= at(e - 1))
    BY <2>1, <1>2
  <2>4. s < e => at(s) <= at(e - 1)
    BY <1>2
  <2> HIDE DEF at
  <2> QED
    BY <2>2, <2>3, <2>4, <1>3
<1>5. ASSUME NEW d \in Span(s, e)
      PROVE  \E u \in instants : at(u) = d
  <2>1. at(s) \in Int /\ at(e - 1) \in Int /\ d \in Int /\ at(s) <= d
    BY <1>1, <1>3
  <2>2. CASE d = at(s)
    BY <2>2
  <2>3. CASE d # at(s)
    <3>1. s < e /\ d <= at(e - 1) /\ ~ (at(s) >= d) /\ at(e - 1) >= d
      BY <2>1, <2>3, <1>3
    <3>2. Midnight(d) \in Int /\ at(Midnight(d)) = d
      BY <2>1, DaysByInstant
    <3>3. s < Midnight(d) /\ Midnight(d) <= e - 1
      BY <2>1, <3>1, <3>2, DaysByInstant
    <3> QED
      BY <3>2, <3>3
  <2> QED
    BY <2>2, <2>3
<1> QED
  BY <1>4, <1>5

\* What turns an event round: it starts at a time the clock skips, and ends
\* less than an hour later.
StartIsSkipped(s, e) == \E x \in Summers : x.spring <= e /\ e <= s /\ s < x.spring + Shift

Turned(s, e) == e < s /\ StartIsSkipped(s, e)

\* An event between two instants ...
LEMMA InstantsSpan ==
    ASSUME NEW s \in Int, NEW e \in Int, s <= e \/ Turned(s, e),
           NEW event, event.start = Wall(s), event.end = Wall(e)
    PROVE  /\ Dates(event) = Span(s, e)
           /\ Span(s, e) = IF s < e THEN DateOf(Wall(s))..DateOf(Wall(e - 1)) ELSE {DateOf(Wall(s))}
<1>1. /\ Wall(s) \in Int /\ Wall(e) \in Int /\ Wall(e - 1) \in Int
      /\ DateOf(Wall(s)) \in Int /\ DateOf(Wall(e)) \in Int /\ DateOf(Wall(e - 1)) \in Int
      /\ DateOf(Wall(e) - 1) \in Int
  <2>1. Wall(s) \in Int /\ Wall(e) \in Int /\ Wall(e - 1) \in Int /\ Wall(e) - 1 \in Int
    BY WallType
  <2> QED
    BY <2>1, DateType
<1>2. Dates(event) = DateOf(Wall(s))..(IF Wall(e) <= Wall(s) THEN DateOf(Wall(s)) ELSE DateOf(Wall(e) - 1))
  BY DEF Dates, StartDate, EndDate
<1>3. ASSUME e <= s
      PROVE  Wall(e) <= Wall(s)
  <2>1. CASE e = s
    BY <1>1, <2>1
  <2>2. CASE Turned(s, e)
    <3>1. PICK x \in Summers : x.spring <= e /\ e < s /\ s < x.spring + Shift
      BY <2>2 DEF Turned, StartIsSkipped
    <3>2. x.spring \in Nat /\ x.autumn \in Nat /\ x.spring + Shift < x.autumn
      BY SummersAreApart
    <3>3. Wall(s) = s + Shift /\ Wall(e) = e + Shift
      BY <3>1, <3>2, InSummer, ClockConstants
    <3> QED
      BY <3>1, <3>3, ClockConstants
  <2> QED
    BY <1>3, <2>1, <2>2
<1>4. ASSUME s < e
      PROVE  DateOf(Wall(e - 1)) = IF Wall(e) <= Wall(s) THEN DateOf(Wall(s)) ELSE DateOf(Wall(e) - 1)
  <2>1. CASE Wall(e) <= Wall(s)
    <3>1. DateOf(Wall(s)) <= DateOf(Wall(e - 1)) /\ DateOf(Wall(e - 1)) <= DateOf(Wall(e))
      BY <1>4, DatesIncrease
    <3>2. DateOf(Wall(e)) <= DateOf(Wall(s))
      <4>1. DateOf(Wall(e)) * Day <= Wall(e)
        BY <1>1, DateIs
      <4>2. DateOf(Wall(e)) * Day \in Int
        BY <1>1, DateIs
      <4> QED
        BY <1>1, <2>1, <4>1, <4>2, DateIs
    <3> QED
      BY <1>1, <2>1, <3>1, <3>2
  <2>2. CASE Wall(s) < Wall(e)
    <3>1. ASSUME NEW d \in Int
          PROVE  Wall(e - 1) >= d * Day <=> Wall(e) - 1 >= d * Day
      <4> DEFINE m == d * Day
      <4>1. m \in Int /\ \A x \in Summers : Regular(m, x)
        BY MidnightTimes
      <4> HIDE DEF m
      <4> QED
        BY <4>1, ClockChange DEF m
    <3>2. DateOf(Wall(e - 1)) = DateOf(Wall(e) - 1)
      BY <1>1, <3>1, SameDate
    <3> QED
      BY <1>1, <2>2, <3>2
  <2> QED
    BY <1>1, <2>1, <2>2
<1>5. Dates(event) = Span(s, e)
  BY <1>1, <1>2, <1>3, <1>4 DEF Span
<1>6. Span(s, e) = IF s < e THEN DateOf(Wall(s))..DateOf(Wall(e - 1)) ELSE {DateOf(Wall(s))}
  <2> DEFINE a == DateOf(Wall(s))
             b == DateOf(Wall(e - 1))
  <2>1. a \in Int /\ Span(s, e) = a..(IF s < e THEN b ELSE a)
    BY <1>1 DEF Span
  <2>2. a..a = {a}
    BY <2>1
  <2> QED
    BY <2>1, <2>2
<1> QED
  BY <1>5, <1>6

\* ... and between two times of the form or of a client without a zone.
LEMMA TimesSpan ==
    ASSUME NEW v \in Int, NEW w \in Int, v = w \/ (Utc(v) < Utc(w) /\ v < w),
           NEW event, event.start = v, event.end = w
    PROVE  /\ Utc(v) \in Int /\ Utc(w) \in Int
           /\ DateOf(Wall(Utc(v))) = DateOf(v)
           /\ Dates(event) = Span(Utc(v), Utc(w))
<1>1. /\ Utc(v) \in Int /\ Utc(w) \in Int /\ DateOf(v) \in Int /\ DateOf(w - 1) \in Int
      /\ DateOf(Wall(Utc(v))) = DateOf(v) /\ DateOf(Wall(Utc(w) - 1)) = DateOf(w - 1)
  BY StoredDate, DateType
<1>2. Dates(event) = DateOf(v)..(IF w <= v THEN DateOf(v) ELSE DateOf(w - 1))
  BY DEF Dates, StartDate, EndDate
<1> QED
  BY <1>1, <1>2 DEF Span

-----------------------------------------------------------------------------
(* Components and their occurrences.                                       *)

\* What clients and the form store, and what that occurs as.
Shape(o) ==
    /\ o \in Component
    /\ \/ o.type = "utc" /\ o.ends = "dtend" /\ (o.start <= o.end \/ Turned(o.start, o.end))
       \/ o.type = "local" /\ o.ends = "duration" /\ o.end = Day
       \/ o.type = "local" /\ o.ends = "none"
       \/ o.type = "date" /\ o.ends = "none"
       \/ o.type = "date" /\ o.ends = "dtend" /\ o.start < o.end

\* An event is drawn on the dates of its instants, and on the first one's if it
\* has none.
OnItsDays(o) ==
    LET e == ToEvent(o) IN
    /\ Starts(o) \in Int /\ Ends(o) \in Int
    /\ Starts(o) <= Ends(o) \/ Turned(Starts(o), Ends(o))
    /\ e.uid = o.uid /\ e.start \in Int /\ e.end \in Int
    /\ StartDate(e) = DateOf(Wall(Starts(o)))
    /\ Dates(e) = Span(Starts(o), Ends(o))

\* Components whose start and end are instants.
LEMMA UtcOnItsDays ==
    ASSUME NEW o \in Component, o.type = "utc", o.ends = "dtend",
           o.start <= o.end \/ Turned(o.start, o.end)
    PROVE  OnItsDays(o)
<1>1. Starts(o) = o.start /\ Ends(o) = o.end
  BY DEF Starts, Ends, Instant
<1>2. /\ ToEvent(o).uid = o.uid
      /\ ToEvent(o).start = Wall(o.start) /\ ToEvent(o).end = Wall(o.end)
  BY DEF ToEvent, AsDatetime
<1>3. o.start \in Int /\ o.end \in Int /\ Wall(o.start) \in Int /\ Wall(o.end) \in Int
  BY ClockConstants DEF Component, Wall
<1>4. Dates(ToEvent(o)) = Span(o.start, o.end)
  BY <1>2, <1>3, InstantsSpan
<1> QED
  BY <1>1, <1>2, <1>3, <1>4 DEF OnItsDays, StartDate

\* Components whose start is a wall time v, and whose end is shown at w.
LEMMA WallOnItsDays ==
    ASSUME NEW o, NEW v \in Int, NEW w \in Int, v = w \/ (Utc(v) < Utc(w) /\ v < w),
           Starts(o) = Utc(v), Ends(o) = Utc(w),
           ToEvent(o).uid = o.uid, ToEvent(o).start = v, ToEvent(o).end = w
    PROVE  OnItsDays(o)
<1>1. /\ Utc(v) \in Int /\ Utc(w) \in Int
      /\ DateOf(Wall(Utc(v))) = DateOf(v)
      /\ Dates(ToEvent(o)) = Span(Utc(v), Utc(w))
  BY TimesSpan
<1> QED
  BY <1>1 DEF OnItsDays, StartDate

\* Whatever is stored is drawn on the dates of its instants.
LEMMA ShapesOnTheirDays ==
    ASSUME NEW o, Shape(o)
    PROVE  OnItsDays(o)
<1>1. /\ o \in Component /\ o.start \in Int /\ o.end \in Int
      /\ o.start * Day \in Int /\ o.end * Day \in Int /\ (o.start + 1) * Day = o.start * Day + Day
  BY Multiples, ClockConstants DEF Shape, Component
<1>2. CASE o.type = "utc" /\ o.ends = "dtend" /\ (o.start <= o.end \/ Turned(o.start, o.end))
  BY <1>1, <1>2, UtcOnItsDays
<1>3. CASE o.type = "local" /\ o.ends = "duration" /\ o.end = Day
  <2> DEFINE v == o.start
             w == o.start + Day
  <2>1. v \in Int /\ w \in Int /\ v < w /\ Utc(v) < Utc(w)
    <3>1. v \in Int /\ w \in Int /\ v < w
      BY <1>1, ClockConstants
    <3>2. Summers = {} \/ Shift < Day
      BY SummersAreApart, ClockConstants
    <3>3. Summers = {} => Utc(v) = v /\ Utc(w) = w
      BY <3>1, Unshifted
    <3>4. Shift < Day => v < w - Shift
      BY <1>1, ClockConstants
    <3>5. Utc(v) \in {v, v - Shift} /\ Utc(w) \in {w, w - Shift}
      BY <3>1, Unshifted
    <3> HIDE DEF v, w
    <3>6. Shift < Day => Utc(v) < Utc(w)
      BY <3>1, <3>4, <3>5, ClockConstants
    <3> QED
      BY <3>1, <3>2, <3>3, <3>6
  <2>2. ToEvent(o).uid = o.uid /\ ToEvent(o).start = v /\ ToEvent(o).end = w
    BY <1>3 DEF ToEvent, AsDatetime
  <2>3. Starts(o) = Utc(v) /\ Ends(o) = Utc(w)
    BY <1>3, <2>2 DEF Starts, Ends, Instant, AsDatetime
  <2> HIDE DEF v, w
  <2> QED
    BY <2>1, <2>2, <2>3, WallOnItsDays
<1>4. CASE o.type = "local" /\ o.ends = "none"
  <2>1. ToEvent(o).uid = o.uid /\ ToEvent(o).start = o.start /\ ToEvent(o).end = o.start
    BY <1>4 DEF ToEvent, AsDatetime
  <2>2. Starts(o) = Utc(o.start) /\ Ends(o) = Utc(o.start)
    BY <1>4, <2>1 DEF Starts, Ends, Instant, AsDatetime
  <2> QED
    BY <1>1, <2>1, <2>2, WallOnItsDays
<1>5. CASE o.type = "date" /\ o.ends = "none"
  <2>1. ToEvent(o).uid = o.uid /\ ToEvent(o).start = o.start * Day /\ ToEvent(o).end = o.start * Day + Day
    BY <1>5 DEF ToEvent, AsDatetime
  <2>2. Starts(o) = Utc(o.start * Day) /\ Ends(o) = Utc(o.start * Day + Day)
    BY <1>5, <2>1 DEF Starts, Ends, Instant, AsDatetime
  <2>3. Utc(o.start * Day) < Utc(o.start * Day + Day)
    <3>1. Midnight(o.start) < Midnight(o.start + 1)
      BY <1>1, DaysByInstant
    <3> QED
      BY <1>1, <3>1 DEF Midnight
  <2>4. o.start * Day + Day \in Int /\ o.start * Day < o.start * Day + Day
    BY <1>1, ClockConstants
  <2> QED
    BY <1>1, <2>1, <2>2, <2>3, <2>4, WallOnItsDays
<1>6. CASE o.type = "date" /\ o.ends = "dtend" /\ o.start < o.end
  <2>1. ToEvent(o).uid = o.uid /\ ToEvent(o).start = o.start * Day /\ ToEvent(o).end = o.end * Day
    BY <1>6 DEF ToEvent, AsDatetime
  <2>2. Starts(o) = Utc(o.start * Day) /\ Ends(o) = Utc(o.end * Day)
    BY <1>6, <2>1 DEF Starts, Ends, Instant, AsDatetime
  <2>3. Utc(o.start * Day) < Utc(o.end * Day)
    BY <1>1, <1>6, MidnightsIncrease DEF Midnight
  <2>4. o.start * Day + Day <= o.end * Day
    BY <1>1, <1>6, Multiples, ClockConstants
  <2>5. o.start * Day < o.end * Day
    BY <1>1, <2>4, ClockConstants
  <2> QED
    BY <1>1, <2>1, <2>2, <2>3, <2>5, WallOnItsDays
<1> QED
  BY <1>2, <1>3, <1>4, <1>5, <1>6 DEF Shape

-----------------------------------------------------------------------------
(* The window of a query.                                                  *)

Found(o, first, last) == Overlaps(o, Utc(first * Day), Utc((last + 1) * Day))

\* expand_events() over a window of whole days returns whatever is drawn on one
\* of them, and nothing that starts after the last.
THEOREM WindowFinds ==
    ASSUME NEW o, Shape(o), NEW first \in Int, NEW last \in Int
    PROVE  /\ \A d \in first..last : d \in Dates(ToEvent(o)) => Found(o, first, last)
           /\ Found(o, first, last) => StartDate(ToEvent(o)) <= last
<1> DEFINE s == Starts(o)
           e == Ends(o)
           lo == Midnight(first)
           hi == Midnight(last + 1)
           ds == DateOf(Wall(s))
           de == DateOf(Wall(e - 1))
<1>1. /\ s \in Int /\ e \in Int /\ e - 1 \in Int /\ (s <= e \/ Turned(s, e))
      /\ StartDate(ToEvent(o)) = ds
      /\ Dates(ToEvent(o)) = Span(s, e)
  BY ShapesOnTheirDays DEF OnItsDays
<1>2. /\ lo \in Int /\ hi \in Int /\ ds \in Int /\ de \in Int
      /\ \A x \in Summers : lo < x.spring \/ x.spring + Shift <= lo
      /\ \A x \in Summers : hi < x.spring \/ x.spring + Shift <= hi
      /\ (ds >= first <=> s >= lo) /\ (de >= first <=> e - 1 >= lo)
      /\ (ds >= last + 1 <=> s >= hi) /\ (de >= last + 1 <=> e - 1 >= hi)
  <2>1. first \in Int /\ last + 1 \in Int
    OBVIOUS
  <2> DEFINE day(u) == DateOf(Wall(u))
  <2>2. \A u, d \in Int : day(u) \in Int /\ (day(u) >= d <=> u >= Midnight(d))
    BY DaysByInstant
  <2>3. \A d \in Int : Midnight(d) \in Int /\ \A x \in Summers : Midnight(d) < x.spring \/ x.spring + Shift <= Midnight(d)
    BY DaysByInstant
  <2> HIDE DEF day, s, e
  <2> QED
    BY <1>1, <2>1, <2>2, <2>3 DEF day
<1>3. Found(o, first, last) <=> IF s = e THEN lo <= s /\ s < hi
                                ELSE \/ s < e /\ s < hi /\ lo < e
                                     \/ e < s /\ e < hi /\ lo < s
  BY <1>1, <1>2 DEF Found, Overlaps, Midnight
<1>4. Span(s, e) = ds..(IF s < e THEN de ELSE ds)
  BY DEF Span
<1> HIDE DEF s, e, lo, hi, ds, de
<1>5. ASSUME NEW d \in first..last, d \in Dates(ToEvent(o))
      PROVE  Found(o, first, last)
  <2>1. d \in Int /\ first <= d /\ d <= last /\ ds <= d /\ d <= (IF s < e THEN de ELSE ds)
    BY <1>1, <1>2, <1>4, <1>5
  <2>2. CASE s < e
    BY <1>1, <1>2, <1>3, <2>1, <2>2
  <2>3. CASE s = e
    BY <1>1, <1>2, <1>3, <2>1, <2>3
  <2>4. CASE e < s
    <3>1. PICK x \in Summers : x.spring <= e /\ e < s /\ s < x.spring + Shift
      BY <1>1, <2>4 DEF Turned, StartIsSkipped
    <3>2. x.spring \in Nat
      BY SummersAreApart
    <3> QED
      BY <1>1, <1>2, <1>3, <2>1, <2>4, <3>1, <3>2, ClockConstants
  <2> QED
    BY <1>1, <2>2, <2>3, <2>4
<1>6. ASSUME Found(o, first, last)
      PROVE  ds <= last
  <2>1. CASE s <= e
    BY <1>1, <1>2, <1>3, <1>6, <2>1
  <2>2. CASE e < s
    <3>1. PICK x \in Summers : x.spring <= e /\ e < s /\ s < x.spring + Shift
      BY <1>1, <2>2 DEF Turned, StartIsSkipped
    <3>2. x.spring \in Nat
      BY SummersAreApart
    <3> QED
      BY <1>1, <1>2, <1>3, <1>6, <2>2, <3>1, <3>2, ClockConstants
  <2> QED
    BY <1>1, <2>1, <2>2
<1> QED
  BY <1>1, <1>5, <1>6

\* expand_events() returns what the query found.
\* Nothing is lost between the filter of the REPORT and the expansion.
LEMMA ExpandedEvents ==
    ASSUME NEW components, NEW first, NEW last
    PROVE  WindowEvents(components, first, last) =
               {ToEvent(o) : o \in {o \in UNION {Occurrences(c) : c \in components} : Found(o, first, last)}}
<1> DEFINE lo == Utc(first * Day)
           hi == Utc((last + 1) * Day)
           fetched == FetchWindow(components, first, last)
<1>1. \A c : c \in fetched <=> c \in components /\ \E o \in Occurrences(c) : Overlaps(o, lo, hi)
  BY DEF FetchWindow, Matches
<1>2. WindowEvents(components, first, last) =
          {ToEvent(o) : o \in {o \in UNION {Occurrences(c) : c \in fetched} : Overlaps(o, lo, hi)}}
  BY DEF WindowEvents, ExpandEvents
<1>3. \A o : Found(o, first, last) <=> Overlaps(o, lo, hi)
  BY DEF Found
<1> HIDE DEF lo, hi, fetched
<1> QED
  BY <1>1, <1>2, <1>3

-----------------------------------------------------------------------------
(* What is stored.                                                         *)

\* Occurrences have the shape of their component.
LEMMA OccurrenceFields ==
    ASSUME NEW c \in Component, NEW o \in Occurrences(c)
    PROVE  /\ o \in Component
           /\ o.uid = c.uid /\ o.type = c.type /\ o.ends = c.ends
           /\ \E k \in Nat : /\ o.start = c.start + k
                             /\ o.end = IF c.ends = "dtend" THEN c.end + k ELSE c.end
           /\ c.times = 1 => o = c
<1> DEFINE period == IF c.type = "date" THEN Week ELSE Week * Day
           moved(n) == [c EXCEPT !.start = @ + n * period, !.end = IF c.ends = "dtend" THEN @ + n * period ELSE @]
<1>1. PICK n \in 0..c.times - 1 : o = moved(n)
  BY DEF Occurrences
<1>2. n \in Nat /\ period \in Nat /\ (c.times = 1 => n = 0) /\ c.start \in Nat /\ c.end \in Nat
  BY ClockConstants DEF Component
<1>3. n * period \in Nat /\ (n = 0 => n * period = 0)
  BY <1>2
<1> DEFINE k == n * period
<1>4. k \in Nat /\ (c.times = 1 => k = 0)
  BY <1>2, <1>3
<1>5. o = [c EXCEPT !.start = c.start + k, !.end = IF c.ends = "dtend" THEN c.end + k ELSE c.end]
  BY <1>1
<1> DEFINE start == c.start + k
           end == IF c.ends = "dtend" THEN c.end + k ELSE c.end
<1>6. start \in Nat /\ end \in Nat /\ (c.times = 1 => start = c.start /\ end = c.end)
  BY <1>2, <1>4
<1>7. o = [c EXCEPT !.start = start, !.end = end]
  BY <1>5
<1> HIDE DEF k, moved, period, start, end
<1>8. o \in Component
  BY <1>6, <1>7 DEF Component
<1>9. o.uid = c.uid /\ o.type = c.type /\ o.ends = c.ends /\ o.start = start /\ o.end = end
  BY <1>7 DEF Component
<1>10. c.times = 1 => o = c
  BY <1>6, <1>7 DEF Component
<1> QED
  BY <1>4, <1>8, <1>9, <1>10 DEF start, end

\* A component is itself an occurrence.
LEMMA OccursOnce ==
    ASSUME NEW c \in Component, c.times = 1
    PROVE  Occurrences(c) = {c}
<1> DEFINE period == IF c.type = "date" THEN Week ELSE Week * Day
           moved(n) == [c EXCEPT !.start = @ + n * period, !.end = IF c.ends = "dtend" THEN @ + n * period ELSE @]
<1>1. Occurrences(c) = {moved(n) : n \in 0..c.times - 1} /\ 0 \in 0..c.times - 1
  BY DEF Occurrences
<1>2. moved(0) \in Occurrences(c)
  BY <1>1
<1> QED
  BY <1>2, OccurrenceFields

LEMMA DateOfNat ==
    ASSUME NEW w \in Nat
    PROVE  DateOf(w) \in Nat /\ Wall(w) \in Nat /\ Utc(w) \in Nat
<1>1. DateOf(w) \in Int /\ (DateOf(w) >= 0 <=> w >= 0 * Day) /\ 0 * Day = 0
  BY DateIs, ClockConstants
<1>2. Wall(w) \in Nat
  BY SummerOrNot, ClockConstants
<1>3. Utc(w) \in Nat
  <2>1. CASE Utc(w) = w - Shift /\ \E s \in Summers : s.spring <= w - Shift
    BY <2>1, SummersAreApart, ClockConstants
  <2>2. CASE Utc(w) = w
    BY <2>2
  <2> QED
    BY <2>1, <2>2, Unshifted
<1> QED
  BY <1>1, <1>2, <1>3

\* Every occurrence of a client's component is drawn on the days its instants
\* fall on.
LEMMA ClientComponentsOnTheirDays ==
    ASSUME NEW c \in ClientComponents
    PROVE  /\ c \in Component /\ c.uid \notin Uid /\ Occurrences(c) # {}
           /\ \A o \in Occurrences(c) : /\ Shape(o)
                                        /\ o.uid = c.uid
                                        /\ Days(o) = Dates(ToEvent(o))
<1>1. ClientTimes \subseteq Nat /\ Series \notin Uid /\ NoUid \notin Uid
  BY AddEventAssumption
<1>2. /\ c \in Component /\ c.uid \notin Uid /\ c.times \in 1..2
      /\ \/ c.type = "utc" /\ c.ends = "dtend" /\ c.start <= c.end
         \/ c.type = "local" /\ c.ends = "duration" /\ c.end = Day
         \/ c.type = "local" /\ c.ends = "none"
         \/ c.type = "date" /\ c.ends = "none"
  <2>1. CASE c \in [uid : {NoUid, Series}, type : {"utc"}, start : ClientTimes, end : ClientTimes,
                    ends : {"dtend"}, times : 1..2] /\ c.start <= c.end
    <3>1. c.uid \in {NoUid, Series} /\ c.type = "utc" /\ c.ends = "dtend" /\ c.start <= c.end /\ c.times \in 1..2
      BY <2>1
    <3>2. c \in [uid : Uid \cup {Series, NoUid}, type : {"date", "utc", "local"}, start : Nat, end : Nat,
                 ends : {"dtend", "duration", "none"}, times : Nat]
      <4>1. /\ c.uid \in Uid \cup {Series, NoUid} /\ c.start \in Nat /\ c.end \in Nat /\ c.times \in Nat
            /\ c.type \in {"date", "utc", "local"} /\ c.ends \in {"dtend", "duration", "none"}
        <5>1. c.start \in ClientTimes /\ c.end \in ClientTimes
          BY <2>1
        <5>2. c.start \in Nat /\ c.end \in Nat
          BY <1>1, <5>1
        <5>3. c.times \in Nat
          BY <3>1
        <5>4. c.type \in {"date", "utc", "local"} /\ c.ends \in {"dtend", "duration", "none"}
          BY <3>1
        <5>5. c.uid \in Uid \cup {Series, NoUid}
          BY <3>1
        <5> QED
          BY <5>2, <5>3, <5>4, <5>5
      <4>2. c = [uid |-> c.uid, type |-> c.type, start |-> c.start, end |-> c.end, ends |-> c.ends, times |-> c.times]
        BY <2>1
      <4> QED
        BY <4>1, <4>2
    <3> QED
      BY <1>1, <3>1, <3>2 DEF Component
  <2>2. CASE c \in [uid : {NoUid}, type : {"local"}, start : {Wall(u) : u \in ClientTimes}, end : {Day},
                    ends : {"duration", "none"}, times : {1}]
    <3>1. {Wall(u) : u \in ClientTimes} \subseteq Nat
      BY <1>1, DateOfNat
    <3> QED
      BY <1>1, <2>2, <3>1, ClockConstants DEF Component
  <2>3. CASE c \in [uid : {NoUid}, type : {"date"}, start : {DateOf(Wall(u)) : u \in ClientTimes}, end : {0},
                    ends : {"none"}, times : {2}]
    <3>1. {DateOf(Wall(u)) : u \in ClientTimes} \subseteq Nat
      BY <1>1, DateOfNat
    <3> QED
      BY <1>1, <2>3, <3>1, ClockConstants DEF Component
  <2> QED
    BY <2>1, <2>2, <2>3 DEF ClientComponents
<1>3. Occurrences(c) # {}
  <2>1. 0 \in 0..c.times - 1
    BY <1>2
  <2> QED
    BY <2>1 DEF Occurrences
<1>4. ASSUME NEW o \in Occurrences(c)
      PROVE  Shape(o) /\ o.uid = c.uid /\ Days(o) = Dates(ToEvent(o))
  <2>1. PICK k \in Nat : o.start = c.start + k /\ o.end = IF c.ends = "dtend" THEN c.end + k ELSE c.end
    BY <1>2, OccurrenceFields
  <2>2. o \in Component /\ o.uid = c.uid /\ o.type = c.type /\ o.ends = c.ends
    BY <1>2, OccurrenceFields
  <2>3. Shape(o)
    BY <1>2, <2>1, <2>2 DEF Shape, Component
  <2>4. Days(o) = Touched(o)
    BY <1>2, <2>2 DEF Days
  <2>5. OnItsDays(o)
    BY <2>3, ShapesOnTheirDays
  <2>6. Touched(o) = Span(Starts(o), Ends(o))
    BY <2>5, SpanIsTouched DEF Touched, OnItsDays
  <2> QED
    BY <2>2, <2>3, <2>4, <2>5, <2>6 DEF OnItsDays
<1> QED
  BY <1>2, <1>3, <1>4

-----------------------------------------------------------------------------
(* The form.                                                               *)

\* What create_event() goes on with.
Accepted(f) ==
    /\ f.start \in 0..LastMoment /\ EndOf(f) \in Nat
    /\ InOrder(f)
    /\ YearOf(f.start) \in MinYear..MaxYear

\* What parse_event_form() makes sure of.
LEMMA ValidIsAccepted ==
    ASSUME NEW f \in ValidForms
    PROVE  Accepted(f)
<1>1. /\ \A t \in FormTimes : t \in Nat
      /\ Hour \in Nat
  BY AddEventAssumption, ClockConstants DEF Hour
<1>2. InOrder(f) /\ YearOf(f.start) \in MinYear..MaxYear
  BY DEF Valid, ValidForms
<1>3. CASE f \in Forms
  <2>1. f.start \in FormTimes /\ f.end \in FormTimes \cup {Blank}
    BY <1>3 DEF Valid, ValidForms, Forms
  <2>2. f.start \in 0..LastMoment /\ f.start \in Nat
    BY <1>1, <2>1, AddEventAssumption
  <2>3. f.end # Blank => f.end \in Nat
    BY <1>1, <2>1
  <2>4. EndOf(f) \in Nat
    BY <1>1, <2>2, <2>3 DEF EndOf
  <2> QED
    BY <1>2, <2>2, <2>4 DEF Accepted
<1>4. CASE f \in Suggested
  <2> DEFINE start(now) == (now - (now % Hour)) + Hour
  <2>1. /\ \E w \in FormTimes :
               f = [texts |-> TRUE, start |-> start(Wall(Utc(w))), end |-> start(Wall(Utc(w))) + Hour, allDay |-> FALSE]
        /\ f.end <= LastMoment
    BY <1>4 DEF Suggested
  <2>2. PICK w \in FormTimes : f.start = start(Wall(Utc(w))) /\ f.end = start(Wall(Utc(w))) + Hour
    BY <2>1
  <2>3. start(Wall(Utc(w))) \in Nat
    <3> DEFINE now == Wall(Utc(w))
    <3>0. now \in Nat
      BY <1>1, DateOfNat
    <3> HIDE DEF now
    <3>1. now \in Nat /\ Hour \in Nat \ {0}
      BY <3>0, ClockConstants DEF Hour
    <3>2. now \div Hour \in Int /\ now % Hour \in 0..Hour - 1
      BY <3>1, Division
    <3>3. (now - (now % Hour)) + Hour \in Nat
      BY <3>1, <3>2
    <3> QED
      BY <3>3 DEF now
  <2> HIDE DEF start
  <2>4. f.start \in 0..LastMoment /\ f.end \in Nat
    BY <1>1, <2>1, <2>2, <2>3, AddEventAssumption
  <2>5. EndOf(f) \in Nat
    BY <1>1, <2>4 DEF EndOf
  <2> QED
    BY <1>2, <2>4, <2>5 DEF Accepted
<1> QED
  BY <1>3, <1>4 DEF ValidForms, Submitted

\* The event of a form is drawn on the days that were asked for, and its end is
\* stored after its start unless it starts at a skipped time.
LEMMA BuiltOnItsDays ==
    ASSUME NEW f, Accepted(f), NEW uid \in Uid
    PROVE  LET c == BuildEvent(f, uid) IN
           /\ Shape(c)
           /\ c.uid = uid /\ Occurrences(c) = {c}
           /\ Dates(ToEvent(c)) = DaysAskedFor(f)
           /\ StartDate(ToEvent(c)) = DateOf(f.start)
           /\ DateOf(f.start) \in DaysAskedFor(f)
           /\ Starts(c) < Ends(c) \/ StartIsSkipped(Starts(c), Ends(c))
<1> DEFINE c == BuildEvent(f, uid)
           v == f.start
           w == EndOf(f)
<1> HIDE DEF c, v, w
<1>1. /\ v \in Nat /\ w \in Nat /\ w - 1 \in Int
      /\ DateOf(v) \in Nat /\ DateOf(w) \in Nat /\ DateOf(w - 1) \in Int /\ Utc(v) \in Nat /\ Utc(w) \in Nat
  BY DateOfNat, DateType DEF Accepted, v, w
<1>2. c = [uid |-> uid, ends |-> "dtend", times |-> 1, type |-> IF f.allDay THEN "date" ELSE "utc",
           start |-> IF f.allDay THEN DateOf(v) ELSE Utc(v), end |-> IF f.allDay THEN DateOf(w) + 1 ELSE Utc(w)]
  BY DEF BuildEvent, c, v, w
<1>3. IF f.allDay THEN DateOf(v) <= DateOf(w) ELSE v < w
  BY DEF Accepted, InOrder, v, w
<1>4. DaysAskedFor(f) = DateOf(v)..(IF f.allDay THEN DateOf(w) ELSE DateOf(w - 1))
  BY DEF DaysAskedFor, v, w
<1>5. c \in Component
  BY <1>1, <1>2 DEF Component
<1>6. c.uid = uid /\ Occurrences(c) = {c}
  BY <1>2, <1>5, OccursOnce
<1>7. CASE f.allDay
  <2>1. c.type = "date" /\ c.ends = "dtend" /\ c.start = DateOf(v) /\ c.end = DateOf(w) + 1 /\ c.start < c.end
    BY <1>1, <1>2, <1>3, <1>7
  <2>2. Shape(c)
    BY <1>5, <2>1 DEF Shape
  <2>3. /\ Starts(c) = Midnight(c.start) /\ Ends(c) = Midnight(c.end)
        /\ ToEvent(c).start = c.start * Day /\ ToEvent(c).end = c.end * Day
    BY <2>1 DEF Starts, Ends, Instant, AsDatetime, Midnight, ToEvent
  <2>4. c.start \in Int /\ c.end \in Int /\ c.start * Day \in Int /\ c.end * Day \in Int
    BY <1>1, <2>1, Multiples, ClockConstants
  <2>5. Starts(c) < Ends(c)
    BY <2>1, <2>3, <2>4, MidnightsIncrease
  <2>6. DateOf(c.start * Day) = c.start /\ DateOf(c.end * Day - 1) = c.end - 1
    <3>1. (c.end - 1) * Day \in Int /\ c.end * Day = (c.end - 1) * Day + Day
      <4>1. c.end - 1 \in Int /\ (c.end - 1) + 1 = c.end
        BY <2>4
      <4> QED
        BY <4>1, Multiples, ClockConstants
    <3>2. DateOf(c.start * Day) = c.start
      BY <2>4, DateIs, ClockConstants
    <3>3. c.end - 1 \in Int /\ c.end * Day - 1 \in Int
      BY <2>4
    <3>4. (c.end - 1) * Day <= c.end * Day - 1 /\ c.end * Day - 1 < (c.end - 1) * Day + Day
      BY <2>4, <3>1, ClockConstants
    <3> QED
      BY <3>2, <3>3, <3>4, DateIs
  <2>7. c.start * Day < c.end * Day
    <3>1. c.start * Day + Day <= c.end * Day
      BY <2>1, <2>4, Multiples, ClockConstants
    <3> QED
      BY <2>4, <3>1, ClockConstants
  <2>8. Dates(ToEvent(c)) = c.start..c.end - 1 /\ StartDate(ToEvent(c)) = c.start
    BY <2>3, <2>4, <2>6, <2>7 DEF Dates, StartDate, EndDate
  <2>9. DaysAskedFor(f) = DateOf(v)..DateOf(w)
    BY <1>4, <1>7
  <2>10. Dates(ToEvent(c)) = DaysAskedFor(f) /\ StartDate(ToEvent(c)) = DateOf(v) /\ DateOf(v) \in DaysAskedFor(f)
    BY <1>1, <1>3, <1>7, <2>1, <2>8, <2>9
  <2> QED
    BY <1>6, <2>2, <2>5, <2>10 DEF c, v
<1>8. CASE ~f.allDay
  <2>1. c.type = "utc" /\ c.ends = "dtend" /\ c.start = Utc(v) /\ c.end = Utc(w) /\ v < w
    BY <1>2, <1>3, <1>8
  <2>2. Starts(c) = Utc(v) /\ Ends(c) = Utc(w)
    BY <2>1 DEF Starts, Ends, Instant
  <2>3. ASSUME Utc(w) <= Utc(v)
        PROVE  /\ StartIsSkipped(Utc(v), Utc(w))
               /\ \E x \in Summers : v >= x.spring /\ w <= x.spring + 2 * Shift
    <3>1. PICK x \in Summers : Utc(w) = w - Shift /\ x.spring <= w - Shift /\ w - Shift < x.autumn
      BY <1>1, <2>1, <2>3, Unshifted, ClockConstants
    <3>2. Utc(v) = v /\ ~ (x.spring <= v - Shift /\ v - Shift < x.autumn)
      BY <1>1, <2>1, <2>3, <3>1, Unshifted, ClockConstants
    <3>3. x.spring \in Nat /\ x.autumn \in Nat /\ x.spring + Shift < x.autumn
      BY SummersAreApart
    <3>4. x.spring <= w - Shift /\ w - Shift <= v /\ v < x.spring + Shift
      BY <1>1, <2>1, <2>3, <3>1, <3>2, <3>3, ClockConstants
    <3> QED
      BY <1>1, <3>1, <3>2, <3>3, <3>4, ClockConstants DEF StartIsSkipped
  <2>4. Shape(c)
    BY <1>1, <1>5, <2>1, <2>3 DEF Shape, Turned
  <2>5. /\ DateOf(Wall(Utc(v))) = DateOf(v)
        /\ DateOf(Wall(Utc(w) - 1)) = DateOf(w - 1)
    BY <1>1, StoredDate
  <2>6. Utc(w) <= Utc(v) => DateOf(v) = DateOf(w - 1)
    <3> SUFFICES ASSUME NEW x \in Summers, v >= x.spring, w <= x.spring + 2 * Shift
                 PROVE  DateOf(v) = DateOf(w - 1)
      BY <2>3
    <3>1. ASSUME NEW d \in Int
          PROVE  v >= d * Day <=> w - 1 >= d * Day
      <4>1. d * Day \in Int /\ Regular(d * Day, x)
        BY MidnightTimes
      <4>2. x.spring \in Nat /\ x.autumn \in Nat /\ x.spring + Shift < x.autumn
        BY SummersAreApart
      <4> QED
        BY <1>1, <2>1, <4>1, <4>2, ClockConstants DEF Regular
    <3> QED
      BY <1>1, <3>1, SameDate
  <2>7. OnItsDays(c)
    BY <2>4, ShapesOnTheirDays
  <2>8. Dates(ToEvent(c)) = DateOf(v)..DateOf(w - 1)
    BY <1>1, <2>2, <2>5, <2>6, <2>7 DEF OnItsDays, Span
  <2>9. StartDate(ToEvent(c)) = DateOf(v)
    BY <2>2, <2>5, <2>7 DEF OnItsDays
  <2>10. DateOf(v) <= DateOf(w - 1)
    <3>1. DateOf(v) * Day <= v /\ DateOf(v) * Day \in Int
      BY <1>1, DateIs
    <3> QED
      BY <1>1, <2>1, <3>1, DateIs
  <2>11. Dates(ToEvent(c)) = DaysAskedFor(f) /\ DateOf(v) \in DaysAskedFor(f)
    BY <1>1, <1>4, <1>8, <2>8, <2>10
  <2> QED
    BY <1>1, <1>6, <2>2, <2>3, <2>4, <2>9, <2>11 DEF c, v
<1> QED
  BY <1>7, <1>8

-----------------------------------------------------------------------------
(* The months.                                                             *)

InMonth(d, m) == MonthStart[m] <= d /\ d < MonthStart[m + 1]

\* The months follow each other.
LEMMA MonthStarts ==
    ASSUME NEW m \in 0..LastMonth
    PROVE  MonthStart[m] \in Nat /\ MonthStart[m + 1] \in Nat /\ MonthStart[m] < MonthStart[m + 1]
<1>1. m \in 0..LastMonth + 1 /\ m + 1 \in 0..LastMonth + 1
  BY ClockConstants
<1> QED
  BY <1>1, GridAssumption

\* A month's grid is made of whole weeks that hold its days.
LEMMA MonthWindow ==
    ASSUME NEW m \in 0..LastMonth
    PROVE  /\ FirstDate(m) \in Int /\ LastDate(m) \in Int
           /\ \A d \in Int : InMonth(d, m) => d \in FirstDate(m)..LastDate(m)
<1> DEFINE a == MonthStart[m]
           b == MonthStart[m + 1] - 1
<1>1. a \in Int /\ b \in Int
  BY MonthStarts
<1>2. /\ FirstDate(m) = a - (a % Week) /\ LastDate(m) = (b - (b % Week)) + Week - 1
  BY DEF FirstDate, LastDate, Sunday
<1>3. \A d \in Int : InMonth(d, m) => a <= d /\ d <= b
  BY MonthStarts DEF InMonth
<1> HIDE DEF a, b
<1>4. a % Week \in 0..Week - 1 /\ b % Week \in 0..Week - 1
  BY <1>1, Division, ClockConstants
<1>5. FirstDate(m) \in Int /\ LastDate(m) \in Int /\ FirstDate(m) <= a /\ b <= LastDate(m)
  BY <1>1, <1>2, <1>4, ClockConstants
<1> QED
  BY <1>1, <1>3, <1>5

\* Every moment there is falls in a month.
LEMMA MonthOfMoment ==
    ASSUME NEW w \in 0..LastMoment
    PROVE  MonthOf(w) \in 0..LastMonth /\ InMonth(DateOf(w), MonthOf(w))
<1> DEFINE d == DateOf(w)
<1>1. LastMoment \in Nat /\ LastMonth + 1 \in 0..LastMonth + 1
  BY AddEventAssumption, ClockConstants
<1>2. d \in Nat /\ d < MonthStart[LastMonth + 1]
  <2>1. DateOf(LastMoment) \in Int /\ DateOf(w) \in Int /\ DateOf(w) <= DateOf(LastMoment)
    <3>1. LastMoment \in Int /\ w \in Int /\ w <= LastMoment
      BY <1>1
    <3>2. DateOf(w) \in Int /\ DateOf(w) * Day <= w /\ DateOf(w) * Day \in Int
      BY <3>1, DateType, DateIs
    <3>3. LastMoment >= DateOf(w) * Day
      BY <3>1, <3>2
    <3> QED
      BY <3>1, <3>2, <3>3, DateIs
  <2>2. 0 * Day = 0 /\ DateOf(w) >= 0
    BY <1>1, DateIs, ClockConstants
  <2>3. MonthStart[LastMonth + 1] \in Nat
    BY <1>1, GridAssumption
  <2> QED
    BY <2>1, <2>2, <2>3, AddEventAssumption
<1> HIDE DEF d
<1>3. \E m \in 0..LastMonth : InMonth(d, m)
  <2> SUFFICES ASSUME \A m \in 0..LastMonth : ~ InMonth(d, m)
               PROVE  FALSE
    OBVIOUS
  <2> DEFINE T == {n \in Nat : n <= LastMonth + 1 => MonthStart[n] <= d}
  <2>1. 0 \in T
    BY <1>2, GridAssumption
  <2>2. ASSUME NEW n \in Nat, n \in T
        PROVE  n + 1 \in T
    <3> SUFFICES ASSUME n + 1 <= LastMonth + 1
                 PROVE  MonthStart[n + 1] <= d
      OBVIOUS
    <3>1. n \in 0..LastMonth /\ MonthStart[n] <= d
      BY <2>2, ClockConstants
    <3> QED
      BY <1>2, <3>1, MonthStarts DEF InMonth
  <2>3. \A n \in Nat : n \in T
    <3> HIDE DEF T
    <3> QED
      BY <2>1, <2>2, Induction
  <2>4. MonthStart[LastMonth + 1] <= d /\ MonthStart[LastMonth + 1] \in Nat
    BY <1>1, <2>3, ClockConstants, GridAssumption
  <2> QED
    BY <1>2, <2>4
<1>4. MonthOf(w) = CHOOSE m \in 0..LastMonth : d \in MonthStart[m]..MonthStart[m + 1] - 1
  BY DEF MonthOf, d
<1>5. \A m \in 0..LastMonth : d \in MonthStart[m]..MonthStart[m + 1] - 1 <=> InMonth(d, m)
  BY <1>2, MonthStarts DEF InMonth
<1>6. MonthOf(w) \in 0..LastMonth /\ d \in MonthStart[MonthOf(w)]..MonthStart[MonthOf(w) + 1] - 1
  BY <1>3, <1>4, <1>5
<1> QED
  BY <1>5, <1>6 DEF d

\* The months of a year.
LEMMA YearBounds ==
    ASSUME NEW w \in 0..LastMoment
    PROVE  /\ YearOf(w) \in Int /\ YearOf(w) * YearMonths \in Int
           /\ YearOf(w) * YearMonths <= MonthOf(w) /\ MonthOf(w) < YearOf(w) * YearMonths + YearMonths
<1>1. MonthOf(w) \in Int
  BY MonthOfMoment
<1>2. YearOf(w) \in Int
  BY <1>1, Division, ClockConstants DEF YearOf
<1> QED
  BY <1>1, <1>2, Division, Multiples, ClockConstants DEF YearOf

\* The years that can be shown have months.
LEMMA MonthsExist == Months \subseteq 0..LastMonth
<1> DEFINE y == YearOf(LastMoment)
<1>1. /\ MinYear \in Nat /\ MaxYear \in Nat /\ MaxYear < y
      /\ LastMoment \in 0..LastMoment
  BY AddEventAssumption
<1>2. /\ y \in Int /\ y * YearMonths <= MonthOf(LastMoment) /\ MonthOf(LastMoment) \in 0..LastMonth
      /\ y * YearMonths \in Int
  BY <1>1, YearBounds, MonthOfMoment
<1> HIDE DEF y
<1>3. /\ MinYear * YearMonths \in Nat /\ MaxYear * YearMonths \in Int
      /\ MaxYear * YearMonths + YearMonths <= y * YearMonths
  <2>1. MinYear * YearMonths \in Nat
    BY <1>1, ClockConstants
  <2> QED
    BY <1>1, <1>2, <2>1, Multiples, ClockConstants
<1> QED
  BY <1>2, <1>3, ClockConstants DEF Months

\* An accepted form starts in a month that can be shown.
LEMMA MonthOfAYear ==
    ASSUME NEW w \in 0..LastMoment, YearOf(w) \in MinYear..MaxYear
    PROVE  MonthOf(w) \in Months
<1> DEFINE m == MonthOf(w)
           y == YearOf(w)
<1>1. /\ m \in Int /\ MinYear \in Int /\ MaxYear \in Int
      /\ y \in Int /\ y * YearMonths <= m /\ m < y * YearMonths + YearMonths
      /\ MinYear <= y /\ y <= MaxYear
  BY MonthOfMoment, YearBounds, AddEventAssumption
<1> HIDE DEF m, y
<1>2. /\ MinYear * YearMonths \in Int /\ MaxYear * YearMonths \in Int /\ y * YearMonths \in Int
      /\ MinYear < y => MinYear * YearMonths + YearMonths <= y * YearMonths
      /\ y < MaxYear => y * YearMonths + YearMonths <= MaxYear * YearMonths
  BY <1>1, Multiples, ClockConstants
<1>3. MinYear * YearMonths <= m /\ m <= MaxYear * YearMonths + YearMonths - 1
  BY <1>1, <1>2, ClockConstants
<1> QED
  BY <1>1, <1>2, <1>3, ClockConstants DEF Months, m

-----------------------------------------------------------------------------
(* The inductive invariant: what is stored or on its way came from a client *)
(* or from a form that was accepted and whose days `asked` remembers, and   *)
(* every component of a form is waited for or was answered.                 *)

Held == stored \cup sent

FromForm(c, f) ==
    /\ Accepted(f)
    /\ c.uid \in Uid
    /\ c = BuildEvent(f, c.uid)
    /\ asked[c.uid] = DaysAskedFor(f)

TypeOK ==
    /\ IsFiniteSet(stored)
    /\ stored \subseteq Component /\ sent \subseteq Component
    /\ pc \in [Post -> {"idle", "put", "added"}]
    /\ draft \in [Post -> Component \cup {None}]
    /\ month \in [Post -> Months \cup {None}]
    /\ asked \in [Uid -> SUBSET Int]
    /\ answer \in [Uid -> {"added", "refused", "lost", None}]

StoredInv == \A c \in Held : c \in ClientComponents \/ \E f \in Submitted : FromForm(c, f)

\* A component of a form is in one place, and its UID is its own.
UidInv ==
    /\ \A c \in sent : c.uid \in Uid /\ c \notin stored
    /\ \A c, d \in Held : c.uid \in Uid /\ c.uid = d.uid => c = d

\* What a handler that is waiting, or has answered with "Added", knows.
DraftInv ==
    \A p \in Post :
        /\ pc[p] # "idle" => \E f \in Submitted : FromForm(draft[p], f) /\ month[p] = MonthOfStart(f)
        /\ pc[p] = "put" => draft[p] \in Held /\ answer[draft[p].uid] = None
        /\ pc[p] = "added" => draft[p] \in stored

\* A POST waits for its own component.
WaitInv ==
    \A p, q \in Post : pc[p] = "put" /\ pc[q] = "put" /\ draft[p] = draft[q] => p = q

Waiting(c) == \E p \in Post : pc[p] = "put" /\ draft[p] = c

AnswerInv ==
    /\ \A u \in Uid : answer[u] = "added" => u \in UidsOf(stored)
    /\ \A u \in Uid : answer[u] = "refused" => u \notin UidsOf(Held)
    /\ \A c \in Held : c.uid \in Uid =>
          answer[c.uid] = "lost" \/ (answer[c.uid] = "added" /\ c \in stored) \/ Waiting(c)

IInv == TypeOK /\ StoredInv /\ UidInv /\ DraftInv /\ WaitInv /\ AnswerInv

LEMMA InitIInv == Init => IInv
  BY FS_EmptySet, AddEventAssumption
  DEF Init, IInv, TypeOK, StoredInv, UidInv, DraftInv, WaitInv, AnswerInv, Held, UidsOf

\* What is known of an event of the form.
LEMMA FormComponents ==
    ASSUME NEW c, NEW f, FromForm(c, f)
    PROVE  /\ Shape(c) /\ c \in Component
           /\ Occurrences(c) = {c}
           /\ Dates(ToEvent(c)) = Days(c)
           /\ StartDate(ToEvent(c)) = DateOf(f.start)
           /\ DateOf(f.start) \in Days(c)
           /\ Starts(c) < Ends(c) \/ StartIsSkipped(Starts(c), Ends(c))
<1>1. Accepted(f) /\ c.uid \in Uid /\ c = BuildEvent(f, c.uid) /\ Days(c) = DaysAskedFor(f)
  BY DEF FromForm, Days
<1>2. /\ Shape(c)
      /\ Occurrences(c) = {c}
      /\ Dates(ToEvent(c)) = DaysAskedFor(f)
      /\ StartDate(ToEvent(c)) = DateOf(f.start)
      /\ DateOf(f.start) \in DaysAskedFor(f)
      /\ Starts(c) < Ends(c) \/ StartIsSkipped(Starts(c), Ends(c))
  BY <1>1, BuiltOnItsDays
<1> QED
  BY <1>1, <1>2 DEF Shape

\* A step that leaves the days of a UID alone leaves its component a form's.
LEMMA KeepsForm ==
    ASSUME NEW c, NEW f, FromForm(c, f), asked'[c.uid] = asked[c.uid]
    PROVE  FromForm(c, f)'
  BY DEF FromForm

\* A step that adds no component, or one, and keeps the days of the others.
LEMMA KeepsStored ==
    ASSUME StoredInv,
           \A c \in Held' : \/ c \in Held /\ (c.uid \in Uid => asked'[c.uid] = asked[c.uid])
                            \/ c \in ClientComponents
                            \/ \E f \in Submitted : FromForm(c, f)'
    PROVE  StoredInv'
<1> SUFFICES ASSUME NEW c \in Held'
             PROVE  c \in ClientComponents \/ \E f \in Submitted : FromForm(c, f)'
  BY DEF StoredInv
<1>1. ASSUME c \in Held, c.uid \in Uid => asked'[c.uid] = asked[c.uid],
             NEW f \in Submitted, FromForm(c, f)
      PROVE  FromForm(c, f)'
  <2>1. c.uid \in Uid
    BY <1>1 DEF FromForm
  <2> QED
    BY <1>1, <2>1, KeepsForm
<1> QED
  BY <1>1 DEF StoredInv

LEMMA AcceptIInv ==
    ASSUME IInv, NEW p \in Post, NEW f \in ValidForms, NEW uid \in Uid, Accept(p, f, uid)
    PROVE  IInv'
<1> DEFINE c == BuildEvent(f, uid)
<1>1. /\ pc[p] # "put" /\ uid \notin UidsOf(Held)
      /\ draft' = [draft EXCEPT ![p] = c] /\ month' = [month EXCEPT ![p] = MonthOfStart(f)]
      /\ sent' = sent \cup {c} /\ stored' = stored
      /\ asked' = [asked EXCEPT ![uid] = DaysAskedFor(f)]
      /\ answer' = [answer EXCEPT ![uid] = None]
      /\ pc' = [pc EXCEPT ![p] = "put"]
  BY DEF Accept, Held
<1>2. Accepted(f) /\ f \in Submitted
  BY ValidIsAccepted DEF ValidForms
<1>3. c.uid = uid
  BY DEF BuildEvent
<1> HIDE DEF c
<1>4. \A d \in Held : d.uid # uid
  BY <1>1 DEF UidsOf
<1>5. c \notin Held
  BY <1>3, <1>4
<1>6. Held' = Held \cup {c}
  BY <1>1 DEF Held
<1>7. /\ asked'[uid] = DaysAskedFor(f) /\ \A u \in Uid \ {uid} : asked'[u] = asked[u]
      /\ answer'[uid] = None /\ \A u \in Uid \ {uid} : answer'[u] = answer[u]
      /\ draft'[p] = c /\ month'[p] = MonthOfStart(f) /\ pc'[p] = "put"
      /\ \A q \in Post \ {p} : draft'[q] = draft[q] /\ month'[q] = month[q] /\ pc'[q] = pc[q]
  BY <1>1 DEF IInv, TypeOK
<1>8. FromForm(c, f)'
  BY <1>2, <1>3, <1>7 DEF FromForm, c
<1>9. c \in Component
  BY <1>2, BuiltOnItsDays DEF Shape, c
<1>10. TypeOK'
  <2>1. DaysAskedFor(f) \subseteq Int
    BY DEF DaysAskedFor
  <2>2. MonthOfStart(f) \in Months
    BY <1>2, MonthOfAYear, MonthsExist DEF Accepted, MonthOfStart
  <2> QED
    BY <1>1, <1>9, <2>1, <2>2 DEF IInv, TypeOK
<1>11. StoredInv'
  <2>1. \A d \in Held : d.uid \in Uid => asked'[d.uid] = asked[d.uid]
    BY <1>4, <1>7
  <2> QED
    BY <1>2, <1>6, <1>8, <2>1, KeepsStored DEF IInv
<1>12. UidInv'
  BY <1>1, <1>3, <1>4, <1>5, <1>6 DEF IInv, UidInv, Held
<1>13. DraftInv'
  <2>1. ASSUME NEW q \in Post \ {p}, pc[q] # "idle"
        PROVE  /\ draft[q].uid # uid
               /\ draft[q].uid \in Uid
               /\ \E g \in Submitted : FromForm(draft[q], g)' /\ month[q] = MonthOfStart(g)
    <3>1. PICK g \in Submitted : FromForm(draft[q], g) /\ month[q] = MonthOfStart(g)
      BY <2>1 DEF IInv, DraftInv
    <3>2. draft[q] \in Held /\ draft[q].uid \in Uid
      BY <2>1, <3>1 DEF IInv, DraftInv, TypeOK, Held, FromForm
    <3>3. draft[q].uid # uid
      BY <1>4, <3>2
    <3> QED
      BY <1>7, <3>1, <3>2, <3>3, KeepsForm
  <2> QED
    BY <1>1, <1>2, <1>3, <1>6, <1>7, <1>8, <2>1 DEF IInv, DraftInv
<1>14. WaitInv'
  <2>1. \A q \in Post \ {p} : pc[q] = "put" => draft[q] # c
    BY <1>5 DEF IInv, DraftInv
  <2> QED
    BY <1>7, <2>1 DEF IInv, WaitInv
<1>15. AnswerInv'
  <2>1. ASSUME NEW d \in Held, Waiting(d)
        PROVE  Waiting(d)'
    BY <1>1, <1>7, <2>1 DEF Waiting
  <2>2. Waiting(c)'
    BY <1>7 DEF Waiting
  <2>3. ASSUME NEW u \in Uid, answer'[u] = "added"
        PROVE  u \in UidsOf(stored)'
    BY <1>1, <1>7, <2>3, AddEventAssumption DEF IInv, AnswerInv, UidsOf
  <2>4. ASSUME NEW u \in Uid, answer'[u] = "refused"
        PROVE  u \notin UidsOf(Held)'
    <3>1. u # uid /\ answer[u] = "refused"
      BY <1>7, <2>4, AddEventAssumption
    <3> QED
      BY <1>3, <1>6, <3>1 DEF IInv, AnswerInv, UidsOf
  <2>5. ASSUME NEW d \in Held, d.uid \in Uid
        PROVE  \/ answer'[d.uid] = "lost"
               \/ answer'[d.uid] = "added" /\ d \in stored'
               \/ Waiting(d)'
    BY <1>1, <1>4, <1>7, <2>1, <2>5 DEF IInv, AnswerInv
  <2> QED
    BY <1>6, <2>2, <2>3, <2>4, <2>5 DEF AnswerInv
<1> QED
  BY <1>10, <1>11, <1>12, <1>13, <1>14, <1>15 DEF IInv

LEMMA BackendStoresIInv ==
    ASSUME IInv, NEW c \in sent, BackendStores(c)
    PROVE  IInv'
<1>1. /\ sent' = sent \ {c} /\ stored' = stored \cup {c}
      /\ pc' = pc /\ draft' = draft /\ month' = month /\ asked' = asked /\ answer' = answer
  BY DEF BackendStores, postVars
<1>2. Held' = Held
  BY <1>1 DEF Held
<1>3. TypeOK'
  BY <1>1, FS_AddElement DEF IInv, TypeOK
<1>4. StoredInv'
  BY <1>1, <1>2, KeepsStored DEF IInv
<1>5. UidInv'
  BY <1>1, <1>2 DEF IInv, UidInv
<1>6. DraftInv'
  <2>1. \A d, g : FromForm(d, g) => FromForm(d, g)'
    BY <1>1, KeepsForm
  <2> QED
    BY <1>1, <1>2, <2>1 DEF IInv, DraftInv
<1>7. WaitInv' /\ AnswerInv'
  BY <1>1, <1>2 DEF IInv, WaitInv, AnswerInv, Waiting, UidsOf
<1> QED
  BY <1>3, <1>4, <1>5, <1>6, <1>7 DEF IInv

\* A handler that gives up: its component stays where it is, or is dropped.
LEMMA FailedIInv ==
    ASSUME IInv, NEW p \in Post, NEW how \in {"refused", "lost"},
           pc[p] = "put", Failed(p, how), UNCHANGED stored,
           (how = "lost" /\ UNCHANGED <<sent, asked>>) \/ Drop(draft[p])
    PROVE  IInv'
<1> DEFINE c == draft[p]
<1>1. c \in Held /\ c.uid \in Uid /\ c \in Component
  BY DEF IInv, DraftInv, FromForm, TypeOK, Held
<1>2. /\ answer'[c.uid] = how /\ \A u \in Uid \ {c.uid} : answer'[u] = answer[u]
      /\ answer' \in [Uid -> {"added", "refused", "lost", None}]
      /\ pc'[p] = "idle"
      /\ \A q \in Post \ {p} : draft'[q] = draft[q] /\ month'[q] = month[q] /\ pc'[q] = pc[q]
      /\ pc' \in [Post -> {"idle", "put", "added"}]
      /\ draft' \in [Post -> Component \cup {None}]
      /\ month' \in [Post -> Months \cup {None}]
  BY <1>1 DEF Failed, IInv, TypeOK
<1>3. /\ sent' \subseteq sent /\ Held' \subseteq Held /\ Held \ {c} \subseteq Held'
      /\ c \in Held' => how = "lost" /\ sent' = sent /\ asked' = asked
      /\ asked' \in [Uid -> SUBSET Int]
      /\ \A u \in Uid \ {c.uid} : asked'[u] = asked[u]
  BY <1>1 DEF Drop, Held, IInv, UidInv, TypeOK
<1>4. \A d \in Held : d.uid = c.uid => d = c
  BY <1>1 DEF IInv, UidInv
<1> HIDE DEF c
<1>5. TypeOK'
  BY <1>2, <1>3 DEF IInv, TypeOK
<1>6. \A d \in Held' : d.uid \in Uid => asked'[d.uid] = asked[d.uid]
  BY <1>1, <1>3, <1>4
<1>7. StoredInv'
  BY <1>3, <1>6, KeepsStored DEF IInv
<1>8. UidInv'
  BY <1>3 DEF IInv, UidInv
<1>9. ASSUME NEW q \in Post, pc'[q] # "idle"
      PROVE  /\ q # p /\ pc'[q] = pc[q] /\ draft'[q] = draft[q] /\ month'[q] = month[q]
             /\ draft[q] \in Held' /\ draft[q].uid \in Uid
  <2>1. q # p /\ pc[q] = pc'[q] /\ draft'[q] = draft[q] /\ month'[q] = month[q] /\ pc[q] \in {"put", "added"}
    BY <1>2, <1>9
  <2>2. draft[q] \in Held /\ draft[q].uid \in Uid
    BY <2>1 DEF IInv, DraftInv, Held, FromForm
  <2>3. CASE pc[q] = "added"
    BY <2>1, <2>2, <2>3 DEF IInv, DraftInv, Held
  <2>4. CASE pc[q] = "put"
    BY <1>3, <2>1, <2>2, <2>4 DEF IInv, WaitInv, c
  <2> QED
    BY <2>1, <2>2, <2>3, <2>4
<1>10. DraftInv'
  <2>1. ASSUME NEW q \in Post, pc'[q] # "idle"
        PROVE  \E f \in Submitted : FromForm(draft[q], f)' /\ month[q] = MonthOfStart(f)
    <3>1. PICK f \in Submitted : FromForm(draft[q], f) /\ month[q] = MonthOfStart(f)
      BY <1>9, <2>1 DEF IInv, DraftInv
    <3>2. asked'[draft[q].uid] = asked[draft[q].uid]
      <4>1. draft[q] \in Held' /\ draft[q].uid \in Uid
        BY <1>9, <2>1
      <4> QED
        BY <1>6, <4>1
    <3> QED
      BY <1>9, <2>1, <3>1, <3>2, KeepsForm
  <2>2. ASSUME NEW q \in Post, pc'[q] = "put"
        PROVE  answer'[draft[q].uid] = None
    <3>1. draft[q].uid # c.uid
      BY <1>4, <1>9, <1>3, <2>2 DEF IInv, WaitInv, c
    <3> QED
      BY <1>2, <1>9, <2>2, <3>1 DEF IInv, DraftInv
  <2>3. ASSUME NEW q \in Post, pc'[q] = "added"
        PROVE  draft[q] \in stored'
    BY <1>9, <2>3 DEF IInv, DraftInv
  <2> QED
    BY <1>9, <2>1, <2>2, <2>3 DEF DraftInv
<1>11. WaitInv'
  BY <1>9 DEF IInv, WaitInv
<1>12. AnswerInv'
  <2>1. ASSUME NEW u \in Uid, answer'[u] = "added"
        PROVE  u \in UidsOf(stored)'
    BY <1>2, <2>1 DEF IInv, AnswerInv, UidsOf
  <2>2. ASSUME NEW u \in Uid, answer'[u] = "refused"
        PROVE  u \notin UidsOf(Held)'
    <3>1. CASE u = c.uid
      BY <1>2, <1>3, <1>4, <2>2, <3>1 DEF UidsOf
    <3>2. CASE u # c.uid
      BY <1>2, <1>3, <2>2, <3>2 DEF IInv, AnswerInv, UidsOf
    <3> QED
      BY <3>1, <3>2
  <2>3. ASSUME NEW d \in Held', d.uid \in Uid
        PROVE  \/ answer'[d.uid] = "lost"
               \/ answer'[d.uid] = "added" /\ d \in stored'
               \/ Waiting(d)'
    <3>1. CASE d = c
      BY <1>2, <1>3, <3>1
    <3>2. CASE d # c
      <4>1. d.uid # c.uid /\ d \in Held
        BY <1>3, <1>4, <3>2
      <4>2. Waiting(d) => Waiting(d)'
        BY <1>2, <3>2 DEF Waiting, c
      <4> QED
        BY <1>2, <2>3, <4>1, <4>2 DEF IInv, AnswerInv
    <3> QED
      BY <3>1, <3>2
  <2> QED
    BY <2>1, <2>2, <2>3 DEF AnswerInv
<1> QED
  BY <1>5, <1>7, <1>8, <1>10, <1>11, <1>12 DEF IInv

LEMMA AnsweredIInv ==
    ASSUME IInv, NEW p \in Post, Answered(p)
    PROVE  IInv'
<1> DEFINE c == draft[p]
<1>1. /\ pc[p] = "put" /\ c \in stored /\ c.uid \in Uid
      /\ UNCHANGED <<stored, sent, draft, month, asked>>
  BY DEF Answered, IInv, DraftInv, FromForm
<1>2. /\ pc'[p] = "added" /\ \A q \in Post \ {p} : pc'[q] = pc[q]
      /\ answer'[c.uid] = "added" /\ \A u \in Uid \ {c.uid} : answer'[u] = answer[u]
      /\ pc' \in [Post -> {"idle", "put", "added"}]
      /\ answer' \in [Uid -> {"added", "refused", "lost", None}]
  BY <1>1 DEF Answered, IInv, TypeOK
<1>3. Held' = Held
  BY <1>1 DEF Held
<1>4. TypeOK'
  BY <1>1, <1>2 DEF IInv, TypeOK
<1>5. StoredInv'
  BY <1>1, <1>3, KeepsStored DEF IInv
<1>6. UidInv'
  BY <1>1, <1>3 DEF IInv, UidInv
<1>7. \A d \in Held : d.uid = c.uid => d = c
  BY <1>1 DEF IInv, UidInv, Held
<1>8. WaitInv'
  BY <1>1, <1>2 DEF IInv, WaitInv
<1>9. DraftInv'
  <2>1. \A d, g : FromForm(d, g) => FromForm(d, g)'
    BY <1>1, KeepsForm
  <2>2. ASSUME NEW q \in Post, pc'[q] = "put"
        PROVE  draft[q] \in Held /\ answer'[draft[q].uid] = None
    <3>1. q # p /\ pc[q] = "put"
      BY <1>2, <2>2
    <3>2. draft[q] \in Held /\ draft[q] # c /\ draft[q].uid \in Uid /\ answer[draft[q].uid] = None
      BY <1>1, <3>1 DEF IInv, DraftInv, WaitInv, FromForm
    <3> QED
      BY <1>2, <1>7, <3>2
  <2>3. \A q \in Post : pc'[q] # "idle" => pc[q] # "idle"
    BY <1>1, <1>2
  <2>4. \A q \in Post : pc'[q] = "added" => draft[q] \in stored
    BY <1>1, <1>2 DEF IInv, DraftInv
  <2> QED
    BY <1>1, <1>3, <2>1, <2>2, <2>3, <2>4 DEF IInv, DraftInv
<1>10. AnswerInv'
  <2>1. ASSUME NEW u \in Uid, answer'[u] = "added"
        PROVE  u \in UidsOf(stored)'
    BY <1>1, <1>2, <2>1 DEF IInv, AnswerInv, UidsOf
  <2>2. ASSUME NEW u \in Uid, answer'[u] = "refused"
        PROVE  u \notin UidsOf(Held)'
    BY <1>2, <1>3, <2>2 DEF IInv, AnswerInv, UidsOf
  <2>3. ASSUME NEW d \in Held, d.uid \in Uid
        PROVE  \/ answer'[d.uid] = "lost"
               \/ answer'[d.uid] = "added" /\ d \in stored'
               \/ Waiting(d)'
    <3>1. CASE d = c
      BY <1>1, <1>2, <3>1
    <3>2. CASE d # c
      <4>1. Waiting(d) => Waiting(d)'
        BY <1>1, <1>2, <3>2 DEF Waiting
      <4> QED
        BY <1>1, <1>2, <1>7, <2>3, <3>2, <4>1 DEF IInv, AnswerInv
    <3> QED
      BY <3>1, <3>2
  <2> QED
    BY <1>3, <2>1, <2>2, <2>3 DEF AnswerInv
<1> QED
  BY <1>4, <1>5, <1>6, <1>8, <1>9, <1>10 DEF IInv

LEMMA ClientWritesIInv ==
    ASSUME IInv, NEW c \in ClientComponents, ClientWrites(c)
    PROVE  IInv'
<1>1. /\ stored' = stored \cup {c} /\ sent' = sent
      /\ pc' = pc /\ draft' = draft /\ month' = month /\ asked' = asked /\ answer' = answer
  BY DEF ClientWrites, postVars
<1>2. c \in Component /\ c.uid \notin Uid
  BY ClientComponentsOnTheirDays
<1>3. Held' = Held \cup {c}
  BY <1>1 DEF Held
<1>4. TypeOK'
  BY <1>1, <1>2, FS_AddElement DEF IInv, TypeOK
<1>5. StoredInv'
  BY <1>1, <1>3, KeepsStored DEF IInv
<1>6. UidInv'
  BY <1>1, <1>2, <1>3 DEF IInv, UidInv
<1>7. DraftInv'
  <2>1. \A d, g : FromForm(d, g) => FromForm(d, g)'
    BY <1>1, KeepsForm
  <2> QED
    BY <1>1, <1>3, <2>1 DEF IInv, DraftInv
<1>8. WaitInv' /\ AnswerInv'
  BY <1>1, <1>2, <1>3 DEF IInv, WaitInv, AnswerInv, Waiting, UidsOf
<1> QED
  BY <1>4, <1>5, <1>6, <1>7, <1>8 DEF IInv

LEMMA NextIInv == IInv /\ [Next]_vars => IInv'
<1> SUFFICES ASSUME IInv, [Next]_vars
             PROVE  IInv'
  OBVIOUS
<1>1. ASSUME NEW p \in Post, NEW f \in ValidForms, NEW uid \in Uid, Accept(p, f, uid)
      PROVE  IInv'
  BY <1>1, AcceptIInv
<1>2. CASE UNCHANGED vars
  <2>1. /\ stored' = stored /\ sent' = sent /\ pc' = pc /\ draft' = draft
        /\ month' = month /\ asked' = asked /\ answer' = answer
    BY <1>2 DEF vars, postVars
  <2>2. Held' = Held /\ \A d, g : FromForm(d, g) => FromForm(d, g)'
    BY <2>1, KeepsForm DEF Held
  <2>3. StoredInv'
    BY <2>1, <2>2, KeepsStored DEF IInv
  <2> QED
    BY <2>1, <2>2, <2>3
    DEF IInv, TypeOK, UidInv, DraftInv, WaitInv, AnswerInv, Waiting, UidsOf
<1>3. ASSUME NEW c \in sent, BackendStores(c)
      PROVE  IInv'
  BY <1>3, BackendStoresIInv
<1>4. ASSUME NEW p \in Post, Answered(p)
      PROVE  IInv'
  BY <1>4, AnsweredIInv
<1>5. ASSUME NEW p \in Post, BackendRefuses(p) \/ AnswerLost(p)
      PROVE  IInv'
  BY <1>5, FailedIInv DEF BackendRefuses, AnswerLost
<1>6. ASSUME NEW c \in ClientComponents, ClientWrites(c)
      PROVE  IInv'
  BY <1>6, ClientWritesIInv
<1> QED
  BY <1>1, <1>2, <1>3, <1>4, <1>5, <1>6 DEF Next, Submit, Refuse, Raise

LEMMA InvariantHolds == Spec => []IInv
  BY InitIInv, NextIInv, PTL DEF Spec

\* create_event() stores components of the types expand_events() reads, finitely
\* many, and remembers days for the UIDs it made.
THEOREM TypeCorrect == Spec => []TypeOK
  BY InvariantHolds, PTL DEF IInv

-----------------------------------------------------------------------------
(* What is drawn.                                                          *)

\* What is stored has a shape, and its days are known.
LEMMA StoredOnTheirDays ==
    ASSUME IInv, NEW c \in stored, NEW o \in Occurrences(c)
    PROVE  Shape(o) /\ o.uid = c.uid /\ Days(o) = Dates(ToEvent(o))
<1>1. CASE c \in ClientComponents
  BY <1>1, ClientComponentsOnTheirDays
<1>2. ASSUME NEW f, FromForm(c, f)
      PROVE  Shape(o) /\ o.uid = c.uid /\ Days(o) = Dates(ToEvent(o))
  BY <1>2, FormComponents
<1> QED
  BY <1>1, <1>2 DEF IInv, StoredInv, Held

\* In a grid, exactly the days of an occurrence show it.
LEMMA Drawn ==
    ASSUME NEW components, NEW c \in components, NEW o \in Occurrences(c), Shape(o),
           NEW m \in 0..LastMonth, NEW d \in FirstDate(m)..LastDate(m)
    PROVE  ToEvent(o) \in GroupByDate(MonthEvents(components, m), d) <=> d \in Dates(ToEvent(o))
<1>1. d \in Dates(ToEvent(o)) => Found(o, FirstDate(m), LastDate(m))
  BY MonthWindow, WindowFinds
<1>2. Found(o, FirstDate(m), LastDate(m)) => ToEvent(o) \in MonthEvents(components, m)
  BY ExpandedEvents DEF MonthEvents
<1> QED
  BY <1>1, <1>2 DEF GroupByDate

\* The grid that calendar_view() makes of every month draws every occurrence of what is stored on exactly
\* those of its days that were asked for, or that an instant of it falls on.
THEOREM EventsAreDrawnOnTheirDays == Spec => []EventsFillTheirDays
<1>1. IInv => EventsFillTheirDays
  <2> SUFFICES ASSUME IInv, NEW c \in stored, NEW m \in Months, NEW o \in Occurrences(c)
               PROVE  {d \in FirstDate(m)..LastDate(m) : ToEvent(o) \in GroupByDate(MonthEvents({c}, m), d)}
                          = Days(o) \cap FirstDate(m)..LastDate(m)
    BY DEF EventsFillTheirDays
  <2>1. Shape(o) /\ Days(o) = Dates(ToEvent(o)) /\ m \in 0..LastMonth
    BY StoredOnTheirDays, MonthsExist
  <2>2. \A d \in FirstDate(m)..LastDate(m) :
            ToEvent(o) \in GroupByDate(MonthEvents({c}, m), d) <=> d \in Days(o)
    BY <2>1, Drawn
  <2> QED
    BY <2>2
<1> QED
  BY <1>1, InvariantHolds, PTL

\* An event that parse_event_form() accepted is stored to end after it starts,
\* except for one that starts at a time the clock skips.
THEOREM OnlySkippedTimesTurnRound == Spec => []OnlySkippedTimesTurn
<1>1. IInv => OnlySkippedTimesTurn
  <2> SUFFICES ASSUME IInv, NEW c \in stored, c.uid \in Uid
               PROVE  \/ Starts(c) < Ends(c)
                      \/ /\ \E s \in Summers : Starts(c) \in s.spring..s.spring + Shift - 1
                         /\ Starts(c) - Ends(c) < Shift
    BY DEF OnlySkippedTimesTurn
  <2>1. PICK f : FromForm(c, f)
    BY ClientComponentsOnTheirDays DEF IInv, StoredInv, Held
  <2>2. Shape(c) /\ (Starts(c) < Ends(c) \/ StartIsSkipped(Starts(c), Ends(c)))
    BY <2>1, FormComponents
  <2>3. Starts(c) \in Int /\ Ends(c) \in Int
    BY <2>2, ShapesOnTheirDays DEF OnItsDays
  <2>4. ASSUME StartIsSkipped(Starts(c), Ends(c))
        PROVE  /\ \E s \in Summers : Starts(c) \in s.spring..s.spring + Shift - 1
               /\ Starts(c) - Ends(c) < Shift
    <3>1. PICK s \in Summers : s.spring <= Ends(c) /\ Ends(c) <= Starts(c) /\ Starts(c) < s.spring + Shift
      BY <2>4 DEF StartIsSkipped
    <3>2. s.spring \in Nat
      BY SummersAreApart
    <3> QED
      BY <2>3, <3>1, <3>2, ClockConstants
  <2> QED
    BY <2>2, <2>4
<1> QED
  BY <1>1, InvariantHolds, PTL

\* The redirect create_event() answers with leads to a month that draws the event.
THEOREM RedirectLeadsToTheEvent == Spec => []RedirectShowsIt
<1>1. IInv => RedirectShowsIt
  <2> SUFFICES ASSUME IInv, NEW p \in Post, pc[p] = "added"
               PROVE  LET e == ToEvent(draft[p]) IN
                      /\ draft[p] \in stored
                      /\ month[p] \in Months
                      /\ e \in GroupByDate(MonthEvents(stored, month[p]), StartDate(e))
                      /\ MonthOf(e.start) = month[p]
    BY DEF RedirectShowsIt
  <2> DEFINE c == draft[p]
             m == month[p]
             e == ToEvent(c)
             d == StartDate(e)
  <2>1. PICK f \in Submitted : FromForm(c, f) /\ m = MonthOfStart(f) /\ c \in stored
    BY DEF IInv, DraftInv
  <2>2. Shape(c) /\ Occurrences(c) = {c} /\ d = DateOf(f.start) /\ d \in Dates(e)
    BY <2>1, FormComponents
  <2>3. f.start \in 0..LastMoment /\ YearOf(f.start) \in MinYear..MaxYear
    BY <2>1 DEF FromForm, Accepted
  <2>4. m = MonthOf(f.start) /\ m \in Months /\ m \in 0..LastMonth
    BY <2>1, <2>3, MonthOfAYear, MonthsExist DEF MonthOfStart
  <2>5. d \in Int /\ InMonth(d, m)
    BY <2>2, <2>3, <2>4, MonthOfMoment, DateType
  <2>6. e.start \in Int /\ d = DateOf(e.start)
    BY <2>2, ShapesOnTheirDays DEF OnItsDays, StartDate
  <2>7. MonthOf(e.start) = m
    BY <2>2, <2>4, <2>6 DEF MonthOf
  <2>8. e \in GroupByDate(MonthEvents(stored, m), d)
    BY <2>1, <2>2, <2>4, <2>5, MonthWindow, Drawn
  <2> QED
    BY <2>1, <2>4, <2>7, <2>8
<1> QED
  BY <1>1, InvariantHolds, PTL

-----------------------------------------------------------------------------
(* Copies.                                                                 *)

\* An "Added" is true, a copy of a form in the collection belongs to a POST of its
\* own, and no PUT that the backend refused is there, for any number of POSTs of
\* the same form at once or after each other.
THEOREM CopiesAccounted == Spec => []CopiesAreAccountedFor
<1>1. IInv => CopiesAreAccountedFor
  BY DEF IInv, UidInv, AnswerInv, Waiting, Held, CopiesAreAccountedFor
<1> QED
  BY <1>1, InvariantHolds, PTL

-----------------------------------------------------------------------------
(* Sorting, and passing over what was sorted.                              *)

LEMMA FiniteImage ==
    ASSUME NEW S, IsFiniteSet(S), NEW f, DOMAIN f = S
    PROVE  IsFiniteSet({f[x] : x \in S})
<1> DEFINE g == [x \in S |-> f[x]]
           T == {f[x] : x \in S}
<1>1. g \in Surjection(S, T)
  BY DEF Surjection
<1> QED
  BY <1>1, FS_Surjection

Events(S) == IsFiniteSet(S) /\ \A e \in S : e.start \in Int

LEMMA RemoveEvent ==
    ASSUME NEW S, Events(S), NEW x \in S, NEW n \in Nat, Cardinality(S) = n + 1
    PROVE  Events(S \ {x}) /\ Cardinality(S \ {x}) = n
<1>1. IsFiniteSet(S) /\ \A e \in S : e.start \in Int
  BY DEF Events
<1>2. IsFiniteSet(S \ {x}) /\ Cardinality(S \ {x}) = Cardinality(S) - 1
  BY <1>1, FS_RemoveElement
<1> QED
  BY <1>1, <1>2 DEF Events

\* A finite set of events has a latest one ...
LEMMA LatestExists ==
    ASSUME NEW S, Events(S), S # {}
    PROVE  \E x \in S : \A y \in S : y.start <= x.start
<1> DEFINE Latest(T) == T = {} \/ \E x \in T : \A y \in T : y.start <= x.start
           N == {n \in Nat : \A T : Events(T) /\ Cardinality(T) = n => Latest(T)}
<1>1. 0 \in N
  BY FS_EmptySet DEF Events
<1>2. ASSUME NEW n \in Nat, n \in N
      PROVE  n + 1 \in N
  <2> SUFFICES ASSUME NEW T, Events(T), Cardinality(T) = n + 1
               PROVE  Latest(T)
    OBVIOUS
  <2>1. T # {}
    BY FS_EmptySet
  <2>2. PICK x \in T : TRUE
    BY <2>1
  <2> DEFINE U == T \ {x}
  <2>3. Events(U) /\ Cardinality(U) = n
    BY <2>2, RemoveEvent
  <2>4. Latest(U)
    BY <1>2, <2>3
  <2>5. CASE U = {}
    <3>1. T = {x} /\ x.start \in Int
      BY <2>2, <2>5 DEF Events
    <3> QED
      BY <3>1
  <2>6. ASSUME NEW y \in U, \A z \in U : z.start <= y.start
        PROVE  Latest(T)
    <3>1. \A z \in T : z.start \in Int
      BY DEF Events
    <3>2. CASE x.start <= y.start
      BY <2>6, <3>1, <3>2
    <3>3. CASE y.start <= x.start
      BY <2>6, <3>1, <3>3
    <3> QED
      BY <2>2, <3>1, <3>2, <3>3
  <2> QED
    BY <2>4, <2>5, <2>6
<1> HIDE DEF N
<1>3. Cardinality(S) \in Nat
  BY FS_CardinalityType DEF Events
<1>4. Cardinality(S) \in N
  BY <1>1, <1>2, <1>3, Induction
<1> QED
  BY <1>4 DEF N

Sorted(s) == \A i, j \in DOMAIN s : i < j => s[i].start <= s[j].start

\* ... and so can be sorted.
LEMMA SortedExists ==
    ASSUME NEW S, Events(S)
    PROVE  \E s \in SetToSeqs(S) : Sorted(s)
<1> DEFINE N == {n \in Nat : \A T : Events(T) /\ Cardinality(T) = n => \E s \in SetToSeqs(T) : Sorted(s)}
<1>1. 0 \in N
  <2> SUFFICES ASSUME NEW T, Events(T), Cardinality(T) = 0
               PROVE  \E s \in SetToSeqs(T) : Sorted(s)
    OBVIOUS
  <2>1. T = {} /\ 1..Cardinality(T) = {}
    BY FS_EmptySet DEF Events
  <2> DEFINE s == [i \in 1..Cardinality(T) |-> i]
  <2>2. s \in [1..Cardinality(T) -> T] /\ DOMAIN s = {}
    BY <2>1
  <2> HIDE DEF s
  <2>3. s \in SetToSeqs(T) /\ Sorted(s)
    BY <2>1, <2>2 DEF SetToSeqs, Sorted
  <2> QED
    BY <2>3
<1>2. ASSUME NEW n \in Nat, n \in N
      PROVE  n + 1 \in N
  <2> SUFFICES ASSUME NEW T, Events(T), Cardinality(T) = n + 1
               PROVE  \E s \in SetToSeqs(T) : Sorted(s)
    OBVIOUS
  <2>1. T # {}
    BY FS_EmptySet
  <2>2. PICK x \in T : \A y \in T : y.start <= x.start
    BY <2>1, LatestExists
  <2> DEFINE U == T \ {x}
  <2>3. Events(U) /\ Cardinality(U) = n
    BY <2>2, RemoveEvent
  <2>4. PICK s \in SetToSeqs(U) : Sorted(s)
    BY <1>2, <2>3
  <2>5. s \in [1..n -> U] /\ \A i, j \in 1..n : i # j => s[i] # s[j]
    BY <2>3, <2>4 DEF SetToSeqs
  <2> DEFINE t == [i \in 1..n + 1 |-> IF i = n + 1 THEN x ELSE s[i]]
  <2>6. \A i \in 1..n + 1 : i # n + 1 => i \in 1..n /\ t[i] = s[i] /\ t[i] \in U
    BY <2>5
  <2>7. t \in [1..n + 1 -> T] /\ t[n + 1] = x
    BY <2>2, <2>6
  <2> HIDE DEF t
  <2>8. \A i, j \in 1..n + 1 : i # j => t[i] # t[j]
    BY <2>5, <2>6, <2>7
  <2>9. t \in SetToSeqs(T)
    BY <2>7, <2>8 DEF SetToSeqs
  <2>10. ASSUME NEW i \in 1..n + 1, NEW j \in 1..n + 1, i < j
         PROVE  t[i].start <= t[j].start
    <3>1. i \in 1..n /\ t[i] = s[i] /\ t[i] \in U
      BY <2>6, <2>10
    <3>2. CASE j = n + 1
      BY <2>2, <2>7, <3>1, <3>2
    <3>3. CASE j # n + 1
      BY <2>4, <2>5, <2>6, <2>10, <3>1, <3>3 DEF Sorted
    <3> QED
      BY <3>2, <3>3
  <2>11. Sorted(t)
    BY <2>7, <2>10 DEF Sorted
  <2> QED
    BY <2>9, <2>11
<1> HIDE DEF N
<1>3. Cardinality(S) \in Nat
  BY FS_CardinalityType DEF Events
<1>4. Cardinality(S) \in N
  BY <1>1, <1>2, <1>3, Induction
<1> QED
  BY <1>4 DEF N

\* A sequence lists the events of a set, each once and in order.
Lists(s, S) ==
    /\ Events(S)
    /\ Len(s) \in Nat
    /\ \A i, j \in 1..Len(s) : i < j => s[i] # s[j] /\ s[i].start <= s[j].start
    /\ S = {s[i] : i \in 1..Len(s)}

LEMMA Sorting ==
    ASSUME NEW S, Events(S)
    PROVE  Lists(SortedByStart(S), S)
<1> DEFINE s == SortedByStart(S)
           n == Cardinality(S)
<1>1. s \in SetToSeqs(S) /\ Sorted(s)
  BY SortedExists DEF SortedByStart, Sorted
<1> HIDE DEF s
<1>2. n \in Nat /\ s \in [1..n -> S] /\ \A i, j \in 1..n : i # j => s[i] # s[j]
  BY <1>1, FS_CardinalityType DEF SetToSeqs, Events
<1>3. s \in Seq(S) /\ Len(s) = n /\ DOMAIN s = 1..n
  BY <1>2
<1>4. S = {s[i] : i \in 1..n}
  <2>1. s \in Injection(1..n, S)
    BY <1>2 DEF Injection, IsInjective
  <2>2. IsFiniteSet(1..n) /\ Cardinality(1..n) = n
    BY <1>2, FS_Interval
  <2>3. s \in Surjection(1..n, S)
    BY <2>1, <2>2, FS_Injection DEF Events
  <2> QED
    BY <1>2, <2>3 DEF Surjection
<1>5. \A i, j \in 1..n : i < j => s[i] # s[j] /\ s[i].start <= s[j].start
  BY <1>1, <1>2, <1>3 DEF Sorted
<1> QED
  BY <1>2, <1>3, <1>4, <1>5 DEF s, Lists

Nothing == [found |-> <<>>, seen |-> {}]

IsLoop(after, events, through, limit) ==
    after = [i \in 0..Len(events) |->
                IF i = 0 THEN Nothing ELSE Visit(after[i - 1], events[i], through, limit)]

\* What the loop of countdowns() has found after i events is well defined.
LEMMA LoopIsDefined ==
    ASSUME NEW events, NEW through, NEW limit, Len(events) \in Nat
    PROVE  \E after : /\ IsLoop(after, events, through, limit)
                      /\ Countdowns(events, through, limit) = after[Len(events)].found
<1> DEFINE V(a, i) == Visit(a, events[i], through, limit)
           Loop(g, n) == g = [i \in 0..n |-> IF i = 0 THEN Nothing ELSE V(g[i - 1], i)]
           N == {n \in Nat : \E g : Loop(g, n)}
<1> HIDE DEF V
<1>1. 0 \in N
  <2> DEFINE g == [i \in 0..0 |-> Nothing]
  <2>1. Loop(g, 0)
    OBVIOUS
  <2> QED
    BY <2>1
<1>2. ASSUME NEW n \in Nat, n \in N
      PROVE  n + 1 \in N
  <2>1. PICK g : Loop(g, n)
    BY <1>2
  <2> DEFINE h == [i \in 0..n + 1 |-> IF i = n + 1 THEN V(g[n], n + 1) ELSE g[i]]
  <2>2. ASSUME NEW i \in 0..n + 1
        PROVE  h[i] = IF i = 0 THEN Nothing ELSE V(h[i - 1], i)
    <3>1. CASE i = n + 1
      BY <3>1
    <3>2. CASE i \in 0..n
      BY <2>1, <3>2
    <3> QED
      BY <3>1, <3>2
  <2>3. h = [i \in 0..n + 1 |-> h[i]]
    OBVIOUS
  <2> HIDE DEF h
  <2>4. Loop(h, n + 1)
    BY <2>2, <2>3
  <2> QED
    BY <2>4
<1>3. Len(events) \in N
  <2> HIDE DEF N
  <2> QED
    BY <1>1, <1>2, Induction
<1>4. \E g : Loop(g, Len(events))
  BY <1>3
<1> DEFINE after == CHOOSE g : Loop(g, Len(events))
<1>5. Loop(after, Len(events))
  BY <1>4
<1>6. Countdowns(events, through, limit) = after[Len(events)].found
  BY DEF Countdowns, Nothing, V
<1>7. IsLoop(after, events, through, limit)
  BY <1>5 DEF V, IsLoop
<1> HIDE DEF after
<1> QED
  BY <1>6, <1>7

-----------------------------------------------------------------------------
(* Countdowns.                                                             *)

\* The loop does not skip e for what it is.
Counts(e, through) == ~ (DaySpan(e) < MinSpan \/ StartDate(e) <= through)

Chosen(found) == {found[k] : k \in 1..Len(found)}

\* Why an event that counts was not chosen: the list is full, or it has the
\* identity of one that was, and no chosen event is later.
PassedOver(e, found, limit) ==
    \/ limit > 0 /\ Len(found) = limit /\ \A f \in Chosen(found) : f.start <= e.start
    \/ e.uid # NoUid /\ \E f \in Chosen(found) : f.uid = e.uid /\ f.start <= e.start

LoopInv(acc, i, events, S, through, limit) ==
    /\ acc.found \in Seq(S)
    /\ \A f \in Chosen(acc.found) : Counts(f, through) /\ \E j \in 1..i : f = events[j]
    /\ IsFiniteSet(Chosen(acc.found)) /\ Cardinality(Chosen(acc.found)) = Len(acc.found)
    /\ acc.seen = {f.uid : f \in Chosen(acc.found)} \ {NoUid}
    /\ \A e, f \in Chosen(acc.found) : e.uid = f.uid /\ e # f => e.uid = NoUid
    /\ limit > 0 => Len(acc.found) <= limit
    /\ \A j \in 1..i : Counts(events[j], through) =>
           events[j] \in Chosen(acc.found) \/ PassedOver(events[j], acc.found, limit)

\* One event of the loop.
LEMMA VisitKeepsInv ==
    ASSUME NEW S, NEW events, Lists(events, S), NEW through, NEW limit \in Nat,
           NEW i \in Nat, i + 1 \in 1..Len(events),
           NEW acc, LoopInv(acc, i, events, S, through, limit)
    PROVE  LoopInv(Visit(acc, events[i + 1], through, limit), i + 1, events, S, through, limit)
<1> DEFINE e == events[i + 1]
           found == acc.found
           C == Chosen(found)
           full == found # <<>> /\ Len(found) = limit
<1>0. /\ Len(events) \in Nat /\ \A j \in 1..Len(events) : events[j] \in S
      /\ \A j, k \in 1..Len(events) : j < k => events[j] # events[k] /\ events[j].start <= events[k].start
  BY DEF Lists
<1>1. /\ found \in Seq(S) /\ Len(found) \in Nat
      /\ \A f \in C : Counts(f, through) /\ \E j \in 1..i : f = events[j]
      /\ IsFiniteSet(C) /\ Cardinality(C) = Len(found)
      /\ acc.seen = {f.uid : f \in C} \ {NoUid}
      /\ \A d, f \in C : d.uid = f.uid /\ d # f => d.uid = NoUid
      /\ limit > 0 => Len(found) <= limit
      /\ \A j \in 1..i : Counts(events[j], through) => events[j] \in C \/ PassedOver(events[j], found, limit)
  BY DEF LoopInv
<1>2. e \in S /\ \A f \in C : f # e /\ f.start <= e.start
  BY <1>0, <1>1
<1>3. found # <<>> <=> Len(found) > 0
  BY <1>1
<1>4. \A j \in 1..i + 1 : j \in 1..i \/ j = i + 1
  OBVIOUS
<1>5. CASE full \/ ~Counts(e, through) \/ e.uid \in acc.seen
  <2>1. Visit(acc, e, through, limit) = acc
    BY <1>5 DEF Visit, Counts
  <2>2. Counts(e, through) => PassedOver(e, found, limit)
    BY <1>1, <1>2, <1>3, <1>5 DEF PassedOver
  <2>3. \A j \in 1..i + 1 : Counts(events[j], through) => events[j] \in C \/ PassedOver(events[j], found, limit)
    BY <1>1, <1>4, <2>2
  <2>4. \A f \in C : Counts(f, through) /\ \E j \in 1..i + 1 : f = events[j]
    BY <1>1
  <2> HIDE DEF C, found, e
  <2>5. LoopInv(acc, i + 1, events, S, through, limit)
    BY <1>1, <2>3, <2>4 DEF LoopInv, C, found
  <2> QED
    BY <2>1, <2>5 DEF e
<1>6. CASE ~ (full \/ ~Counts(e, through) \/ e.uid \in acc.seen)
  <2> DEFINE more == Append(found, e)
             D == Chosen(more)
             seen == acc.seen \cup Identity(e)
  <2>1. Visit(acc, e, through, limit) = [found |-> more, seen |-> seen]
    BY <1>6 DEF Visit, Counts
  <2>2. more \in Seq(S) /\ Len(more) = Len(found) + 1
    BY <1>1, <1>2
  <2>3. D = C \cup {e}
    <3>1. more[Len(found) + 1] = e /\ \A k \in 1..Len(found) : more[k] = found[k]
      BY <1>1, <1>2
    <3>2. \A k \in 1..Len(more) : k \in 1..Len(found) \/ k = Len(found) + 1
      BY <1>1, <2>2
    <3>3. 1..Len(found) \subseteq 1..Len(more) /\ Len(found) + 1 \in 1..Len(more)
      BY <1>1, <2>2
    <3> HIDE DEF more, found, e
    <3>4. C = {found[k] : k \in 1..Len(found)} /\ D = {more[k] : k \in 1..Len(more)}
      BY DEF Chosen
    <3>5. \A x \in D : x \in C \cup {e}
      BY <3>1, <3>2, <3>4
    <3>6. \A x \in C \cup {e} : x \in D
      BY <3>1, <3>3, <3>4
    <3> HIDE DEF C, D
    <3> QED
      BY <3>5, <3>6
  <2> HIDE DEF more, D, C, e, found
  <2>4. IsFiniteSet(D) /\ Cardinality(D) = Len(more)
    BY <1>1, <1>2, <2>2, <2>3, FS_AddElement
  <2>5. seen = {f.uid : f \in D} \ {NoUid}
    BY <1>1, <2>3 DEF Identity
  <2>6. e.uid = NoUid \/ \A f \in C : f.uid # e.uid
    BY <1>1, <1>6
  <2>7. \A d, f \in D : d.uid = f.uid /\ d # f => d.uid = NoUid
    BY <1>1, <2>3, <2>6
  <2>8. limit > 0 => Len(more) <= limit
    BY <1>1, <1>3, <1>6, <2>2
  <2>9. ASSUME NEW j \in 1..i + 1, Counts(events[j], through)
        PROVE  events[j] \in D \/ PassedOver(events[j], more, limit)
    <3>1. CASE j = i + 1
      BY <2>3, <3>1 DEF e
    <3>2. CASE j \in 1..i /\ events[j] \notin C
      <4>1. PassedOver(events[j], found, limit)
        BY <1>1, <2>9, <3>2
      <4>2. events[j].uid # NoUid /\ \E f \in C : f.uid = events[j].uid /\ f.start <= events[j].start
        BY <1>1, <1>3, <1>6, <4>1 DEF PassedOver, C
      <4> QED
        BY <2>3, <4>2 DEF PassedOver, D
    <3> QED
      BY <1>4, <2>3, <3>1, <3>2
  <2>10. \A f \in D : Counts(f, through) /\ \E j \in 1..i + 1 : f = events[j]
    <3>1. Counts(e, through) /\ i + 1 \in 1..i + 1 /\ 1..i \subseteq 1..i + 1
      BY <1>6
    <3> QED
      BY <1>1, <2>3, <3>1 DEF e
  <2> DEFINE new == [found |-> more, seen |-> seen]
  <2>11. new.found = more /\ new.seen = seen
    OBVIOUS
  <2> HIDE DEF new, seen
  <2>12. LoopInv(new, i + 1, events, S, through, limit)
    BY <2>2, <2>4, <2>5, <2>7, <2>8, <2>9, <2>10, <2>11 DEF LoopInv, D
  <2> QED
    BY <2>1, <2>12 DEF new, e
<1> QED
  BY <1>5, <1>6

\* Whatever the order of events that start together, countdowns() picks the
\* nearest, up to its limit and one of each identity.
THEOREM CountdownsFind ==
    ASSUME NEW S, NEW events, Lists(events, S), NEW through, NEW limit \in Nat
    PROVE  LET found == Countdowns(events, through, limit) IN
           /\ found \in Seq(S) /\ Cardinality(Chosen(found)) = Len(found)
           /\ \A f \in Chosen(found) : f \in S /\ Counts(f, through)
           /\ \A e, f \in Chosen(found) : e.uid = f.uid /\ e # f => e.uid = NoUid
           /\ limit > 0 => Len(found) <= limit
           /\ \A e \in S : Counts(e, through) => e \in Chosen(found) \/ PassedOver(e, found, limit)
<1>0. Len(events) \in Nat /\ S = {events[i] : i \in 1..Len(events)}
  BY DEF Lists
<1>1. PICK after : /\ IsLoop(after, events, through, limit)
                   /\ Countdowns(events, through, limit) = after[Len(events)].found
  BY <1>0, LoopIsDefined
<1> DEFINE Inv(i) == LoopInv(after[i], i, events, S, through, limit)
           N == {n \in Nat : n <= Len(events) => Inv(n)}
<1>2. 0 \in N
  <2>1. after[0] = Nothing
    <3>1. 0 \in 0..Len(events)
      BY <1>0
    <3> QED
      BY <1>1, <3>1 DEF IsLoop
  <2> DEFINE none == <<>>
  <2>2. none \in Seq(S) /\ Len(none) = 0 /\ Chosen(none) = {}
    BY DEF Chosen
  <2>3. Nothing.found = none /\ Nothing.seen = {}
    BY DEF Nothing
  <2>4. IsFiniteSet(Chosen(none)) /\ Cardinality(Chosen(none)) = 0
    BY <2>2, FS_EmptySet
  <2>5. 1..0 = {} /\ Len(none) <= limit
    BY <2>2
  <2> HIDE DEF none
  <2>6. LoopInv(Nothing, 0, events, S, through, limit)
    BY <2>2, <2>3, <2>4, <2>5 DEF LoopInv
  <2> QED
    BY <2>1, <2>6
<1>3. ASSUME NEW n \in Nat, n \in N
      PROVE  n + 1 \in N
  <2> SUFFICES ASSUME n + 1 <= Len(events)
               PROVE  Inv(n + 1)
    OBVIOUS
  <2>1. LoopInv(after[n], n, events, S, through, limit) /\ n + 1 \in 1..Len(events)
    BY <1>0, <1>3
  <2>2. after[n + 1] = Visit(after[n], events[n + 1], through, limit)
    <3>1. n + 1 \in 0..Len(events) /\ n + 1 # 0 /\ (n + 1) - 1 = n
      BY <2>1
    <3> QED
      BY <1>1, <3>1 DEF IsLoop
  <2>3. LoopInv(Visit(after[n], events[n + 1], through, limit), n + 1, events, S, through, limit)
    BY <2>1, VisitKeepsInv
  <2> QED
    BY <2>2, <2>3
<1>4. LoopInv(after[Len(events)], Len(events), events, S, through, limit)
  <2>1. Len(events) \in N
    <3> HIDE DEF N
    <3> QED
      BY <1>0, <1>2, <1>3, Induction
  <2> QED
    BY <1>0, <2>1
<1> HIDE DEF N, Inv
<1>5. \A f \in Chosen(after[Len(events)].found) : f \in S
  <2>1. \A j \in 1..Len(events) : events[j] \in S
    BY <1>0
  <2> QED
    BY <1>4, <2>1 DEF LoopInv
<1> QED
  BY <1>0, <1>1, <1>4, <1>5 DEF LoopInv

LEMMA OccurrencesAreFinite ==
    ASSUME NEW c \in Component
    PROVE  IsFiniteSet(Occurrences(c))
<1> DEFINE period == IF c.type = "date" THEN Week ELSE Week * Day
           D == 0..c.times - 1
           f == [n \in D |->
                     [c EXCEPT !.start = @ + n * period, !.end = IF c.ends = "dtend" THEN @ + n * period ELSE @]]
<1>1. IsFiniteSet(D)
  <2>1. c.times \in Nat
    BY DEF Component
  <2> QED
    BY <2>1, FS_Interval
<1>2. Occurrences(c) = {f[n] : n \in D}
  BY DEF Occurrences
<1>3. DOMAIN f = D
  OBVIOUS
<1> HIDE DEF f, D
<1> QED
  BY <1>1, <1>2, <1>3, FiniteImage

LEMMA AllOccurrencesAreFinite ==
    ASSUME NEW components, IsFiniteSet(components), components \subseteq Component
    PROVE  IsFiniteSet(UNION {Occurrences(c) : c \in components})
<1> DEFINE f == [c \in components |-> Occurrences(c)]
           F == {f[c] : c \in components}
<1>1. DOMAIN f = components /\ F = {Occurrences(c) : c \in components}
  OBVIOUS
<1>2. IsFiniteSet(F)
  <2> HIDE DEF f
  <2> QED
    BY <1>1, FiniteImage
<1>3. \A T \in F : IsFiniteSet(T)
  BY OccurrencesAreFinite
<1> HIDE DEF F
<1>4. IsFiniteSet(UNION F)
  BY <1>2, <1>3, FS_UNION
<1> QED
  BY <1>1, <1>4

\* What an occurrence is to countdowns() follows from its days.
LEMMA CountedOccurrences ==
    ASSUME NEW o, Shape(o), Days(o) = Dates(ToEvent(o)), NEW through \in Int
    PROVE  /\ Counts(ToEvent(o), through) <=>
                  Cardinality(Days(o)) >= MinSpan /\ DateOf(Wall(Starts(o))) > through
           /\ StartDate(ToEvent(o)) = DateOf(Wall(Starts(o)))
           /\ StartDate(ToEvent(o)) \in Int
           /\ StartDate(ToEvent(o)) \in Dates(ToEvent(o))
<1> DEFINE e == ToEvent(o)
           a == StartDate(e)
           b == EndDate(e)
<1>1. e.start \in Int /\ e.end \in Int /\ a = DateOf(Wall(Starts(o)))
  BY ShapesOnTheirDays DEF OnItsDays
<1>2. a \in Int /\ DateOf(e.end - 1) \in Int
  BY <1>1, DateType DEF StartDate
<1>3. b \in Int /\ a <= b
  <2>1. CASE e.end <= e.start
    BY <1>2, <2>1 DEF EndDate
  <2>2. CASE e.start < e.end
    <3>1. b = DateOf(e.end - 1)
      BY <1>1, <2>2 DEF EndDate
    <3>2. a * Day <= e.start /\ a * Day \in Int
      BY <1>1, <1>2, DateIs DEF StartDate
    <3>3. e.end - 1 \in Int /\ e.end - 1 >= a * Day
      BY <1>1, <2>2, <3>2
    <3> HIDE DEF a, b
    <3>4. DateOf(e.end - 1) >= a
      BY <1>2, <3>3, DateIs
    <3> QED
      BY <1>2, <3>1, <3>4
  <2> QED
    BY <1>1, <2>1, <2>2
<1>4. Days(o) = a..b /\ DaySpan(e) = b - a + 1
  BY DEF Dates, DaySpan
<1> HIDE DEF a, b, e
<1>5. Cardinality(a..b) = b - a + 1
  BY <1>2, <1>3, FS_Interval
<1>6. Counts(e, through) <=> ~ (b - a + 1 < MinSpan \/ a <= through)
  BY <1>4 DEF Counts, a
<1>7. Counts(e, through) <=> Cardinality(Days(o)) >= MinSpan /\ a > through
  BY <1>2, <1>3, <1>4, <1>5, <1>6, ClockConstants
<1>8. a \in Days(o)
  BY <1>2, <1>3, <1>4
<1> QED
  BY <1>1, <1>2, <1>7, <1>8 DEF a, e

\* The countdowns of a grid come from what is stored.
LEMMA CountdownsFromStored ==
    ASSUME IInv, NEW m \in Months, NEW limit \in Nat
    PROVE  LET all    == UNION {Occurrences(c) : c \in stored}
               long   == {ToEvent(o) : o \in {o \in all :
                             /\ Cardinality(Days(o)) >= MinSpan
                             /\ DateOf(Wall(Starts(o))) \in LastDate(m) + 1..LastDate(m) + Horizon}}
               found  == MonthCountdowns(stored, m, limit)
               chosen == Chosen(found)
           IN  /\ DOMAIN found = 1..Len(found)
               /\ chosen \subseteq long
               /\ Cardinality(chosen) = Len(found)
               /\ \A e, f \in chosen : e.uid = f.uid /\ e # f => e.uid = NoUid
               /\ limit > 0 => Len(found) <= limit
               /\ \A e \in long \ chosen : PassedOver(e, found, limit)
<1> DEFINE all == UNION {Occurrences(c) : c \in stored}
           through == LastDate(m)
           last == LastDate(m) + Horizon
           Long(o) == /\ Cardinality(Days(o)) >= MinSpan
                      /\ DateOf(Wall(Starts(o))) \in through + 1..last
           long == {ToEvent(o) : o \in {o \in all : Long(o)}}
           hits == {o \in all : Found(o, through + 1, last)}
           X == {ToEvent(o) : o \in hits}
           events == SortedByStart(X)
           found == Countdowns(events, through, limit)
<1>1. MonthCountdowns(stored, m, limit) = found
  BY ExpandedEvents DEF MonthCountdowns
<1>2. through \in Int /\ through + 1 \in Int /\ last \in Int
  <2>1. m \in 0..LastMonth
    BY MonthsExist
  <2>2. through \in Int
    BY <2>1, MonthWindow
  <2> HIDE DEF through
  <2> QED
    BY <2>2, ClockConstants DEF through
<1>3. \A o \in all : Shape(o) /\ Days(o) = Dates(ToEvent(o))
  BY StoredOnTheirDays
<1>4. Events(X)
  <2>1. IsFiniteSet(all)
    BY AllOccurrencesAreFinite DEF IInv, TypeOK
  <2>2. IsFiniteSet(hits)
    BY <2>1, FS_Subset
  <2> DEFINE f == [o \in hits |-> ToEvent(o)]
  <2>3. DOMAIN f = hits /\ X = {f[o] : o \in hits}
    OBVIOUS
  <2>4. IsFiniteSet(X)
    <3> HIDE DEF f, X, hits
    <3> QED
      BY <2>2, <2>3, FiniteImage
  <2>5. \A o \in all : ToEvent(o).start \in Int
    BY <1>3, ShapesOnTheirDays DEF OnItsDays
  <2>6. \A e \in X : e.start \in Int
    BY <2>5
  <2> HIDE DEF X
  <2> QED
    BY <2>4, <2>6 DEF Events
<1>5. \A o \in all : /\ Counts(ToEvent(o), through) <=>
                            Cardinality(Days(o)) >= MinSpan /\ DateOf(Wall(Starts(o))) > through
                     /\ StartDate(ToEvent(o)) = DateOf(Wall(Starts(o)))
                     /\ StartDate(ToEvent(o)) \in Int
                     /\ StartDate(ToEvent(o)) \in Dates(ToEvent(o))
  <2> HIDE DEF all, through
  <2> QED
    BY <1>2, <1>3, CountedOccurrences
<1>6. \A o \in all : Long(o) <=> Found(o, through + 1, last) /\ Counts(ToEvent(o), through)
  <2> SUFFICES ASSUME NEW o \in all
               PROVE  Long(o) <=> Found(o, through + 1, last) /\ Counts(ToEvent(o), through)
    OBVIOUS
  <2> DEFINE d == StartDate(ToEvent(o))
  <2> HIDE DEF all, through, last, d
  <2>1. /\ \A x \in through + 1..last : x \in Dates(ToEvent(o)) => Found(o, through + 1, last)
        /\ Found(o, through + 1, last) => d <= last
    BY <1>2, <1>3, WindowFinds DEF d
  <2>2. /\ d \in Int /\ d \in Dates(ToEvent(o)) /\ d = DateOf(Wall(Starts(o)))
        /\ Counts(ToEvent(o), through) <=> Cardinality(Days(o)) >= MinSpan /\ d > through
    BY <1>5 DEF d
  <2>3. d \in through + 1..last <=> d > through /\ d <= last
    BY <1>2, <2>2
  <2>4. d > through /\ d <= last => Found(o, through + 1, last)
    BY <2>1, <2>2, <2>3
  <2> QED
    BY <2>1, <2>2, <2>3, <2>4
<1>7. \A e : e \in long <=> e \in X /\ Counts(e, through)
  <2> HIDE DEF all, through, last, Long
  <2>1. ASSUME NEW e \in long
        PROVE  e \in X /\ Counts(e, through)
    BY <1>6
  <2>2. ASSUME NEW e \in X, Counts(e, through)
        PROVE  e \in long
    BY <1>6, <2>2
  <2> QED
    BY <2>1, <2>2
<1> HIDE DEF X, events, found, all, through, last, hits, Long
<1>8. Lists(events, X)
  BY <1>4, Sorting DEF events
<1>9. /\ found \in Seq(X) /\ Cardinality(Chosen(found)) = Len(found)
      /\ \A f \in Chosen(found) : f \in X /\ Counts(f, through)
      /\ \A e, f \in Chosen(found) : e.uid = f.uid /\ e # f => e.uid = NoUid
      /\ limit > 0 => Len(found) <= limit
      /\ \A e \in X : Counts(e, through) => e \in Chosen(found) \/ PassedOver(e, found, limit)
  BY <1>8, CountdownsFind DEF found
<1>10. DOMAIN found = 1..Len(found)
  BY <1>9
<1>11. Chosen(found) \subseteq long /\ \A e \in long \ Chosen(found) : PassedOver(e, found, limit)
  <2> HIDE DEF long
  <2> QED
    BY <1>7, <1>9
<1> QED
  BY <1>1, <1>9, <1>10, <1>11 DEF all, Long, through, last

\* The countdowns calendar_view() shows below a grid are to the nearest long
\* events after it.
THEOREM CountdownsAreNearest == Spec => []CountdownsAreTheNearest
<1>1. IInv => CountdownsAreTheNearest
  <2> SUFFICES ASSUME IInv, NEW m \in Months, NEW limit \in 0..2
               PROVE  LET long == {ToEvent(o) : o \in {o \in UNION {Occurrences(c) : c \in stored} :
                                       /\ Cardinality(Days(o)) >= MinSpan
                                       /\ DateOf(Wall(Starts(o))) \in LastDate(m) + 1..LastDate(m) + Horizon}}
                          found == MonthCountdowns(stored, m, limit)
                          chosen == {found[i] : i \in DOMAIN found}
                      IN /\ chosen \subseteq long
                         /\ Cardinality(chosen) = Len(found)
                         /\ \A e \in long \ chosen :
                                \/ limit > 0 /\ Len(found) = limit /\ \A f \in chosen : f.start <= e.start
                                \/ e.uid # NoUid /\ \E f \in chosen : f.uid = e.uid /\ f.start <= e.start
                         /\ limit > 0 => Len(found) <= limit
                         /\ \A e, f \in chosen : e.uid = f.uid /\ e # f => e.uid = NoUid
    BY DEF CountdownsAreTheNearest
  <2> DEFINE found == MonthCountdowns(stored, m, limit)
             long == {ToEvent(o) : o \in {o \in UNION {Occurrences(c) : c \in stored} :
                          /\ Cardinality(Days(o)) >= MinSpan
                          /\ DateOf(Wall(Starts(o))) \in LastDate(m) + 1..LastDate(m) + Horizon}}
  <2>1. /\ DOMAIN found = 1..Len(found)
        /\ Chosen(found) \subseteq long
        /\ Cardinality(Chosen(found)) = Len(found)
        /\ \A e, f \in Chosen(found) : e.uid = f.uid /\ e # f => e.uid = NoUid
        /\ limit > 0 => Len(found) <= limit
        /\ \A e \in long \ Chosen(found) : PassedOver(e, found, limit)
    BY CountdownsFromStored
  <2>2. Chosen(found) = {found[i] : i \in DOMAIN found}
    BY <2>1 DEF Chosen
  <2> HIDE DEF found, long
  <2> QED
    BY <2>1, <2>2 DEF PassedOver, found, long
<1> QED
  BY <1>1, InvariantHolds, PTL
=============================================================================
