CONSTANTS
    Day = 6
    Week = 2
    LastMonth = 7
    MonthStart <- UnequalMonths
    YearMonths = 2
    Summers <- TwoSummers
    Shift = 2
    MinSpan = 2
    Horizon = 5
    NoUid = NoUid
    Post = {p1, p2}
    Uid = {e1, e2}
    Series = Series
    FormTimes = {35, 42, 45, 48, 57, 81, 107, 143}
    ClientTimes = {49, 64, 81}
    MinYear = 1
    MaxYear = 2
    LastMoment = 143
    MaxComponents = 2
    Blank = Blank
    Unreadable = Unreadable
    None = None
SYMMETRY Symmetry
SPECIFICATION Spec
INVARIANTS
    EventsFillTheirDays
    OnlySkippedTimesTurn
    RedirectShowsIt
    CopiesAreAccountedFor
    CountdownsAreTheNearest
