--------------------------- MODULE MarketCalendar ---------------------------
(***************************************************************************)
(* The NYSE calendar of scheduler.py and the next run it announces.  A date   *)
(* is its proleptic Gregorian ordinal, as in Python's date.toordinal, and     *)
(* week-days are 0 for Monday to 6 for Sunday.  The scheduler's time zone is  *)
(* that of the dates: a moment is a date and a tick of its local day.        *)
(***************************************************************************)
EXTENDS Integers, FiniteSets

CONSTANTS
    Years,          \* the years the calendar is asked about
    Scans,
    TimeOf,         \* scan -> tick of the day
    TicksPerDay,
    NoRun           \* next_run's None

ASSUME CalendarAssumption ==
    /\ Years \subseteq Nat
    /\ TimeOf \in [Scans -> 0 .. TicksPerDay - 1]

-----------------------------------------------------------------------------
(* The date type                                                           *)

Leap(y) == y % 4 = 0 /\ (y % 100 # 0 \/ y % 400 = 0)

DaysBefore == <<0, 31, 59, 90, 120, 151, 181, 212, 243, 273, 304, 334>>
DaysIn(y, m) ==
    IF m = 2 THEN IF Leap(y) THEN 29 ELSE 28
    ELSE IF m \in {4, 6, 9, 11} THEN 30 ELSE 31

Date(y, m, d) ==
    365 * (y - 1) + (y - 1) \div 4 - (y - 1) \div 100 + (y - 1) \div 400
        + DaysBefore[m] + (IF m > 2 /\ Leap(y) THEN 1 ELSE 0) + d

Weekday(date) == (date + 6) % 7
Monday == 0
Thursday == 3
Friday == 4
Saturday == 5
Sunday == 6

-----------------------------------------------------------------------------
(* nyse_holidays                                                           *)

ObservedFixedHoliday(y, m, d) ==
    LET holiday == Date(y, m, d)
    IN  IF Weekday(holiday) = Saturday THEN holiday - 1
        ELSE IF Weekday(holiday) = Sunday THEN holiday + 1 ELSE holiday

NthWeekday(y, m, weekday, n) ==
    LET first == Date(y, m, 1)
    IN  first + ((weekday - Weekday(first)) % 7) + 7 * (n - 1)

LastWeekday(y, m, weekday) ==
    LET last == Date(y, m, DaysIn(y, m))
    IN  last - ((Weekday(last) - weekday) % 7)

EasterSunday(y) ==
    LET a == y % 19
        b == y \div 100
        c == y % 100
        f == (b + 8) \div 25
        g == (b - f + 1) \div 3
        h == (19 * a + b - b \div 4 - g + 15) % 30
        l == (32 + 2 * (b % 4) + 2 * (c \div 4) - h - (c % 4)) % 7
        m == (a + 11 * h + 22 * l) \div 451
        n == h + l - 7 * m + 114
    IN  Date(y, n \div 31, (n % 31) + 1)

NyseHolidays(y) ==
    {ObservedFixedHoliday(y, 1, 1), NthWeekday(y, 1, Monday, 3), NthWeekday(y, 2, Monday, 3),
     EasterSunday(y) - 2, LastWeekday(y, 5, Monday), ObservedFixedHoliday(y, 6, 19),
     ObservedFixedHoliday(y, 7, 4), NthWeekday(y, 9, Monday, 1),
     NthWeekday(y, 11, Thursday, 4), ObservedFixedHoliday(y, 12, 25)}

\* The calendars of the years walked and of the January after each.
HolidaysOf == [y \in Years \union {z + 1 : z \in Years} |-> NyseHolidays(y)]

VARIABLES
    now,        \* the local moment: a date and a tick
    year,       \* its year
    enabled     \* the scans of the schedule that are enabled

calendarVars == <<now, year, enabled>>

\* date.year, for this year's dates and those looked ahead at
YearOf(date) == IF date > Date(year, 12, 31) THEN year + 1 ELSE year

\* (mutant: the observed New Year of the next year counts too)
IsMarketHoliday_AnyYear(date) == \E y \in DOMAIN HolidaysOf : date \in HolidaysOf[y]

\* Looked up among the holidays of the date's own year only.
IsMarketHoliday(date) == date \in HolidaysOf[YearOf(date)]

IsScanDay(date) == Weekday(date) < 5 /\ ~ IsMarketHoliday(date)

-----------------------------------------------------------------------------
(* next_run, for enabled scans that pass validate_production_schedule       *)

Valid(scans) == \A s, t \in scans : TimeOf[s] = TimeOf[t] => s = t

At(s, date) == [date |-> date, tick |-> TimeOf[s]]
After(a, b) == a.date > b.date \/ (a.date = b.date /\ a.tick > b.tick)

\* (mutant: a long week-end is not looked past)
Lookahead_FourDays == 4

Lookahead == 8

\* The scans still ahead on a day, seen from now.
Ahead(date) == IF IsScanDay(date) THEN {s \in enabled : After(At(s, date), now)} ELSE {}

NextRun ==
    LET days == {d \in now.date .. now.date + Lookahead - 1 : Ahead(d) # {}}
        day == CHOOSE d \in days : \A e \in days : d <= e
        ahead == Ahead(day)
    IN  IF days = {} THEN NoRun
        ELSE At(CHOOSE s \in ahead : \A t \in ahead : TimeOf[s] <= TimeOf[t], day)

-----------------------------------------------------------------------------
(* A clock to read them by                                                  *)

CalendarInit ==
    /\ year \in Years
    /\ now = [date |-> Date(year, 1, 1), tick |-> 0]
    /\ enabled \in {e \in SUBSET Scans : Valid(e)}

\* A year goes by.
CalendarTick ==
    /\ \/ now.tick < TicksPerDay - 1 /\ now' = [now EXCEPT !.tick = @ + 1]
       \/ /\ now.tick = TicksPerDay - 1 /\ now.date < Date(year, 12, 31)
          /\ now' = [date |-> now.date + 1, tick |-> 0]
    /\ UNCHANGED <<year, enabled>>

CalendarSpec == CalendarInit /\ [][CalendarTick]_calendarVars

-----------------------------------------------------------------------------
(* Properties                                                              *)

\* Easter by its own definition: the Sunday after the full moon of the epact.
PaschalSunday(y) ==
    LET golden == (y % 19) + 1
        century == y \div 100 + 1
        solar == (3 * century) \div 4 - 12
        lunar == (8 * century + 5) \div 25 - 5
        age == (11 * golden + 20 + lunar - solar) % 30
        epact == IF age = 24 \/ (age = 25 /\ golden > 11) THEN age + 1 ELSE age
        moon == Date(y, 3, 1) + (IF epact > 23 THEN 74 - epact ELSE 44 - epact) - 1
    IN  moon + 7 - ((Weekday(moon) + 1) % 7)

\* The exchange's rule, read off the date itself.
Closed(y, date) ==
    \/ Weekday(date) \in {Saturday, Sunday}
    \/ /\ Weekday(date) = Monday
       /\ \/ date \in Date(y, 1, 15) .. Date(y, 1, 21) \/ date \in Date(y, 2, 15) .. Date(y, 2, 21)
          \/ date \in Date(y, 5, 25) .. Date(y, 5, 31) \/ date \in Date(y, 9, 1) .. Date(y, 9, 7)
    \/ Weekday(date) = Thursday /\ date \in Date(y, 11, 22) .. Date(y, 11, 28)
    \/ date + 2 = PaschalSunday(y)
    \/ \E h \in {Date(y, 1, 1), Date(y, 6, 19), Date(y, 7, 4), Date(y, 12, 25)} :
        \/ date = h
        \/ Weekday(date) = Monday /\ date - 1 = h
        \/ Weekday(date) = Friday /\ date + 1 = h

\* The days the scheduler works are the exchange's, a New Year on a Saturday
\* included, which is observed on no day of the old year (scheduler.py:62-88).
CalendarIsExchange == IsScanDay(now.date) <=> ~ Closed(year, now.date)

\* The run that status announces is the first moment from now on at which an
\* enabled scan comes due, and there always is one: no run of closed days is
\* longer than next_run looks ahead (scheduler.py:166-185).
NextRunIsEarliest ==
    LET comes == {At(s, d) : s \in enabled,
                  d \in {e \in now.date .. now.date + 13 : ~ Closed(YearOf(e), e)}}
        ahead == {m \in comes : After(m, now)}
    IN  IF enabled = {} THEN NextRun = NoRun
        ELSE NextRun \in ahead /\ \A m \in ahead : ~ After(NextRun, m)

=============================================================================
