--------------------------------- MODULE Rtc ---------------------------------
(***************************************************************************)
(* The calendar: User/bsp/RTC/rtc.c, whose interrupt turns the seconds     *)
(* counter into a date each second, and the writer, which reads the date   *)
(* one field after the other to stamp a file (User/main.c:339-368).  The   *)
(* 32-bit counter is kept as a day and a second of the day.                *)
(***************************************************************************)
EXTENDS Integers, Sequences

CONSTANTS Starts,        \* <<day, second>> at which the board is switched on
          MaxSeconds     \* bound: seconds the clock then runs

SecondsADay == 86400

ASSUME RtcConstants ==
    /\ Starts \subseteq (0 .. 65535) \X (0 .. SecondsADay - 1)
    /\ MaxSeconds \in Nat

VARIABLES
    counter,    \* the RTC's counter: [day, second]
    elapsed,    \* seconds since the start, for the bound
    pending,    \* the seconds interrupt is waiting to be served
    daycnt,     \* static in RTC_Get: the day the date was computed for
    calendar,   \* the calendar all threads read
    field,      \* the next field the writer reads; Len(ReadOrder)+1: all read
    stamp,      \* the writer's copies
    began       \* history: the calendar when the writer read its first field

clockVars == <<counter, elapsed, pending, daycnt, calendar>>
writerVars == <<field, stamp, began>>
vars == <<clockVars, writerVars>>

Is_Leap_Year(year) ==
    year % 4 = 0 /\ (year % 100 = 0 => year % 400 = 0)

table_week == <<0, 3, 3, 6, 1, 4, 6, 2, 5, 0, 3, 5>>
mon_table  == <<31, 28, 31, 30, 31, 30, 31, 31, 30, 31, 30, 31>>

\* table_week[i].  The linker puts mon_table right behind table_week.
WeekEntry(i) == (table_week \o mon_table)[i + 1]

RTC_Get_Week(year, month, day) ==
    LET yearL == (year % 100) + (IF year \div 100 > 19 THEN 100 ELSE 0)
        early == IF yearL % 4 = 0 /\ month < 3 THEN 1 ELSE 0
    IN  (((yearL + yearL \div 4) % 7) + day + WeekEntry(month - 1) - early) % 7

\* The first loop of RTC_Get: <<days left, year>>.
YearLoop[days \in Nat, year \in Nat] ==
    LET length == IF Is_Leap_Year(year) THEN 366 ELSE 365
    IN  IF days < 365 THEN <<days, year>>
        ELSE IF days < length THEN <<days, year + 1>>
        ELSE YearLoop[days - length, year + 1]

\* Mutant: February of a leap year has 28 days here too.
MonthLengthNoLeap(year, m) == mon_table[m + 1]

\* The length the second loop takes month m (from 0) to have.
MonthLength(year, m) ==
    IF Is_Leap_Year(year) /\ m = 1 THEN 29 ELSE mon_table[m + 1]

\* The second loop of RTC_Get: <<days left, month from 0>>.
MonthLoop[days \in Nat, year \in Nat, m \in 0 .. 12] ==
    IF days >= 28 /\ days >= MonthLength(year, m)
    THEN MonthLoop[days - MonthLength(year, m), year, m + 1]
    ELSE <<days, m>>

\* The date RTC_Get computes for a new day.
DateOf(day) ==
    LET y == YearLoop[day, 1970]
        m == MonthLoop[y[1], y[2], 0]
    IN  [year |-> y[2], month |-> m[2] + 1, date |-> m[1] + 1]

\* RTC_Get: the calendar it leaves, from the counter c, the static daycnt and
\* the calendar before.
RTC_Get(c, known, cal) ==
    LET d == IF known # c.day THEN DateOf(c.day)
             ELSE [year |-> cal.year, month |-> cal.month, date |-> cal.date]
    IN  [year |-> d.year, month |-> d.month, date |-> d.date,
         hour |-> c.second \div 3600,
         min  |-> (c.second % 3600) \div 60,
         sec  |-> c.second % 60,
         week |-> RTC_Get_Week(d.year, d.month, d.date)]

\* The counter RTC_Set computes, from the days of whole years and months.
YearDays[year \in Nat] ==
    IF year = 1970 THEN 0
    ELSE YearDays[year - 1] + (IF Is_Leap_Year(year - 1) THEN 366 ELSE 365)
MonthDays[year \in Nat, smon \in 0 .. 11] ==
    IF smon = 0 THEN 0
    ELSE MonthDays[year, smon - 1] + mon_table[smon]
         + (IF Is_Leap_Year(year) /\ smon = 2 THEN 1 ELSE 0)
RTC_Set(syear, smon, sday, hour, min, sec) ==
    <<YearDays[syear] + MonthDays[syear, smon - 1] + sday - 1,
      hour * 3600 + min * 60 + sec>>

\* Without a battery the board sets the clock itself.
FirstPowerUp == RTC_Set(2022, 1, 4, 10, 55, 55)

\* calendar before anything was written to it.
Blank == [year |-> 0, month |-> 0, date |-> 0, hour |-> 0, min |-> 0,
          sec |-> 0, week |-> 0]

\* Mutant: the seconds first, as they are printed last.
ReadOrderSecondsFirst == <<"week", "sec", "min", "hour", "date", "month">>

\* The order in which the writer reads.
ReadOrder == <<"week", "month", "date", "hour", "min", "sec">>

NoStamp == [f \in {ReadOrder[i] : i \in 1 .. Len(ReadOrder)} |-> 0]

\* RTC_Init ends with RTC_Get.
Init ==
    /\ \E s \in Starts \cup {FirstPowerUp} :
           counter = [day |-> s[1], second |-> s[2]]
    /\ elapsed = 0
    /\ pending = FALSE
    /\ daycnt = counter.day
    /\ calendar = RTC_Get(counter, 0, Blank)
    /\ field = 1
    /\ stamp = NoStamp
    /\ began = calendar

\* The hardware counts and asks for an interrupt.  The one before has long
\* been served: interrupts are never off for a second.
Second ==
    /\ ~pending /\ elapsed < MaxSeconds
    /\ elapsed' = elapsed + 1
    /\ counter' = IF counter.second + 1 = SecondsADay
                  THEN [day |-> counter.day + 1, second |-> 0]
                  ELSE [counter EXCEPT !.second = @ + 1]
    /\ pending' = TRUE
    /\ UNCHANGED <<daycnt, calendar, writerVars>>

RTC_IRQHandler ==
    /\ pending
    /\ calendar' = RTC_Get(counter, daycnt, calendar)
    /\ daycnt' = counter.day
    /\ pending' = FALSE
    /\ UNCHANGED <<counter, elapsed, writerVars>>

\* The writer reads the next field; the interrupt may come before each.
ReadField ==
    /\ field <= Len(ReadOrder)
    /\ stamp' = [stamp EXCEPT ![ReadOrder[field]] = calendar[ReadOrder[field]]]
    /\ began' = IF field = 1 THEN calendar ELSE began
    /\ field' = field + 1
    /\ UNCHANGED clockVars

\* The rows are written with the stamp; the next file starts over.
RowsWritten ==
    /\ field > Len(ReadOrder)
    /\ field' = 1
    /\ stamp' = NoStamp
    /\ UNCHANGED <<clockVars, began>>

Next == Second \/ RTC_IRQHandler \/ ReadField \/ RowsWritten

Spec == Init /\ [][Next]_vars

-----------------------------------------------------------------------------
(* Reference: the Gregorian calendar in closed form. *)

\* The days from 1970-01-01 to the first of January of year y.
NewYear(y) ==
    LET leaps(n) == n \div 4 - n \div 100 + n \div 400
    IN  365 * (y - 1970) + leaps(y - 1) - leaps(1969)

\* The days of the year before month m; the rest of the year from March on
\* repeats 31, 30, 31, 30, 31.
BeforeMonth(y, m) ==
    IF m <= 2 THEN 31 * (m - 1)
    ELSE (153 * (m - 3) + 2) \div 5 + NewYear(y + 1) - NewYear(y) - 306

\* c shows the date of the given day; the first day of 1970 was a Thursday.
ShowsDay(c, day) ==
    /\ c.month \in 1 .. 12 /\ c.date \in 1 .. 31
    /\ day = NewYear(c.year) + BeforeMonth(c.year, c.month) + c.date - 1
    /\ c.month < 12 => day < NewYear(c.year) + BeforeMonth(c.year, c.month + 1)
    /\ c.month = 12 => day < NewYear(c.year + 1)
    /\ c.week = (day + 4) % 7

LastDayOfLeapYear(day) ==
    \E y \in 1970 .. 2105 : Is_Leap_Year(y) /\ day = NewYear(y + 1) - 1

\* The moment of a year that c or a stamp shows, in seconds.
Shown(c) ==
    (((c.month * 32 + c.date) * 24 + c.hour) * 60 + c.min) * 60 + c.sec

Minute(c) == <<c.month, c.date, c.hour, c.min>>

-----------------------------------------------------------------------------
(* Properties *)

\* Once the interrupt is served the calendar shows the date and the weekday of
\* the counter (RTC_Get, with its cached daycnt), except on the last day of a
\* leap year: the year loop breaks off one year too far with 365 days left, and
\* the month loop goes past December.
CalendarIsDate ==
    ~pending =>
        /\ calendar.hour * 3600 + calendar.min * 60 + calendar.sec
           = counter.second
        /\ IF LastDayOfLeapYear(counter.day)
           THEN /\ calendar.month = 13 /\ calendar.date = 1
                /\ counter.day = NewYear(calendar.year) - 1
           ELSE ShowsDay(calendar, counter.day)

\* The writer reads from the month down to the second, so a stamp is never
\* later than the clock, however many interrupts came in between (main.c:364).
StampNotAhead ==
    began.year = calendar.year /\ began.month <= calendar.month =>
        Shown(stamp) <= Shown(calendar)

\* A stamp read within one minute of the clock is a moment of the reading, with
\* its own weekday; only a carry in between can tear it.
StampNotTorn ==
    Minute(began) = Minute(calendar) =>
        /\ Shown(began) <= Shown(stamp)
        /\ stamp.week = calendar.week

\* What a file is stamped with (main.c:364-368 against the rewriting of the
\* calendar by the interrupt).
StampSound == field > Len(ReadOrder) => StampNotAhead /\ StampNotTorn
=============================================================================
