------------------------------ MODULE Calendar ------------------------------
(***************************************************************************)
(* computeNextExecutionAt: the dates of a scheduled payment, as functions. *)
(* The setters of JavaScript's Date normalise: a day beyond the end of the *)
(* month runs into the next month, and day 0 is the last day of the month  *)
(* before.                                                                 *)
(*                                                                         *)
(* A date is a month, counted from January of FirstYear, and a day in it;  *)
(* the time of day never changes.                                          *)
(***************************************************************************)
EXTENDS Integers, Functions

CONSTANTS
    FirstYear,      \* the year of month 0
    StartMonths,    \* schedules start in one of these
    MaxMonth        \* and are followed for as many dates: a bound

ASSUME CalendarAssumption ==
    FirstYear \in Nat /\ MaxMonth \in Nat /\ StartMonths \subseteq 0 .. MaxMonth

LeapYear(y) == y % 4 = 0 /\ (y % 100 # 0 \/ y % 400 = 0)

DaysIn(m) ==
    CASE m % 12 = 1 -> IF LeapYear(FirstYear + m \div 12) THEN 29 ELSE 28
      [] m % 12 \in {3, 5, 8, 10} -> 30
      [] OTHER -> 31

DatesIn(m) == {[month |-> m, day |-> d] : d \in 1 .. DaysIn(m)}

\* What the setters of Date make of day d of month m, for d up to 31 days
\* beyond the end of the month.
DateOf(m, d) ==
    CASE d = 0 -> [month |-> m - 1, day |-> DaysIn(m - 1)]
      [] d \in 1 .. DaysIn(m) -> [month |-> m, day |-> d]
      [] OTHER -> [month |-> m + 1, day |-> d - DaysIn(m)]

\* setUTCDate(getUTCDate() + 7)
NextWeek(from) == DateOf(from.month, from.day + 7)

\* Variant: the overflow is left as it is.
NextMonthOverflowing(from) == DateOf(from.month + 1, from.day)

\* setUTCMonth(getUTCMonth() + 1, day), then setUTCDate(0) if the day has
\* run over into the month after the next.
NextMonth(from) ==
    LET moved == DateOf(from.month + 1, from.day) IN
    IF moved.day # from.day THEN DateOf(moved.month, 0) ELSE moved

ComputeNextExecutionAt(from, frequency) ==
    CASE frequency = "WEEKLY" -> NextWeek(from)
      [] frequency = "MONTHLY" -> NextMonth(from)

\* create, and then advanceSchedule from date to date: date n of a schedule.
DatesOf(frequency, startDate) ==
    LET date[n \in 0 .. MaxMonth] ==
            IF n = 0 THEN startDate ELSE ComputeNextExecutionAt(date[n - 1], frequency)
    IN  date

\* What dates should be ---------------------------------------------------

StartDates == UNION {DatesIn(m) : m \in StartMonths}

\* The calendar as a plain count of the days since the start of FirstYear.
MonthLengths == [m \in 0 .. 2 * MaxMonth |-> DaysIn(m)]
DaysBefore == [m \in 0 .. 2 * MaxMonth |-> SumFunctionOnSet(MonthLengths, 0 .. m - 1)]
DayNumber(t) == DaysBefore[t.month] + t.day

\* Weekly dates are seven days apart, across the ends of months and years.
\* Monthly ones fall into every month once, on a day of that month and never
\* later in it than the schedule began.
Regular(start) ==
    LET weekly == DatesOf("WEEKLY", start)
        monthly == DatesOf("MONTHLY", start)
    IN  \A n \in 1 .. MaxMonth :
            /\ DayNumber(weekly[n]) = DayNumber(start) + 7 * n
            /\ monthly[n] \in DatesIn(start.month + n)
            /\ monthly[n].day <= start.day

RegularDates == \A start \in StartDates : Regular(start)
=============================================================================
