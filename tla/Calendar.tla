------------------------------- MODULE Calendar -------------------------------
(***************************************************************************)
(* The schedule of a recurring benefit, walked one interval at a time over *)
(* the civil calendar (helpers/dates.py and the loops of                   *)
(* services/delivery_service.py).  A moment is its day; the hour never     *)
(* moves.                                                                  *)
(***************************************************************************)
EXTENDS Integers

CONSTANTS
  Anchors,                 \* days a schedule may begin on
  IntervalValues,          \* interval values an operator may type
  INTERVAL_CEILING_YEARS,
  MAXYEAR,                 \* last year a date holds
  MaxIntervals             \* bound on the intervals walked

VARIABLES
  anchor,     \* the first slot
  interval,   \* unit and value of the benefit
  slot,       \* the slot reached
  walked      \* intervals walked

calendarVars == <<anchor, interval, slot, walked>>

IntervalUnit == {"DAY", "WEEK", "MONTH", "YEAR"}
Day(y, m, d) == [year |-> y, month |-> m, day |-> d]

Leap(year) == year % 4 = 0 /\ (year % 100 # 0 \/ year % 400 = 0)
monthrange(year, month) == IF month = 2 THEN IF Leap(year) THEN 29 ELSE 28 ELSE IF month \in {4, 6, 9, 11} THEN 30 ELSE 31

\* A schedule begins on a day there is.
ASSUME CalendarAssumption ==
  /\ IntervalValues \subseteq Nat /\ {INTERVAL_CEILING_YEARS, MAXYEAR, MaxIntervals} \subseteq Nat
  /\ \A d \in Anchors : d \in [year : Nat, month : 1 .. 12, day : Nat \ {0}] /\ d.day <= monthrange(d.year, d.month)

\* Days from the first of January of the year nought to the first of this month.
DaysBefore(year, month) ==
  LET before == <<0, 31, 59, 90, 120, 151, 181, 212, 243, 273, 304, 334>>
      leaps == ((year + 3) \div 4) - ((year + 99) \div 100) + ((year + 399) \div 400)
  IN 365 * year + leaps + before[month] + (IF month > 2 /\ Leap(year) THEN 1 ELSE 0)

\* External: a moment and a number of days, of datetime.
PlusDays(moment, days) ==
  LET target == DaysBefore(moment.year, moment.month) + moment.day + days
      year == CHOOSE y \in moment.year .. moment.year + (days \div 365) + 1 : DaysBefore(y, 1) < target /\ target <= DaysBefore(y + 1, 1)
      month == CHOOSE m \in 1 .. 12 : DaysBefore(year, m) < target /\ target <= DaysBefore(year, m) + monthrange(year, m)
  IN Day(year, month, target - DaysBefore(year, month))

\* A day missing from the target month lands on its last day.
add_months(moment, months) ==
  LET total == moment.month - 1 + months
      year == moment.year + total \div 12
      month == (total % 12) + 1
  IN Day(year, month, IF moment.day < monthrange(year, month) THEN moment.day ELSE monthrange(year, month))

STEPS(unit) == CASE unit = "DAY" -> <<1, 0>> [] unit = "WEEK" -> <<7, 0>> [] unit = "MONTH" -> <<0, 1>> [] unit = "YEAR" -> <<0, 12>>

add_interval(moment, unit, value) == add_months(PlusDays(moment, STEPS(unit)[1] * value), STEPS(unit)[2] * value)

Later(a, b) ==
  \/ a.year > b.year
  \/ a.year = b.year /\ a.month > b.month
  \/ a.year = b.year /\ a.month = b.month /\ a.day > b.day

\* Variant: a step of none is accepted.
validate_interval_Zero(moment, unit, value) ==
  ~Later(add_interval(moment, unit, value), add_interval(moment, "YEAR", INTERVAL_CEILING_YEARS))

\* What the panel accepts of a recurring benefit: a step of at least one, that the calendar holds, of at most so many years.
validate_interval(moment, unit, value) ==
  /\ value >= 1
  /\ add_interval(moment, unit, value).year <= MAXYEAR
  /\ ~Later(add_interval(moment, unit, value), add_interval(moment, "YEAR", INTERVAL_CEILING_YEARS))

CalendarInit ==
  /\ anchor \in Anchors
  /\ interval \in {i \in [unit : IntervalUnit, value : IntervalValues] : validate_interval(anchor, i.unit, i.value)}
  /\ slot = anchor /\ walked = 0

\* The slot after this one.
WalksOn ==
  /\ walked < MaxIntervals
  /\ slot' = add_interval(slot, interval.unit, interval.value)
  /\ walked' = walked + 1
  /\ UNCHANGED <<anchor, interval>>

CalendarNext == WalksOn

-----------------------------------------------------------------------------
(* What must hold.                                                         *)

\* The schedule is made of days of the calendar.
CalendarTypeOK ==
  /\ slot.month \in 1 .. 12 /\ slot.day \in 1 .. monthrange(slot.year, slot.month) /\ slot.year \in Nat
  /\ interval.unit \in IntervalUnit /\ interval.value \in IntervalValues /\ walked \in 0 .. MaxIntervals

MonthsOf(moment) == moment.year * 12 + moment.month - 1

\* A schedule counted in months skips no month and doubles none, through every year's end, and its day is the day it began on or the last day of the shortest month it has gone through: it never comes back to the longer day.
MonthsAreWhole ==
  STEPS(interval.unit)[2] > 0 =>
    LET apart == STEPS(interval.unit)[2] * interval.value
        lengths == {monthrange((MonthsOf(anchor) + n * apart) \div 12, ((MonthsOf(anchor) + n * apart) % 12) + 1) : n \in 0 .. walked} \cup {anchor.day}
    IN MonthsOf(slot) = MonthsOf(anchor) + walked * apart /\ slot.day \in lengths /\ \A d \in lengths : slot.day <= d

\* Every interval the panel accepts moves the schedule on, so the walk to the slot a benefit owes now ends.
MovesOn == [][walked' # walked => Later(slot', slot)]_calendarVars

\* A schedule moves on by whole months or days at every interval a benefit may have, and each slot is a day there is.
CalendarKeeps == [](CalendarTypeOK /\ MonthsAreWhole) /\ MovesOn
=============================================================================
