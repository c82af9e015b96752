------------------------------ MODULE Calendar ------------------------------
(***************************************************************************)
(* The date of {{$isoTimestamp}} (germal-core/src/vars.rs: iso_utc), which *)
(* the program computes from the clock without a library, while days pass. *)
(***************************************************************************)
EXTENDS Integers

CONSTANTS
    Days,       \* the days at which the clock is looked at first
    MaxDays     \* bound: how many days pass

ASSUME CalendarAssumption == Days \subseteq Nat /\ MaxDays \in Nat

VARIABLE day    \* since the start of 1970

\* Variant: no day is taken out of a century.
DateWithoutCenturies(days) ==
    LET z == days + 719468
        era == z \div 146097
        doe == z - era * 146097
        yoe == (doe - doe \div 1460 - doe \div 146096) \div 365
        doy == doe - (365 * yoe + yoe \div 4 - yoe \div 100)
        mp == (5 * doy + 2) \div 153
        m == IF mp < 10 THEN mp + 3 ELSE mp - 9
    IN <<yoe + era * 400 + (IF m <= 2 THEN 1 ELSE 0), m, doy - (153 * mp + 2) \div 5 + 1>>

\* iso_utc: year, month and day of a number of days since the start of 1970; a
\* year is counted from March, four hundred years make an era.
Date(days) ==
    LET z == days + 719468
        era == z \div 146097
        doe == z - era * 146097
        yoe == (doe - doe \div 1460 + doe \div 36524 - doe \div 146096) \div 365
        doy == doe - (365 * yoe + yoe \div 4 - yoe \div 100)
        mp == (5 * doy + 2) \div 153
        m == IF mp < 10 THEN mp + 3 ELSE mp - 9
    IN <<yoe + era * 400 + (IF m <= 2 THEN 1 ELSE 0), m, doy - (153 * mp + 2) \div 5 + 1>>

CalendarInit == day \in Days

\* unix_secs: the clock goes on.
NextDay ==
    /\ \E d \in Days : day \in d..(d + MaxDays)
    /\ day' = day + 1

CalendarSpec == CalendarInit /\ [][NextDay]_day

-----------------------------------------------------------------------------
DaysIn(year, month) ==
    CASE month = 2 -> IF year % 4 = 0 /\ (year % 100 # 0 \/ year % 400 = 0) THEN 29 ELSE 28
      [] month \in {4, 6, 9, 11} -> 30
      [] OTHER -> 31

\* The calendar: the date after another.
DateAfter(d) ==
    CASE d[3] < DaysIn(d[1], d[2]) -> <<d[1], d[2], d[3] + 1>>
      [] d[3] >= DaysIn(d[1], d[2]) /\ d[2] < 12 -> <<d[1], d[2] + 1, 1>>
      [] OTHER -> <<d[1] + 1, 1, 1>>

\* The date of the next day is the next date of the calendar, over the ends of
\* months, leap years and centuries (vars.rs: iso_utc).
DateFollows == Date(day + 1) = DateAfter(Date(day))
=============================================================================
