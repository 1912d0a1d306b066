------------------------------ MODULE DateSet -------------------------------
(***************************************************************************)
(* date [[[[[CC]yy]mm]dd]HH]MM[.SS] (src/date/date.c): setthetime().  The  *)
(* digits come in pairs, numbers of 0 to 99; odd tells that one is left    *)
(* over; dot is what stands behind the dot, digits there counted by len.   *)
(* now is what localtime() has for the fields that are not given, months   *)
(* from 0 and years from 1900 there.  mktime(), netsettime(), adjtime()    *)
(* and settimeofday() are external; ATOI2 is read as ATOIZ.                *)
(***************************************************************************)
EXTENDS Integers, SequencesExt

TM_YEAR_BASE == 1900
USAGE == "usage"        \* badcanotime()
ERROR == "error"        \* errx() of a month that is not among the cases

IsLeap(year) == (year % 4 = 0 /\ year % 100 # 0) \/ year % 400 = 0

(* The seconds: whether there is a dot, the digits behind it, their value. *)
SecondsBad(dot) == dot.given /\ (dot.digits # 2 \/ dot.sec > 61)

(* The year of two or four digits. *)
(* Variant: the century turns one year late. *)
YearPivotLate(fields, now) ==
  CASE Len(fields) = 6 -> fields[1] * 100 - TM_YEAR_BASE + fields[2]
    [] Len(fields) = 5 -> fields[1] + (IF fields[1] <= 69 THEN 2000 ELSE 1900) - TM_YEAR_BASE
    [] OTHER           -> now.year

Year(fields, now) ==
  CASE Len(fields) = 6 -> fields[1] * 100 - TM_YEAR_BASE + fields[2]
    [] Len(fields) = 5 -> fields[1] + (IF fields[1] < 69 THEN 2000 ELSE 1900) - TM_YEAR_BASE
    [] OTHER           -> now.year

(* The switch over the month: the last day it lets pass, or -1 when there  *)
(* is no case for the month.                                               *)
LastDay(mon, year) ==
  CASE mon \in {0, 2, 4, 6, 7, 9, 11} -> 31
    [] mon = 1                        -> IF IsLeap(year + TM_YEAR_BASE) THEN 29 ELSE 28
    [] OTHER                          -> -1

(* The switch over the number of digits, from the century on; what comes   *)
(* first is told first.                                                    *)
FromEnd(fields, k) == fields[Len(fields) - k]     \* MM is 0, HH is 1, ...

Month(fields, now) == IF Len(fields) >= 4 THEN FromEnd(fields, 3) - 1 ELSE now.mon

Verdict(fields, odd, dot, now) ==
  LET n == Len(fields)
      mon == Month(fields, now)
      last == LastDay(mon, Year(fields, now))
      wrong == \/ SecondsBad(dot) \/ odd \/ n > 6 \/ (n = 0 /\ ~dot.given)
               \/ n = 6 /\ fields[1] * 100 < TM_YEAR_BASE
               \/ n >= 4 /\ mon \notin 0 .. 11
  IN  IF wrong THEN USAGE
      ELSE IF n >= 3 /\ last = -1 THEN ERROR
      ELSE IF \/ n >= 3 /\ FromEnd(fields, 2) \notin 1 .. last
              \/ n >= 2 /\ FromEnd(fields, 1) > 23
              \/ n >= 1 /\ FromEnd(fields, 0) > 59
           THEN USAGE ELSE "taken"

(* The time that mktime() gets. *)
SetTheTime(fields, dot, now) ==
  LET n == Len(fields)
  IN  [year |-> Year(fields, now), mon |-> Month(fields, now),
       mday |-> IF n >= 3 THEN FromEnd(fields, 2) ELSE now.mday,
       hour |-> IF n >= 2 THEN FromEnd(fields, 1) ELSE now.hour,
       min  |-> IF n >= 1 THEN FromEnd(fields, 0) ELSE now.min,
       sec  |-> IF dot.given THEN dot.sec ELSE 0]

-----------------------------------------------------------------------------
(* The calendar. *)
DaysIn(month, year) ==
  CASE month = 2               -> IF IsLeap(year) THEN 29 ELSE 28
    [] month \in {4, 6, 9, 11} -> 30
    [] OTHER                   -> 31

(* The date that is meant: each field given, or taken from now. *)
Meant(fields, dot, now) ==
  LET n == Len(fields)
      yy == FromEnd(fields, 4)
  IN  [year  |-> CASE n = 6 -> 100 * fields[1] + yy
                   [] n = 5 -> CHOOSE y \in 1969 .. 2068 : y % 100 = yy
                   [] OTHER -> now.year + 1900,
       month |-> IF n >= 4 THEN FromEnd(fields, 3) ELSE now.mon + 1,
       day   |-> IF n >= 3 THEN FromEnd(fields, 2) ELSE now.mday,
       hour  |-> IF n >= 2 THEN FromEnd(fields, 1) ELSE now.hour,
       min   |-> IF n >= 1 THEN FromEnd(fields, 0) ELSE now.min,
       sec   |-> IF dot.given THEN dot.sec ELSE 0]

Valid(d) ==
  /\ d.year >= 1900 /\ d.month \in 1 .. 12
  /\ d.day \in 1 .. DaysIn(d.month, d.year)
  /\ d.hour <= 23 /\ d.min <= 59 /\ d.sec <= 61

(* A date of one to six fields is taken as the calendar has it, with what  *)
(* is not given from the current time, and refused when there is no such   *)
(* date: years from 1969 to 2068 when the century is left out, leap years, *)
(* fields counted from the right (date.c:188 to 273).  Not so the months   *)
(* of 30 days.                                                             *)
DateAsCalendar(fields, dot, now) ==
  LET d == Meant(fields, dot, now)
  IN  (Len(fields) \in 1 .. 6 /\ (dot.given => dot.digits = 2) /\ d.month \notin {4, 6, 9, 11})
        => IF Valid(d)
           THEN /\ Verdict(fields, FALSE, dot, now) = "taken"
                /\ SetTheTime(fields, dot, now) =
                     [year |-> d.year - 1900, mon |-> d.month - 1, mday |-> d.day,
                      hour |-> d.hour, min |-> d.min, sec |-> d.sec]
           ELSE Verdict(fields, FALSE, dot, now) = USAGE

-----------------------------------------------------------------------------
(* "localtime gave invalid month" (date.c:247) is not told of a month of   *)
(* the year: the code has no case for those of 30 days.                    *)
EveryMonth(fields, dot, now) == Verdict(fields, FALSE, dot, now) # ERROR
=============================================================================
