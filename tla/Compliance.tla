------------------------------ MODULE Compliance ------------------------------
(***************************************************************************)
(* compliance.py: the warnings that the assignments of a result give rise  *)
(* to, and the key by which a warning is overridden.                       *)
(*                                                                         *)
(* A shift is a record employee, slot, start, end, nightLabel; moments are *)
(* hours from the start of a Monday.  "slot" and "week" are None where a   *)
(* warning has none.                                                       *)
(***************************************************************************)
EXTENDS Integers, FiniteSets, FiniteSetsExt

CONSTANT None

MaxWeeklyHours == 52
MinRestHours == 11

WeekOf(hour) == hour \div 168
DayOf(hour) == hour \div 24
HourOf(hour) == hour % 24

Warning(code, shift) ==
  [code |-> code, employee |-> shift.employee, slot |-> shift.slot, week |-> None]

\* All the hours of a shift count in the week in which it starts.
WeeklyHours(shifts, e, week) ==
  MapThenSumSet(LAMBDA s : s.end - s.start,
                {s \in shifts : s.employee = e /\ WeekOf(s.start) = week})

WeeklyHoursWarnings(shifts) ==
  LET weeks == {<<s.employee, WeekOf(s.start)>> : s \in shifts} IN
  {[code |-> "WEEKLY_HOURS_OVER_52", employee |-> k[1], slot |-> None, week |-> k[2]] :
     k \in {k \in weeks : WeeklyHours(shifts, k[1], k[2]) > MaxWeeklyHours}}

\* The shifts of one employee next to each other in the order of their starts.
Neighbours(shifts) ==
  {k \in shifts \X shifts :
     /\ k[1].employee = k[2].employee
     /\ k[1].start < k[2].start
     /\ \A s \in shifts : s.employee = k[1].employee =>
          ~(k[1].start < s.start /\ s.start < k[2].start)}

MinimumRestWarnings(shifts) ==
  {Warning("MIN_REST_UNDER_POLICY", k[2]) :
     k \in {k \in Neighbours(shifts) : k[2].start - k[1].end < MinRestHours}}

IsNight(shift) == shift.nightLabel \/ HourOf(shift.start) >= 22 \/ HourOf(shift.start) < 6

NightAndWeekendWarnings(shifts) ==
  {Warning("NIGHT_WORK_REVIEW", s) : s \in {s \in shifts : IsNight(s)}} \cup
  {Warning("WEEKEND_OR_HOLIDAY_REVIEW", s) : s \in {s \in shifts : DayOf(s.start) % 7 >= 5}}

ConsecutiveNightWarnings(shifts) ==
  {Warning("CONSECUTIVE_NIGHT_SHIFTS_REVIEW", k[2]) :
     k \in {k \in Neighbours({s \in shifts : IsNight(s)}) :
              DayOf(k[2].start) - DayOf(k[1].start) = 1}}

Warnings(shifts) ==
  WeeklyHoursWarnings(shifts) \cup MinimumRestWarnings(shifts) \cup
  NightAndWeekendWarnings(shifts) \cup ConsecutiveNightWarnings(shifts)

\* Only too many hours in a week keep a result from being published.
Blocking(shifts) == {w \in Warnings(shifts) : w.code = "WEEKLY_HOURS_OVER_52"}

\* compliance_warning_instance_key: the warning and the hash of all the
\* assignments it was found in, so that any change makes it another warning.
InstanceKey(warning, shifts) == [warning |-> warning, hash |-> shifts]

=============================================================================
