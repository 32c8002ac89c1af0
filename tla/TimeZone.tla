------------------------------ MODULE TimeZone -------------------------------
(***************************************************************************)
(* Local time for systems without the dynamic time zone functions          *)
(* (src/legacy/shared/tzapi.c).  An instant is the number of minutes since *)
(* the start of the Gregorian calendar, in which day 1 is Monday,          *)
(* 0001-01-01; SYSTEMTIME and FILETIME are two spellings of it.  A rule is *)
(* a transition: month (0 for none), day (1-4 the occurrence in the month, *)
(* 5 the last one), dow (0 is Sunday) and the minute of the day.  A zone   *)
(* has the three biases in minutes and the rules of both transitions.      *)
(***************************************************************************)
EXTENDS Calls

MinutesPerDay == 1440

DaysInMonth(year, month) ==
    IF month = 2 /\ ((year % 4 = 0 /\ year % 100 # 0) \/ year % 400 = 0) THEN 29
    ELSE <<31, 28, 31, 30, 31, 30, 31, 31, 30, 31, 30, 31>>[month]

\* Sakamoto's formula.
day_of_week(year, month, day) ==
    LET y == IF month < 3 THEN year - 1 ELSE year
    IN  (y + y \div 4 - y \div 100 + y \div 400
           + <<0, 3, 2, 5, 0, 3, 5, 1, 4, 6, 2, 4>>[month] + day) % 7

\* The day of the calendar and the year of an instant.
DayNumber(year, month, day) ==
    LET y == year - 1
        leap == IF month > 2 THEN DaysInMonth(year, 2) - 28 ELSE 0
    IN  365 * y + y \div 4 - y \div 100 + y \div 400
          + <<0, 31, 59, 90, 120, 151, 181, 212, 243, 273, 304, 334>>[month] + leap + day
Instant(year, month, day, minute) == DayNumber(year, month, day) * MinutesPerDay + minute
YearOf(t) ==
    CHOOSE y \in t \div (366 * MinutesPerDay)..t \div (365 * MinutesPerDay) + 1 :
        Instant(y, 1, 1, 0) <= t /\ t < Instant(y + 1, 1, 1, 0)

\* The day of the month a transition falls on in a year.
ComputeTransitionDate(year, rule) ==
    LET dim == DaysInMonth(year, rule.month)
        day == 1 + ((rule.dow - day_of_week(year, rule.month, 1) + 7) % 7) + (rule.day - 1) * 7
    IN  IF rule.month = 0 THEN 0
        ELSE IF rule.day < 5 THEN IF day > dim THEN day - 7 ELSE day
        ELSE dim - ((day_of_week(year, rule.month, dim) - rule.dow + 7) % 7)
Transition(year, rule) == Instant(year, rule.month, ComputeTransitionDate(year, rule), rule.minute)

(* The instants are compared field by field in CompareSystemTime, from the *)
(* year down, which orders them as numbers.                                *)
isDST_North(zone, prelim) ==
    /\ Transition(YearOf(prelim), zone.DaylightDate) <= prelim
    /\ prelim < Transition(YearOf(prelim), zone.StandardDate)
isDST(zone, prelim) ==
    LET std == Transition(YearOf(prelim), zone.StandardDate)
        day == Transition(YearOf(prelim), zone.DaylightDate)
    IN  IF day < std THEN day <= prelim /\ prelim < std ELSE prelim < std \/ day <= prelim

LocalTime(zone, universal) ==
    LET prelim == universal - zone.Bias
    IN  IF zone.StandardDate.month = 0 \/ zone.DaylightDate.month = 0 THEN prelim
        ELSE prelim - (IF isDST(zone, prelim) THEN zone.DaylightBias ELSE zone.StandardBias)

(* The candidates for the universal time, tried in this order; 0 is        *)
(* failure.  Back(_, _) is the conversion that has to give local again.    *)
UniversalTime(zone, local, Back(_, _)) ==
    LET day == local + zone.Bias + zone.DaylightBias
        std == local + zone.Bias + zone.StandardBias
    IN  IF Back(zone, day) = local THEN day ELSE IF Back(zone, std) = local THEN std ELSE 0
-----------------------------------------------------------------------------
\* Without a zone the one of the system is asked for.
GetTimeZoneInformationForYear ==
    /\ At("gtziy")
    /\ c' \in IF c.arg.null THEN {Raise(c, "INVALID_PARAMETER", "FALSE")}
              ELSE {Returns(c, "TRUE")} \cup (IF c.arg.nozone THEN {Raise(c, "INVALID_DATA", "FALSE")} ELSE {})
\* The conversions fail when a date is out of the range of a file time.
SystemTimeToTzSpecificLocalTime_compat ==
    At("local") /\ c' \in {Returns(c, "TRUE"), Raise(c, "INVALID_PARAMETER", "FALSE")}
TzSpecificLocalTimeToSystemTime_compat ==
    /\ At("universal")
    /\ c' \in {Raise(c, "INVALID_PARAMETER", "FALSE")}
              \cup {Returns(r, "TRUE") : r \in {x \in {c} : UniversalTime(x.arg.zone, x.arg.time, LocalTime) # 0}}
==============================================================================
