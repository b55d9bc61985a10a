------------------------------ MODULE DateTime ------------------------------
(***************************************************************************)
(* archive/datetime.rs: from a file's time of modification to the packed   *)
(* word in an entry header and back.  A clock that knows the calendar runs *)
(* from the epoch through the years the format can hold, and beyond.       *)
(*                                                                         *)
(* A point in time is a day since 1970-01-01 and a second of that day,     *)
(* because seconds since 1970 exceed TLC's integers in 2038.               *)
(***************************************************************************)
EXTENDS Integers

CONSTANTS LastDay,   \* bound: the last day the clock runs to
          Seconds    \* bound: the seconds of a day it shows

ASSUME ClockAssumption ==
    LastDay \in Nat /\ 0 \in Seconds /\ \A s \in Seconds : s \in Nat /\ s < 86400

VARIABLES
    day, sec,  \* the time of modification
    date,      \* what a calendar calls that day
    word       \* the packed date and time in the entry header, by bit field

clockVars == <<day, sec, date, word>>

MinYear == 1978
MaxYear == 2041
MinDay == 2922                   \* MIN_SECS / 86400
MaxDay == 26297                  \* MAX_SECS / 86400

Words == [day : 0..31, month : 0..15, year : 0..63, hour : 0..31, minute : 0..63, second : 0..63]

-----------------------------------------------------------------------------
(* The code *)

\* Faulty: the century rule is left out of the day of the year.
DaysToCivilNoCentury(z) ==
    LET era == (z + 719468) \div 146097
        doe == (z + 719468) % 146097
        yoe == (doe - doe \div 1460 + doe \div 36524 - doe \div 146096) \div 365
        doy == doe - (365 * yoe + yoe \div 4)
        mp  == (5 * doy + 2) \div 153
        m   == IF mp < 10 THEN mp + 3 ELSE mp - 9
        y   == yoe + 400 * era
    IN  [year |-> IF m <= 2 THEN y + 1 ELSE y, month |-> m,
         day |-> doy - (153 * mp + 2) \div 5 + 1]

\* days_to_civil for days that are not before year 0.
DaysToCivil(z) ==
    LET era == (z + 719468) \div 146097
        doe == (z + 719468) % 146097
        yoe == (doe - doe \div 1460 + doe \div 36524 - doe \div 146096) \div 365
        doy == doe - (365 * yoe + yoe \div 4 - yoe \div 100)
        mp  == (5 * doy + 2) \div 153
        m   == IF mp < 10 THEN mp + 3 ELSE mp - 9
        y   == yoe + 400 * era
    IN  [year |-> IF m <= 2 THEN y + 1 ELSE y, month |-> m,
         day |-> doy - (153 * mp + 2) \div 5 + 1]

\* The days from 1 March to the first of month m.
MonthStart(m) == (153 * (IF m > 2 THEN m - 3 ELSE m + 9) + 2) \div 5

\* civil_to_days computes the day of the year in u32.
DayOfYearUnderflows(d) == MonthStart(d.month) + d.day < 1

CivilToDays(d) ==
    LET y   == IF d.month <= 2 THEN d.year - 1 ELSE d.year
        era == y \div 400
        yoe == y % 400
        doy == MonthStart(d.month) + d.day - 1
    IN  era * 146097 + yoe * 365 + yoe \div 4 - yoe \div 100 + doy - 719468

\* from_system_time_clamped: the date and the time of day.
FromSystemTime(z, s) ==
    LET late == z > MaxDay
        d == DaysToCivil(IF late THEN MaxDay ELSE z)
        t == IF late THEN 86399 ELSE s
    IN  IF z < MinDay
        THEN [year |-> MinYear, month |-> 1, day |-> 1, hour |-> 0, minute |-> 0, second |-> 0]
        ELSE [year |-> d.year, month |-> d.month, day |-> d.day,
              hour |-> t \div 3600, minute |-> (t % 3600) \div 60, second |-> t % 60]

\* Faulty: the windows overlap in 2006.
YearFieldOverlapping(y) ==
    IF y <= 1999 THEN y - 1970
    ELSE IF y <= 2006 THEN y - 1942
    ELSE IF y <= 2033 THEN y - 1976
    ELSE y - 2034

\* The windows of the year field.
YearField(y) ==
    IF y <= 1999 THEN y - 1970
    ELSE IF y <= 2005 THEN y - 1942
    ELSE IF y <= 2033 THEN y - 1976
    ELSE y - 2034

YearOf(f) ==
    IF f <= 7 THEN f + 2034
    ELSE IF f <= 29 THEN f + 1970
    ELSE IF f <= 57 THEN f + 1976
    ELSE f + 1942

\* pack: bits above a field would spill into its neighbour; those of a date
\* in range do not (TimeSurvivesArchive).
Pack(dt) == [dt EXCEPT !.year = YearField(dt.year), !.month = dt.month - 1]
Unpack(w) == [w EXCEPT !.year = YearOf(w.year), !.month = w.month + 1]

\* to_system_time, as a day and a second; the second may exceed the day for
\* a word that holds no valid time.
ToSystemTime(dt) == <<CivilToDays(dt), dt.hour * 3600 + dt.minute * 60 + dt.second>>

-----------------------------------------------------------------------------
(* The clock *)

Leap(y) == y % 4 = 0 /\ (y % 100 # 0 \/ y % 400 = 0)
DaysIn(y, m) == IF m = 2 THEN (IF Leap(y) THEN 29 ELSE 28)
                ELSE IF m \in {4, 6, 9, 11} THEN 30 ELSE 31
NextDate(d) ==
    IF d.day < DaysIn(d.year, d.month) THEN [d EXCEPT !.day = @ + 1]
    ELSE IF d.month < 12 THEN [year |-> d.year, month |-> d.month + 1, day |-> 1]
    ELSE [year |-> d.year + 1, month |-> 1, day |-> 1]

\* The epoch is the first of January 1970.
Epoch == day = 0 /\ sec = 0 /\ date = [year |-> 1970, month |-> 1, day |-> 1]

InitClock ==
    /\ Epoch
    /\ word = Pack(FromSystemTime(day, sec))

\* The next time of the same day, or the next day.
Tick ==
    /\ \/ /\ \E s \in Seconds : s > sec
          /\ sec' \in {s \in Seconds : s > sec /\ \A r \in Seconds : r > sec => s <= r}
          /\ UNCHANGED <<day, date>>
       \/ /\ \A s \in Seconds : s <= sec
          /\ day < LastDay
          /\ day' = day + 1 /\ sec' = 0 /\ date' = NextDate(date)
    /\ word' = Pack(FromSystemTime(day', sec'))

SpecClock == InitClock /\ [][Tick]_clockVars

\* Any word another program may have left in an archive, and what becomes
\* of it when it is read and written again.
ForeignInit ==
    /\ Epoch
    /\ word \in [day : 0..31, month : 0..15, year : 0..63, hour : {0, 31},
                 minute : {0}, second : {63}]

Rewrite == word' = Pack(Unpack(word)) /\ UNCHANGED <<day, sec, date>>

ForeignSpec == ForeignInit /\ [][Rewrite]_clockVars

-----------------------------------------------------------------------------
(* Properties *)

InRange(z) == MinDay <= z /\ z <= MaxDay

\* The word in the header names the calendar's date: leap years, the end of
\* a century and the four windows of the year field included.  Outside the
\* years of the format it names the nearest time.
StampIsCalendarDate ==
    LET dt == Unpack(word)
    IN  IF InRange(day)
        THEN [year |-> dt.year, month |-> dt.month, day |-> dt.day] = date
        ELSE dt.year = IF day < MinDay THEN MinYear ELSE MaxYear

\* A file that is archived and extracted again keeps its time of
\* modification to the second, or gets the nearest the format can hold.
TimeSurvivesArchive ==
    /\ word \in Words
    /\ ToSystemTime(Unpack(word)) =
          IF day < MinDay THEN <<MinDay, 0>>
          ELSE IF day > MaxDay THEN <<MaxDay, 86399>>
          ELSE <<day, sec>>

\* "Always succeeds" (datetime.rs:181): no date read from an archive makes
\* the conversion to a SystemTime subtract below zero.
ConversionAlwaysSucceeds == ~DayOfYearUnderflows(Unpack(word))
=============================================================================
