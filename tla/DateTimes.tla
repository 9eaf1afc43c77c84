------------------------------ MODULE DateTimes ------------------------------
(***************************************************************************)
(* A DateTime: broken-down local time in shared data.  The setters print   *)
(* the new fields and parse the text; the adders of days and less go       *)
(* through mktime and localtime, which are external.  The zone is standard *)
(* time, one hour ahead in the months of Summer.                           *)
(***************************************************************************)
EXTENDS Integers

CONSTANTS Year,            \* years the times explored are in (a bound)
          Months, Days, Hours, Minutes, Seconds,   \* arguments of the adders
          MaxInt,          \* the largest int
          MaxCalls,        \* calls explored on one time (a bound)
          Summer,          \* months (0..11) with daylight saving time
          NoTime           \* there is no copy

Ints == (-MaxInt - 1)..MaxInt

ASSUME TimeAssumption ==
  /\ MaxInt \in Nat
  /\ Year \subseteq Int
  /\ Months \cup Days \cup Hours \cup Minutes \cup Seconds \subseteq Ints

VARIABLES time,            \* the fields, as struct tm has them
          timeCopy,        \* a second DateTime, copied from the first
          timeShared,      \* both have the same data
          timeCall         \* history: the time before the last call, and the call

timeVars == <<time, timeCopy, timeShared, timeCall>>

-----------------------------------------------------------------------------
(* The calendar.  An instant is a day and a second of that day.            *)

IsLeap(y) == y % 4 = 0 /\ (y % 100 # 0 \/ y % 400 = 0)
DaysBeforeYear(y) == 365 * y + (y + 3) \div 4 - (y + 99) \div 100 + (y + 399) \div 400
DaysBeforeMonth(y, m) ==
  <<0, 31, 59, 90, 120, 151, 181, 212, 243, 273, 304, 334, 365>>[m + 1]
    + IF m > 1 /\ IsLeap(y) THEN 1 ELSE 0
DaysIn(y, m) == DaysBeforeMonth(y, m + 1) - DaysBeforeMonth(y, m)

Later(instant, seconds) ==
  <<instant[1] + (instant[2] + seconds) \div 86400, (instant[2] + seconds) % 86400>>

(* The year of a day: 400 years have 146097 days. *)
YearOf(day) ==
  LET about == (400 * day) \div 146097
  IN CHOOSE n \in (about - 1)..(about + 1) : DaysBeforeYear(n) <= day /\ day < DaysBeforeYear(n + 1)

(* The month of a day of a year, both from 0. *)
MonthOf(y, yday) ==
  CHOOSE n \in 0..11 : DaysBeforeMonth(y, n) <= yday /\ yday < DaysBeforeMonth(y, n + 1)

FieldsOf(instant, dst) ==
  LET day == instant[1]
      y == YearOf(day)
      yday == day - DaysBeforeYear(y)
      m == MonthOf(y, yday)
  IN [year |-> y, month |-> m, day |-> yday - DaysBeforeMonth(y, m) + 1,
      hour |-> instant[2] \div 3600, minute |-> (instant[2] \div 60) % 60,
      second |-> instant[2] % 60, dst |-> dst]

(* mktime: fields out of range carry over, and a time that says it is not  *)
(* in daylight saving time is taken as standard time.                      *)
Instant(t) ==
  Later(<<DaysBeforeYear(t.year) + DaysBeforeMonth(t.year, t.month) + t.day - 1, 0>>,
        (t.hour - t.dst) * 3600 + t.minute * 60 + t.second)

(* localtime *)
LocalTime(instant) ==
  LET standard == FieldsOf(instant, 0)
  IN IF standard.month \in Summer THEN FieldsOf(Later(instant, 3600), 1) ELSE standard

(* toStdTime() is const, and yet mktime writes the fields it has carried   *)
(* over into the data - which the copies share.                            *)
Normal(t) == LocalTime(Instant(t))

-----------------------------------------------------------------------------
(* What strptime takes of a text printed as %04d-%02d-%02d %02d:%02d:%02d:  *)
(* four digits of the year, and the day without regard to the month.       *)
Parses(t) ==
  /\ t.year \in 0..9999 /\ t.month \in 0..11 /\ t.day \in 1..31
  /\ t.hour \in 0..23 /\ t.minute \in 0..59 /\ t.second \in 0..61

At(y, m, d, h, mi, s) ==
  [year |-> y, month |-> m, day |-> d, hour |-> h, minute |-> mi, second |-> s, dst |-> 0]

(* What is left of a sum or a product in an int: the overflow is           *)
(* undefined, and what is built wraps.                                     *)
AsInt(n) ==
  IF n \in Ints THEN n ELSE ((n + MaxInt + 1) % (2 * MaxInt + 2)) - (MaxInt + 1)

(* int division in C *)
Quotient(a, b) == IF a < 0 THEN -((-a) \div b) ELSE a \div b
Remainder(a, b) == a - b * Quotient(a, b)

(* Mutant: the year does not follow. *)
MonthsAddedInYear(t, n) == [t EXCEPT !.month = (@ + n) % 12, !.dst = 0]

MonthsAdded(t, n) ==
  LET m == AsInt(t.month + n)
  IN IF m < 0
     THEN [t EXCEPT !.year = @ - (Quotient(m, 12) + 1), !.month = 12 + Remainder(m, 12), !.dst = 0]
     ELSE [t EXCEPT !.year = @ + m \div 12, !.month = m % 12, !.dst = 0]

-----------------------------------------------------------------------------

TimeInit ==
  /\ \E y \in Year, m \in {1, 6, 11}, d \in {1, 31}, h \in {0, 23} :
       time = At(y, m, d, h, 59, 30)
  /\ timeCopy = NoTime /\ timeShared = FALSE
  /\ timeCall = [name |-> "construct", before |-> time, by |-> 0, nr |-> 0]

(* The next call, while the bound allows one. *)
Calling(name, by) ==
  /\ timeCall.nr < MaxCalls
  /\ timeCall' = [name |-> name, before |-> time, by |-> by, nr |-> timeCall.nr + 1]

(* *this = fromString(buf): an exception leaves this time as it was; a     *)
(* success gives it data of its own.                                       *)
RenewTime(name, by, t) ==
  /\ t.year \in Year \/ ~Parses(t)
  /\ IF Parses(t) THEN time' = t /\ timeShared' = FALSE
     ELSE UNCHANGED <<time, timeShared>>
  /\ Calling(IF Parses(t) THEN name ELSE "throw", by)
  /\ UNCHANGED timeCopy

CopyTime ==
  /\ timeCopy = NoTime
  /\ timeCopy' = time /\ timeShared' = TRUE
  /\ UNCHANGED <<time, timeCall>>

DropTime ==
  /\ timeCopy # NoTime
  /\ timeCopy' = NoTime /\ timeShared' = FALSE
  /\ UNCHANGED <<time, timeCall>>

AddYears == \E n \in {-1, 1} : RenewTime("years", n, [time EXCEPT !.year = @ + n, !.dst = 0])
AddMonths == \E n \in Months : RenewTime("months", n, MonthsAdded(time, n))

SetYMD ==
  \E y \in Year, d \in {29, 32} :
    IF d \in 1..31
    THEN RenewTime("set", 0, At(y, 1, d, time.hour, time.minute, time.second))
    ELSE RenewTime("set", 0, At(y, 1, d, 24, 60, 62))       \* throws before it prints

SetYear == \E y \in Year : RenewTime("set", 0, [time EXCEPT !.year = y, !.dst = 0])

(* setHours, setMinutes, setSeconds and setHMS check what they are given.  *)
SetHMS ==
  \E h \in {23, 24}, s \in {60, 61} :
    IF h \in 0..23 /\ s \in 0..60
    THEN RenewTime("set", 0, [time EXCEPT !.hour = h, !.second = s, !.dst = 0])
    ELSE RenewTime("set", 0, [time EXCEPT !.hour = 24])

(* setMonth, setDay: checked by the parser only. *)
SetMonthDay ==
  \E m \in {1, 8}, d \in {0, 31} :
    RenewTime("set", 0, [time EXCEPT !.month = m, !.day = d, !.dst = 0])

(* Reads the time, which normalises the data, whoever shares it.           *)
ReadInstant == timeCopy' = IF timeShared THEN Normal(time) ELSE timeCopy

(* Mutant: the new time is written into the shared data. *)
AddSecondsInPlace(n) ==
  LET sum == Later(Instant(time), n)
  IN /\ LocalTime(sum).year \in Year
     /\ time' = LocalTime(sum)
     /\ timeCopy' = IF timeShared THEN LocalTime(sum) ELSE timeCopy
     /\ UNCHANGED timeShared

(* addSeconds: deref the old data, new data for the sum.                   *)
AddSeconds(n) ==
  LET sum == Later(Instant(time), n)
  IN /\ LocalTime(sum).year \in Year
     /\ ReadInstant
     /\ time' = LocalTime(sum) /\ timeShared' = FALSE

(* The number of seconds is an int: at most 24855 days. *)
Adder(n, unit) == AddSeconds(AsInt(n * unit)) /\ Calling("seconds", n * unit)

AddDays    == \E n \in Days : Adder(n, 24 * 60 * 60)
AddHours   == \E n \in Hours : Adder(n, 60 * 60)
AddMinutes == \E n \in Minutes : Adder(n, 60)
AddOwnSeconds == \E n \in Seconds : Adder(n, 1)

ToStdTime ==
  /\ ReadInstant
  /\ time' = Normal(time)
  /\ Calling("seconds", 0)
  /\ UNCHANGED timeShared

TimeNext ==
  \/ CopyTime \/ DropTime
  \/ AddYears \/ AddMonths \/ SetYMD \/ SetYear \/ SetHMS \/ SetMonthDay
  \/ AddDays \/ AddHours \/ AddMinutes \/ AddOwnSeconds \/ ToStdTime

TimeSpec == TimeInit /\ [][TimeNext]_timeVars

-----------------------------------------------------------------------------
(* Properties. *)

MonthIndex(t) == 12 * t.year + t.month

(* Calendar arithmetic is exact over ends of years, leap days and summer   *)
(* time: seconds move the instant and months the calendar page by what was *)
(* asked for, and a call that throws changes nothing - but for months that *)
(* reach further back than last January (DateTime.cpp:284), and for        *)
(* numbers of months or seconds that no int holds (DateTime.cpp:283, 308,  *)
(* 313, 318).                                                              *)
TimeArithmetic ==
  LET before == timeCall.before by == timeCall.by
  IN CASE timeCall.name = "months" ->
            \/ before.month + by <= -12 \/ before.month + by \notin Ints
            \/ /\ MonthIndex(time) = MonthIndex(before) + by
               /\ time.day = before.day /\ time.hour = before.hour
       [] timeCall.name = "seconds" ->
            /\ by \notin Ints \/ Instant(time) = Later(Instant(before), by)
            /\ time.month \in 0..11 /\ time.day \in 1..DaysIn(time.year, time.month)
       [] timeCall.name = "throw" -> time = before
       [] OTHER -> TRUE

(* A copy denotes the same instant whatever is done to the original, also  *)
(* when the fields of the data they share are normalised by a read.        *)
CopyKeepsInstant ==
  [][timeCopy # NoTime /\ timeCopy' # NoTime => Instant(timeCopy') = Instant(timeCopy)]_timeVars

TimeFields ==
  [year : Int, month : 0..11, day : Int, hour : Int, minute : Int, second : Int, dst : {0, 1}]

(* Inductive invariant: shared data is the same data. *)
TimeIInv ==
  /\ time \in TimeFields /\ timeShared \in BOOLEAN
  /\ timeShared => timeCopy = time
  /\ TimeArithmetic
=============================================================================
