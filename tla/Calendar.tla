--------------------------------- MODULE Calendar ---------------------------------
(***************************************************************************)
(* Civil dates, billing periods and schedules as packages/domain computes  *)
(* them: pure functions on [year, month, day], without a time zone.  Every *)
(* reminder, bill and expected date of the program comes out of these.     *)
(***************************************************************************)
EXTENDS Integers

Date(y, m, d) == [year |-> y, month |-> m, day |-> d]

IsLeapYear(y) == (y % 4 = 0 /\ y % 100 # 0) \/ y % 400 = 0

\* Mutant: years divisible by 100 are leap years too.
JulianDaysInMonth(y, m) ==
    IF m = 2 THEN IF y % 4 = 0 THEN 29 ELSE 28
    ELSE IF m \in {4, 6, 9, 11} THEN 30 ELSE 31

DaysInMonth(y, m) ==
    IF m = 2 THEN IF IsLeapYear(y) THEN 29 ELSE 28
    ELSE IF m \in {4, 6, 9, 11} THEN 30 ELSE 31

\* The dates there are; parseCivilDate refuses the others.
CivilDate ==
    {d \in [year : Int, month : 1..12, day : 1..31] : d.day <= DaysInMonth(d.year, d.month)}

\* A day a short month does not have becomes its last day.  Mutant: it stays.
Unclamped(y, m, d) == Date(y, m, d)

ClampToMonthEnd(y, m, d) ==
    Date(y, m, IF d <= DaysInMonth(y, m) THEN d ELSE DaysInMonth(y, m))

-------------------------------------------------------------------------------
(* Serial days: the number of days since 1970-01-01, in eras of 400 years  *)
(* that begin on the 1st of March.                                         *)

ToSerialDay(date) ==
    LET y == date.year - (IF date.month <= 2 THEN 1 ELSE 0)
        era == y \div 400
        yoe == y - era * 400
        doy == (153 * (date.month + (IF date.month > 2 THEN -3 ELSE 9)) + 2) \div 5
               + date.day - 1
        doe == yoe * 365 + yoe \div 4 - yoe \div 100 + doy
    IN  era * 146097 + doe - 719468

FromSerialDay(serial) ==
    LET z == serial + 719468
        era == z \div 146097
        doe == z - era * 146097
        yoe == (doe - doe \div 1460 + doe \div 36524 - doe \div 146096) \div 365
        doy == doe - (365 * yoe + yoe \div 4 - yoe \div 100)
        mp == (5 * doy + 2) \div 153
        month == mp + (IF mp < 10 THEN 3 ELSE -9)
    IN  Date(yoe + era * 400 + (IF month <= 2 THEN 1 ELSE 0), month,
             doy - (153 * mp + 2) \div 5 + 1)

AddDays(date, days) == FromSerialDay(ToSerialDay(date) + days)

AddMonths(date, months) ==
    LET total == date.year * 12 + (date.month - 1) + months
    IN  ClampToMonthEnd(total \div 12, (total % 12) + 1, date.day)

\* compareCivilDates(a, b) < 0.
Before(a, b) == ToSerialDay(a) < ToSerialDay(b)

-------------------------------------------------------------------------------
(* Billing periods of a card, packages/domain/src/statements.ts.           *)

NextMonth(y, m) == IF m = 12 THEN <<y + 1, 1>> ELSE <<y, m + 1>>
PrevMonthOf(y, m) == IF m = 1 THEN <<y - 1, 12>> ELSE <<y, m - 1>>

StatementDateOfMonth(ym, statementDay) == ClampToMonthEnd(ym[1], ym[2], statementDay)

\* The statement date of the period `today' is in.  Mutant: the day of the
\* statement already belongs to the next one.
EarlyStatementDate(statementDay, today) ==
    LET this == StatementDateOfMonth(<<today.year, today.month>>, statementDay)
    IN  IF ~Before(today, this)
        THEN StatementDateOfMonth(NextMonth(today.year, today.month), statementDay)
        ELSE this

StatementDate(statementDay, today) ==
    LET this == StatementDateOfMonth(<<today.year, today.month>>, statementDay)
    IN  IF Before(this, today)
        THEN StatementDateOfMonth(NextMonth(today.year, today.month), statementDay)
        ELSE this

\* When a bill falls due.  Mutant: also on the day of the statement.
DueDateAtOnce(dueDay, statement) ==
    LET same == ClampToMonthEnd(statement.year, statement.month, dueDay)
    IN  IF ~Before(same, statement) THEN same ELSE AddMonths(same, 1)

DueDate(dueDay, statement) ==
    LET same == ClampToMonthEnd(statement.year, statement.month, dueDay)
    IN  IF Before(statement, same) THEN same ELSE AddMonths(same, 1)

ComputeCardCycle(statementDay, dueDay, today) ==
    LET statement == StatementDate(statementDay, today)
        previous == StatementDateOfMonth(PrevMonthOf(statement.year, statement.month),
                                         statementDay)
    IN  [periodStart |-> AddDays(previous, 1),
         statementDate |-> statement,
         dueDate |-> DueDate(dueDay, statement)]

ComputePreviousCardCycle(statementDay, dueDay, today) ==
    LET current == ComputeCardCycle(statementDay, dueDay, today)
    IN  ComputeCardCycle(statementDay, dueDay, AddDays(current.periodStart, -1))

-------------------------------------------------------------------------------
(* Schedules of recurring rules, packages/domain/src/recurring.ts; days is *)
(* the custom interval.                                                    *)

Schedule == {"weekly", "monthly", "yearly", "custom_days"}

\* Mutant: a monthly rule goes on from the day it was clamped to.
NextFromCurrent(schedule, current) ==
    CASE schedule.freq = "weekly" -> AddDays(current, 7 * schedule.interval)
      [] schedule.freq = "monthly" -> AddMonths(current, schedule.interval)
      [] schedule.freq = "yearly" ->
            ClampToMonthEnd(current.year + schedule.interval, schedule.month, current.day)
      [] schedule.freq = "custom_days" -> AddDays(current, schedule.days)

NextExpectedDate(schedule, current) ==
    CASE schedule.freq = "weekly" -> AddDays(current, 7 * schedule.interval)
      [] schedule.freq = "monthly" ->
            LET advanced == AddMonths(current, schedule.interval)
            IN  ClampToMonthEnd(advanced.year, advanced.month, schedule.day)
      [] schedule.freq = "yearly" ->
            ClampToMonthEnd(current.year + schedule.interval, schedule.month, schedule.day)
      [] schedule.freq = "custom_days" -> AddDays(current, schedule.days)

===============================================================================
