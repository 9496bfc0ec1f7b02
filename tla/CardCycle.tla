--------------------------------- MODULE CardCycle ---------------------------------
(***************************************************************************)
(* Days pass over a user's credit cards and a recurring rule: what is in   *)
(* this period, what the last bill is, when it falls due, what is left of  *)
(* the limit, when a reminder is due, and on which day the rule is         *)
(* expected next.  Nothing of it is stored: the view is computed from the  *)
(* transactions and from today (cardCycleView).                            *)
(***************************************************************************)
EXTENDS Calendar, Functions

CONSTANTS
    Card,        \* the credit cards, which share a limit
    Limit,       \* the limit they share
    None,
    Scenario,    \* bound: [start, setting, book, rule] days are counted from
    Days         \* bound: the days that pass

VARIABLES
    today,
    passed,      \* bound: days since the start
    setting,     \* of each card: [statementDay, dueDay]
    book,        \* transactions: [card, type, status, amount, date]
    rule,        \* the schedule of a recurring rule, with the first date the user gave it
    expected,    \* the date its open expected transaction has
    view,        \* what is shown of each card today
    yesterday    \* history: the view of the day before and the reminders sent on it

cycleVars == <<today, passed, setting, book, rule, expected, view, yesterday>>

\* What parseCivilDate and the schemas let in: a day the calendar has, days of a month
\* for statements and payments, and schedules that move on.  Bound: the first date is
\* not past when the days begin.
CycleAssumption ==
    \A s \in Scenario :
        /\ s.start \in CivilDate
        /\ s.setting \in [Card -> [statementDay : 1..31, dueDay : 1..31]]
        /\ s.rule \in [freq : Schedule, interval : Nat \ {0}, day : 1..31, month : 1..12,
                       days : Nat \ {0}, first : CivilDate]
        /\ ~Before(s.rule.first, s.start)

Total(rows) == SumFunction([r \in rows |-> r.amount])

\* cardPeriodSums: what was spent and refunded on a card from one date to another;
\* what was cancelled does not count.
CardPeriodSums(c, from, to) ==
    LET in == {r \in book : r.card = c /\ ~Before(r.date, from) /\ ~Before(to, r.date)
                            /\ r.status \in {"pending", "posted"}}
    IN  [posted |-> Total({r \in in : r.type = "expense" /\ r.status = "posted"}),
         pending |-> Total({r \in in : r.type = "expense" /\ r.status = "pending"}),
         refunded |-> Total({r \in in : r.type = "refund"})]

\* The balance of a card, the other way round: journal entries are not removed when a
\* transaction is cancelled, so its status makes no difference (accountBalances).
Outstanding(c) ==
    Total({r \in book : r.card = c /\ r.type = "expense"})
    - Total({r \in book : r.card = c /\ r.type \in {"refund", "card_payment"}})

\* cardCycleView.  What is paid after the last statement counts for the last bill.
ViewOf(c, current, previous, now, last) ==
    LET paid == Total({r \in book : r.card = c /\ r.type = "card_payment"
                                    /\ Before(previous.statementDate, r.date)})
        total == last.posted + last.pending - last.refunded
    IN  [current |-> current, now |-> now,
         previous |-> previous, total |-> total, paid |-> paid,
         unpaid |-> IF total > paid THEN total - paid ELSE 0,
         available |-> Limit - SumFunction([card \in Card |-> Outstanding(card)])]

CardCycleView(c, current, previous) ==
    ViewOf(c, current, previous,
           CardPeriodSums(c, current.periodStart, current.statementDate),
           CardPeriodSums(c, previous.periodStart, previous.statementDate))

View(day) ==
    [c \in Card |->
        CardCycleView(c, ComputeCardCycle(setting[c].statementDay, setting[c].dueDay, day),
                      ComputePreviousCardCycle(setting[c].statementDay, setting[c].dueDay, day))]

\* The reminders of today, of detectCandidates: two days before a statement, and three
\* days and one day before something unpaid falls due.
DaysTo(date) == ToSerialDay(date) - ToSerialDay(today)

Upcoming(c) ==
    (IF DaysTo(view[c].current.statementDate) = 2
     THEN {<<"statement", view[c].current.statementDate>>} ELSE {})
    \cup (IF DaysTo(view[c].previous.dueDate) \in {1, 3} /\ view[c].unpaid > 0
          THEN {<<"due", view[c].previous.dueDate>>} ELSE {})

Init ==
    \E s \in Scenario :
        /\ today = s.start /\ passed = 0
        /\ setting = s.setting /\ book = s.book
        /\ rule = s.rule /\ expected = s.rule.first
        /\ view = View(today)
        /\ yesterday = None

\* A day passes.  What was expected on it is confirmed, and the rule moves on.
DayPasses ==
    /\ passed < Days
    /\ today' = AddDays(today, 1)
    /\ passed' = passed + 1
    /\ expected' = IF expected = today THEN NextExpectedDate(rule, expected) ELSE expected
    /\ view' = View(today')
    /\ yesterday' = [date |-> today, view |-> view, sent |-> [c \in Card |-> Upcoming(c)]]
    /\ UNCHANGED <<setting, book, rule>>

Next == DayPasses

Spec == Init /\ [][Next]_cycleVars

-------------------------------------------------------------------------------
(* Properties                                                              *)

\* The day after, counted on the fingers.
Tomorrow(d) ==
    LET last == CASE d.month \in {1, 3, 5, 7, 8, 10, 12} -> 31
                  [] d.month \in {4, 6, 9, 11} -> 30
                  [] d.month = 2 /\ d.year % 4 = 0 /\ (d.year % 100 = 0 => d.year % 400 = 0) -> 29
                  [] OTHER -> 28
    IN  IF d.day < last THEN [d EXCEPT !.day = d.day + 1]
        ELSE IF d.month < 12 THEN Date(d.year, d.month + 1, 1)
        ELSE Date(d.year + 1, 1, 1)

\* The serial arithmetic of dates.ts is the calendar: one day on is tomorrow, over the
\* ends of short months, leap days and years.
CalendarIsRight ==
    /\ yesterday # None => today = Tomorrow(yesterday.date)
    /\ FromSerialDay(ToSerialDay(today)) = today
    /\ AddDays(AddDays(today, 31), -31) = today

\* Billing periods tile the calendar: every day is in the period computed for it; from
\* one day to the next either nothing changes, or the period ended, the next begins
\* with the new day and the one that ended is the previous one (computeCardCycle and
\* computePreviousCardCycle, with statement days a month may not have).
PeriodsTile ==
    \A c \in Card :
        /\ ~Before(today, view[c].current.periodStart)
        /\ ~Before(view[c].current.statementDate, today)
        /\ yesterday # None =>
             LET was == yesterday.view[c] IN
             \/ view[c].current = was.current /\ view[c].previous = was.previous
             \/ /\ yesterday.date = was.current.statementDate
                /\ view[c].current.periodStart = today
                /\ view[c].previous = was.current

\* A bill is what its period showed on the last day, for each card, whatever was
\* booked around its ends; it falls due after its statement and no later than the
\* next one is made, so that at most one bill is to be paid.
BillIsWhatThePeriodShowed ==
    \A c \in Card :
        /\ Before(view[c].previous.statementDate, view[c].previous.dueDate)
        /\ ~Before(view[c].current.statementDate, view[c].previous.dueDate)
        /\ yesterday # None /\ view[c].previous # yesterday.view[c].previous =>
             LET showed == yesterday.view[c].now IN
             view[c].total = showed.posted + showed.pending - showed.refunded

\* What is unpaid on the day it falls due, and did not become a bill only the day
\* before, was reminded of on the day before.
UnpaidIsRemindedOf ==
    \A c \in Card :
        /\ yesterday # None
        /\ view[c].previous.dueDate = today
        /\ view[c].unpaid > 0
        /\ Before(view[c].previous.statementDate, yesterday.date)
        => <<"due", today>> \in yesterday.sent[c]

\* A rule keeps its day: from the second date on, whatever day the first one was, after
\* a short month or a February without a 29th the expected date is on the rule's day
\* again, and never before today.
RuleKeepsItsDay ==
    /\ ~Before(expected, today)
    /\ expected # rule.first =>
         /\ rule.freq \in {"monthly", "yearly"} =>
              \/ expected.day = rule.day
              \/ expected.day < rule.day /\ Tomorrow(expected).day = 1
         /\ rule.freq = "yearly" => expected.month = rule.month
===============================================================================
