-------------------------------- MODULE Bookkeeping --------------------------------
(***************************************************************************)
(* What surrounds the entries of the ledger: the accounts and other        *)
(* records they are booked on (Accounts), recurring rules (Recurring),     *)
(* billing periods (CardCycle) and the matching of bills (AuditEngine).    *)
(* They share no state here: a behaviour is one of one of them, `part'     *)
(* says which, and the variables of the others are None.                   *)
(***************************************************************************)
CONSTANTS
    None,
    Worker,                                                   \* requests
    Group, Limit, Account, Card, Inv, Settlement, Asset, Security, Equity, Txn,
        Currency, Home, Existing, Backup, Entries, MaxRequests,   \* as in Accounts
    LastDate, Terms, Settlements, MaxCalls,                   \* as in Recurring
    Billed, CreditLimit, Scenario, Days,                      \* as in CardCycle
    Similar, Statement, Context, MaxRows, MaxInputs           \* as in AuditEngine

VARIABLES
    part,
    row, booked, quoted, feed, restored, job, asked, crossed,
    rule, expected, ruleTold, told, call, calls, payments, unpaid, raced,
    today, passed, setting, book, schedule, next, view, yesterday,
    items, rows, total, position, unused, matched, candidates, report

accounts == <<row, booked, quoted, feed, restored, job, asked, crossed>>
recurring == <<rule, expected, ruleTold, told, call, calls, payments, unpaid, raced>>
cards == <<today, passed, setting, book, schedule, next, view, yesterday>>
engine == <<items, rows, total, position, unused, matched, candidates, report>>

vars == <<part, accounts, recurring, cards, engine>>

A == INSTANCE Accounts
U == INSTANCE Recurring WITH MaxRequests <- MaxCalls, job <- call, asked <- calls
C == INSTANCE CardCycle WITH
    Card <- Billed, Limit <- CreditLimit, rule <- schedule, expected <- next
E == INSTANCE AuditEngine WITH Alike <- Similar, expected <- matched

ASSUME BookAssumption ==
    A!AccountsAssumption /\ U!RecurringAssumption /\ C!CycleAssumption /\ E!EngineAssumption

-------------------------------------------------------------------------------
(* One of them.                                                            *)

\* The variables of a part that is not there.
NoAccounts ==
    /\ row = None /\ booked = None /\ quoted = None /\ feed = None /\ restored = None
    /\ job = None /\ asked = None /\ crossed = None
NoRecurring ==
    /\ rule = None /\ expected = None /\ ruleTold = None /\ told = None /\ call = None
    /\ calls = None /\ payments = None /\ unpaid = None /\ raced = None
NoCards ==
    /\ today = None /\ passed = None /\ setting = None /\ book = None
    /\ schedule = None /\ next = None /\ view = None /\ yesterday = None
NoEngine ==
    /\ items = None /\ rows = None /\ total = None /\ position = None /\ unused = None
    /\ matched = None /\ candidates = None /\ report = None

BookInit ==
    \/ part = "accounts" /\ A!Init /\ NoRecurring /\ NoCards /\ NoEngine
    \/ part = "recurring" /\ U!Init /\ NoAccounts /\ NoCards /\ NoEngine
    \/ part = "cards" /\ C!Init /\ NoAccounts /\ NoRecurring /\ NoEngine
    \/ part = "engine" /\ E!Init /\ NoAccounts /\ NoRecurring /\ NoCards

BookNext ==
    \/ part = "accounts" /\ A!Next /\ UNCHANGED <<part, recurring, cards, engine>>
    \/ part = "recurring" /\ U!Next /\ UNCHANGED <<part, accounts, cards, engine>>
    \/ part = "cards" /\ C!Next /\ UNCHANGED <<part, accounts, recurring, engine>>
    \/ part = "engine" /\ E!Next /\ UNCHANGED <<part, accounts, recurring, cards>>

BookSpec == BookInit /\ [][BookNext]_vars

-------------------------------------------------------------------------------
(* Properties: those of the modules, each about the part it belongs to.    *)

\* The state of the records and of the rules is of its type: the foreign keys hold
\* across a restore, and a rule has one row of a date.
TypeOK ==
    /\ part = "accounts" => A!TypeOK
    /\ part = "recurring" => U!TypeOK

\* What is in use refers to what is in use, in its currency, whatever was registered,
\* changed, deleted and restored side by side (mutations.ts; Accounts.NothingDangles
\* and ValuesAreInOneCurrency).
RecordsHold == part = "accounts" => A!NothingDangles /\ A!ValuesAreInOneCurrency

\* An account with entries is not deleted, without the exception that RecordsHold makes
\* (deleteAccount; Accounts.UsedAccountsAreKept).
UsedAccountsAreKept == part = "accounts" => A!UsedAccountsAreKept

\* Every row a request changes, its own or another, is in the change feed with the
\* version it has (recordChange; Accounts.EveryChangeIsReported and
\* Recurring.DerivedRowsAreReported).
ChangesAreReported ==
    /\ part = "accounts" => A!EveryChangeIsReported
    /\ part = "recurring" => U!DerivedRowsAreReported

\* The open expected transaction follows its rule, and a transaction that was booked for
\* one settles it, or it is known why not (mutations.ts and the three places that
\* confirm; Recurring.OpenRowFollowsRule and EveryPaymentIsAccounted).
RulesAreFollowed == part = "recurring" => U!OpenRowFollowsRule /\ U!EveryPaymentIsAccounted

\* Billing periods tile the calendar, a bill is what its period showed, what is unpaid
\* is reminded of, and a rule keeps its day (dates.ts, statements.ts, recurring.ts,
\* queries.ts; the properties of CardCycle).
PeriodsAndBills ==
    part = "cards" =>
        /\ C!CalendarIsRight /\ C!PeriodsTile
        /\ C!BillIsWhatThePeriodShowed /\ C!UnpaidIsRemindedOf /\ C!RuleKeepsItsDay

\* Every line of a bill is answered, the report's difference adds up and is explained,
\* and what contradicts itself is never certain (matching.ts, discrepancy.ts,
\* audit-routes.ts; the properties of AuditEngine).
BillsAreExplained ==
    part = "engine" =>
        E!EveryLineIsAnswered /\ E!DifferenceIsExplained /\ E!ContradictionIsNeverCertain

\* No step moves an expected transaction that is settled, or takes a rule's next date
\* back without an update of the rule (Recurring.SettledStays and NextDateMovesOn).
SettledStays ==
    [][part = "recurring" => U!SettledIsLeft /\ U!NextDateMoves]_vars

===============================================================================
