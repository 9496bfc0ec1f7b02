--------------------------------- MODULE Recurring ---------------------------------
(***************************************************************************)
(* One recurring rule and the expected transactions the server derives     *)
(* from it: the handlers of packages/database/src/mutations.ts, and the    *)
(* three places that confirm an expected transaction - the recurring page, *)
(* the entry page, the Discord command - by two requests, the transaction  *)
(* first and the confirmation after it.                                    *)
(*                                                                         *)
(* An update of the rule writes the rule, then its open row; a             *)
(* confirmation writes the row, then the rule.  Each takes the first row's *)
(* lock when it writes it, reads the other row then, and needs its lock to *)
(* commit.  Two that wait for each other are ended by PostgreSQL (Fail).   *)
(***************************************************************************)
EXTENDS Integers, FiniteSetsExt

CONSTANTS
    Worker,       \* requests that may run at the same time
    LastDate,     \* bound: the dates 1 .. LastDate, one period apart
    Terms,        \* amounts and accounts of the rule
    Settlements,  \* the statuses clients send: confirmed and skipped
    None,
    MaxRequests   \* bound: requests the clients make

Date == 1..LastDate
Slot == 1..LastDate   \* ids of rows: no two have one date
TheRule == 0          \* the rule, where its rows are numbers

\* The rows of recurring_rules and expected_transactions, and the form an update sends.
Status == {"scheduled", "matched", "confirmed", "missed", "skipped"}
Form == [active : BOOLEAN, next : Date, terms : Terms]
Rule == [live : BOOLEAN, active : BOOLEAN, next : Date, terms : Terms, version : Nat]
Row == [date : Date, terms : Terms, status : Status, live : BOOLEAN, version : Nat,
        paid : Nat \cup {None}]

\* What the parameters have to satisfy.
RecurringAssumption ==
    /\ LastDate \in Nat \ {0}
    /\ MaxRequests \in Nat
    /\ Settlements \subseteq {"matched", "confirmed", "missed", "skipped"}
    /\ None \notin Nat \cup Rule \cup Row

VARIABLES
    rule,        \* the row of recurring_rules, or None
    expected,    \* the rows of expected_transactions, or None
    ruleTold,    \* the rule's version in change_log
    told,        \* the rows' versions in change_log
    job,         \* what each request has read
    asked,       \* how many requests there were
    payments,    \* transactions booked for an expected one: [row, by]
    unpaid,      \* history: payments whose confirmation came to nothing, [by, known]:
                 \* whether the user was told
    raced        \* history: rows, and 0 for the rule, that changed between a request's
                 \* reading and its writing them

vars == <<rule, expected, ruleTold, told, job, asked, payments, unpaid, raced>>

Idle == [op |-> "idle", phase |-> "read"]

Init ==
    /\ rule = None
    /\ expected = [s \in Slot |-> None]
    /\ ruleTold = 0
    /\ told = [s \in Slot |-> 0]
    /\ job = [w \in Worker |-> Idle]
    /\ asked = 0
    /\ payments = {}
    /\ unpaid = {}
    /\ raced = {}

RuleIsLive == rule # None /\ rule.live
IsLive(s) == expected[s] # None /\ expected[s].live

\* Mutant: the rows that are settled follow too.
IsOpenOrSettled(s) == IsLive(s)

IsOpen(s) == IsLive(s) /\ expected[s].status = "scheduled"

\* What the pages and the bot offer to confirm (listOpenExpected).
Offered(s) == IsLive(s) /\ expected[s].status \in {"scheduled", "matched", "missed"}

\* Mutant: what was confirmed by mistake may be skipped after all.
TransitionsWithUndo == [scheduled |-> {"matched", "confirmed", "missed", "skipped"},
                        matched   |-> {"confirmed"},
                        missed    |-> {"confirmed", "skipped"},
                        confirmed |-> {"skipped"},
                        skipped   |-> {}]

Transitions == [scheduled |-> {"matched", "confirmed", "missed", "skipped"},
                matched   |-> {"confirmed"},
                missed    |-> {"confirmed", "skipped"},
                confirmed |-> {},
                skipped   |-> {}]

Following(d) == d + 1

\* The row that a request has written first and not committed is locked.
Locked(what, w) == \E v \in Worker \ {w} : job[v].phase = "wrote" /\ job[v].locks = what

Set(w, j) == job' = [job EXCEPT ![w] = j]
Start(w) == job[w] = Idle /\ asked < MaxRequests /\ asked' = asked + 1
tables == <<rule, expected, ruleTold, told, payments, unpaid, raced>>

Occupied(rows, d) == {s \in Slot : rows[s] # None /\ rows[s].date = d}

\* materializeExpected has nothing to do when a row of the date is there, whatever
\* became of it ...
AlreadyThere(rows, d) == \E s \in Occupied(rows, d) : rows[s].live

\* ... and fails on the unique index when the row is deleted.
Insertable(rows, d) == AlreadyThere(rows, d) \/ Occupied(rows, d) = {}

Materialized(rows, d, terms) ==
    IF AlreadyThere(rows, d) THEN rows
    ELSE [rows EXCEPT ![Min({s \in Slot : rows[s] = None})] =
            [date |-> d, terms |-> terms, status |-> "scheduled", live |-> TRUE,
             version |-> 1, paid |-> None]]

\* Mutant: rows that follow the rule are not reported.
ReportNone(rows) == told

\* recordChange, for every row a request has written or inserted.
Report(rows) == [s \in Slot |-> IF rows[s] = expected[s] THEN told[s] ELSE rows[s].version]

-------------------------------------------------------------------------------

\* createRecurringRule, with the checks of its account, category and investment left
\* to Accounts.
Create(w, active, d, terms) ==
    LET rows == Materialized(expected, d, terms) IN
    /\ rule = None
    /\ Start(w)
    /\ rule' = [live |-> TRUE, active |-> active, next |-> d, terms |-> terms, version |-> 1]
    /\ ruleTold' = 1
    /\ expected' = IF active THEN rows ELSE expected
    /\ told' = IF active THEN Report(rows) ELSE told
    /\ UNCHANGED <<job, payments, unpaid, raced>>

\* updateRecurringRule: the pages send the whole form, so what is not changed is
\* written as it was read.
BeginUpdate(w, cols) ==
    /\ Start(w)
    /\ RuleIsLive
    /\ Set(w, [op |-> "update", phase |-> "read", seen |-> rule, cols |-> cols,
               locks |-> None, open |-> None, openVersion |-> 0])
    /\ UNCHANGED tables

BeginDelete(w) ==
    /\ Start(w)
    /\ RuleIsLive
    /\ Set(w, [op |-> "delete", phase |-> "read", seen |-> rule,
               locks |-> None, open |-> None, openVersion |-> 0])
    /\ UNCHANGED tables

\* updateExpectedTransaction, to skip a row.
BeginSkip(w, s) ==
    /\ Start(w)
    /\ "skipped" \in Settlements
    /\ IsLive(s)
    /\ expected[s].date < LastDate
    /\ "skipped" \in Transitions[expected[s].status]
    /\ Set(w, [op |-> "settle", phase |-> "read", row |-> s, seen |-> expected[s],
               status |-> "skipped", payment |-> None, locks |-> None, rule |-> None])
    /\ UNCHANGED tables

\* To confirm one, the page has loaded it some time ago ...
Load(w, s) ==
    /\ Start(w)
    /\ Offered(s)
    /\ expected[s].date < LastDate
    /\ Set(w, [op |-> "pay", phase |-> "read", row |-> s, base |-> expected[s].version,
               payment |-> asked'])
    /\ UNCHANGED tables

\* ... and books a transaction first, which nobody compares with the row.
Book(w) ==
    LET j == job[w] IN
    /\ j.op = "pay"
    /\ \A p \in payments : p.by # j.payment
    /\ payments' = payments \cup {[row |-> j.row, by |-> j.payment]}
    /\ UNCHANGED <<rule, expected, ruleTold, told, job, asked, unpaid, raced>>

\* The payment is left without its confirmation.
GivenUp(j, known) == unpaid \cup {[by |-> j.payment, known |-> known]}

\* checkVersion and assertExpectedTransition.
Settleable(j) ==
    /\ IsLive(j.row)
    /\ expected[j.row].version = j.base
    /\ "confirmed" \in Transitions[expected[j.row].status]

\* Then it confirms the row, in the version it has loaded.
BeginConfirm(w) ==
    LET j == job[w] IN
    /\ j.op = "pay"
    /\ \E p \in payments : p.by = j.payment
    /\ IF Settleable(j)
       THEN /\ Set(w, [op |-> "settle", phase |-> "read", row |-> j.row,
                       seen |-> expected[j.row], status |-> "confirmed", payment |-> j.payment,
                       locks |-> None, rule |-> None])
            /\ UNCHANGED unpaid
       ELSE Set(w, Idle) /\ unpaid' = GivenUp(j, TRUE)
    /\ UNCHANGED <<rule, expected, ruleTold, told, asked, payments, raced>>

\* The request to confirm does not get through, or the transaction's answer is lost: the
\* page shows an error, and the bot answers with one.
ConfirmFails(w) ==
    /\ job[w].op = "pay"
    /\ Set(w, Idle)
    /\ unpaid' = GivenUp(job[w], TRUE)
    /\ UNCHANGED <<rule, expected, ruleTold, told, asked, payments, raced>>

\* The page is closed, or the bot ends, between the two requests: nobody confirms, and
\* nobody says so.
Vanish(w) ==
    /\ job[w].op = "pay"
    /\ Set(w, Idle)
    /\ unpaid' = GivenUp(job[w], FALSE)
    /\ UNCHANGED <<rule, expected, ruleTold, told, asked, payments, raced>>

-------------------------------------------------------------------------------

\* The rule is written; then one open row of it is looked up.
WriteRule(w) ==
    /\ job[w].op \in {"update", "delete"}
    /\ job[w].phase = "read"
    /\ ~Locked(TheRule, w)
    /\ \E s \in Slot \cup {None} :
        /\ IF \E r \in Slot : IsOpen(r) THEN s # None /\ IsOpen(s) ELSE s = None
        /\ Set(w, [job[w] EXCEPT !.phase = "wrote", !.locks = TheRule, !.open = s,
                       !.openVersion = IF s = None THEN 0 ELSE expected[s].version])
    /\ UNCHANGED <<tables, asked>>

\* Mutant: the open row stays as it is.
LeaveOpen(j, new) == expected

\* The open row follows the rule: to its date and terms, or out of the way of a rule
\* that is switched off.
Follow(j, new) ==
    IF j.open = None
    THEN IF new.active THEN Materialized(expected, new.next, new.terms) ELSE expected
    ELSE LET version == j.openVersion + 1 IN
         [expected EXCEPT ![j.open] =
            IF new.active THEN [@ EXCEPT !.date = new.next, !.terms = new.terms, !.version = version]
            ELSE [@ EXCEPT !.status = "skipped", !.version = version]]

\* Mutant: no index.
NeverCollides(j, new) == FALSE

RacedRule(j) == IF rule = j.seen THEN {} ELSE {TheRule}

\* The unique index on rule and date: the request fails, and so does every retry.
Collides(j, new) ==
    /\ new.active
    /\ IF j.open = None THEN ~Insertable(expected, new.next)
       ELSE Occupied(expected, new.next) \ {j.open} # {}

CommitUpdate(w) ==
    LET j == job[w]
        new == [live |-> rule.live, active |-> j.cols.active, next |-> j.cols.next,
                terms |-> j.cols.terms, version |-> j.seen.version + 1]
    IN /\ j.op = "update"
       /\ j.phase = "wrote"
       /\ j.open # None => ~Locked(j.open, w)
       /\ Set(w, Idle)
       /\ IF Collides(j, new)
          THEN UNCHANGED <<rule, expected, ruleTold, told>>
          ELSE /\ rule' = new
               /\ ruleTold' = new.version
               /\ expected' = Follow(j, new)
               /\ told' = Report(Follow(j, new))
       /\ raced' = raced \cup RacedRule(j)
       /\ UNCHANGED <<asked, payments, unpaid>>

\* deleteRecurringRule: all open rows go with it.
CommitDelete(w) ==
    LET j == job[w]
        rows == [s \in Slot |-> IF IsOpen(s)
                                THEN [expected[s] EXCEPT !.live = FALSE, !.version = @ + 1]
                                ELSE expected[s]]
    IN /\ j.op = "delete"
       /\ j.phase = "wrote"
       /\ \A s \in Slot : IsOpen(s) => ~Locked(s, w)
       /\ rule' = [rule EXCEPT !.live = FALSE, !.active = FALSE, !.version = j.seen.version + 1]
       /\ ruleTold' = j.seen.version + 1
       /\ expected' = rows
       /\ told' = Report(rows)
       /\ Set(w, Idle)
       /\ raced' = raced \cup RacedRule(j)
       /\ UNCHANGED <<asked, payments, unpaid>>

\* The expected transaction is written; then its rule is looked up.
WriteRow(w) ==
    LET j == job[w] IN
    /\ j.op = "settle"
    /\ j.phase = "read"
    /\ ~Locked(j.row, w)
    /\ Set(w, [j EXCEPT !.phase = "wrote", !.locks = j.row,
                        !.rule = IF RuleIsLive THEN rule ELSE None])
    /\ UNCHANGED <<tables, asked>>

\* Mutant: the transaction is not entered.
MatchedBefore(j) == j.seen.paid

\* matchedTransactionId, which a request that does not name one leaves alone.
Matched(j) == IF j.payment = None THEN j.seen.paid ELSE j.payment

\* The date after the row's own.
NextDate(j) == Following(j.seen.date)

\* A confirmed or skipped row advances a rule that was active, and the next row is
\* derived.
CommitSettle(w) ==
    LET j == job[w]
        advances == j.status \in {"confirmed", "skipped"} /\ j.rule # None /\ j.rule.active
        rows == [expected EXCEPT ![j.row].status = j.status,
                                 ![j.row].paid = Matched(j),
                                 ![j.row].version = j.seen.version + 1]
        rows2 == IF advances THEN Materialized(rows, NextDate(j), j.rule.terms) ELSE rows
    IN /\ j.op = "settle"
       /\ j.phase = "wrote"
       /\ advances => ~Locked(TheRule, w) /\ Insertable(rows, NextDate(j)) /\ NextDate(j) \in Date
       /\ expected' = rows2
       /\ told' = Report(rows2)
       /\ IF advances
          THEN /\ rule' = [rule EXCEPT !.next = NextDate(j), !.version = j.rule.version + 1]
               /\ ruleTold' = j.rule.version + 1
          ELSE UNCHANGED <<rule, ruleTold>>
       /\ raced' = raced \cup (IF expected[j.row] = j.seen THEN {} ELSE {j.row})
                        \cup (IF advances /\ rule # j.rule THEN {TheRule} ELSE {})
       /\ Set(w, Idle)
       /\ UNCHANGED <<asked, payments, unpaid>>

\* A deadlock, a unique index, a lost connection: nothing of it remains, and the page
\* that is told may be gone.
Fail(w) ==
    /\ job[w].op \in {"update", "delete", "settle"}
    /\ Set(w, Idle)
    /\ IF job[w].op = "settle" /\ job[w].payment # None
       THEN \E known \in BOOLEAN : unpaid' = GivenUp(job[w], known)
       ELSE UNCHANGED unpaid
    /\ UNCHANGED <<rule, expected, ruleTold, told, asked, payments, raced>>

Next ==
    \E w \in Worker :
        \/ \E active \in BOOLEAN, d \in Date, t \in Terms :
            \/ Create(w, active, d, t)
            \/ BeginUpdate(w, [active |-> active, next |-> d, terms |-> t])
        \/ BeginDelete(w)
        \/ \E s \in Slot : BeginSkip(w, s) \/ Load(w, s)
        \/ Book(w) \/ BeginConfirm(w) \/ ConfirmFails(w) \/ Vanish(w)
        \/ WriteRule(w) \/ CommitUpdate(w) \/ CommitDelete(w)
        \/ WriteRow(w) \/ CommitSettle(w)
        \/ Fail(w)

Spec == Init /\ [][Next]_vars
-------------------------------------------------------------------------------

\* What a request has read and decided.
Job ==
    LET Phase == {"read", "wrote"} IN
    {Idle}
    \cup [op : {"update"}, phase : Phase, seen : Rule, cols : Form, locks : {TheRule, None},
          open : Slot \cup {None}, openVersion : Nat]
    \cup [op : {"delete"}, phase : Phase, seen : Rule, locks : {TheRule, None},
          open : Slot \cup {None}, openVersion : Nat]
    \cup [op : {"settle"}, phase : Phase, row : Slot, seen : Row,
          status : {"confirmed", "skipped"}, payment : Nat \cup {None},
          locks : Slot \cup {None}, rule : Rule \cup {None}]
    \cup [op : {"pay"}, phase : {"read"}, row : Slot, base : Nat, payment : Nat]

\* The rows have the columns of their tables, and no two rows of the rule are of one
\* date, deleted ones included.
TypeOK ==
    /\ rule \in Rule \cup {None}
    /\ expected \in [Slot -> Row \cup {None}]
    /\ \A r, s \in Slot : r # s /\ expected[r] # None /\ expected[s] # None =>
            expected[r].date # expected[s].date
    /\ ruleTold \in Nat
    /\ told \in [Slot -> Nat]
    /\ job \in [Worker -> Job]
    /\ asked \in 0..MaxRequests
    /\ \A p \in payments : p.row \in Slot /\ p.by \in 1..MaxRequests
    /\ unpaid \subseteq [by : 1..MaxRequests, known : BOOLEAN]
    /\ raced \subseteq 0..LastDate

\* The open row follows the rule (the comment in updateRecurringRule): there is at most
\* one, of the rule's date and terms, and none of a rule that is off or deleted.
OpenRowFollowsRule ==
    raced = {} => \A s \in Slot : IsOpen(s) =>
        /\ RuleIsLive /\ rule.active
        /\ expected[s].date = rule.next
        /\ expected[s].terms = rule.terms

\* A transaction booked for an expected one is the one it is settled with, or its
\* request is under way, or the user was told that the confirmation failed.  The
\* exceptions are a row that two requests write side by side, and a page or a bot that
\* ends between booking and confirming: the row stays open, and nobody was told.
EveryPaymentIsAccounted ==
    \A p \in payments :
        \/ expected[p.row].paid = p.by
        \/ \E e \in unpaid : e.by = p.by
        \/ \E w \in Worker : job[w].op \in {"pay", "settle"} /\ job[w].payment = p.by
        \/ p.row \in raced

\* USER_FLOWS F5 has the confirmation turn an expected row into a transaction: what is
\* booked settles its row, unless the user was told that it did not.
NoPaymentIsForgotten ==
    \A p \in payments :
        \/ expected[p.row].paid = p.by
        \/ \E e \in unpaid : e.by = p.by /\ e.known
        \/ \E w \in Worker : job[w].op \in {"pay", "settle"} /\ job[w].payment = p.by
        \/ p.row \in raced

\* What is settled stays so, with its date and its transaction: also an update of the
\* rule that has read the row open cannot move it any more.  The exceptions are a row that
\* two requests settle side by side, and what may follow from that: a rule with two open
\* rows, of which an update that switches the rule off takes one along; the other one can
\* be settled without waiting for the rule, under an update that has read it open.
SettledIsLeft ==
    \A s \in Slot : expected[s] # None /\ expected[s].status \in {"confirmed", "skipped"} =>
        expected'[s] = expected[s] \/ s \in raced' \/ raced # {}

SettledStays == [][SettledIsLeft]_vars

\* Every version of the rule and of the rows it derives is in the change feed.
DerivedRowsAreReported ==
    /\ rule # None => ruleTold = rule.version
    /\ \A s \in Slot : expected[s] # None => told[s] = expected[s].version

\* Only an update of the rule takes its next date back.
NextDateMoves ==
    (rule # None /\ rule'.next < rule.next) =>
        \/ raced' # {}
        \/ \E w \in Worker : job[w].op = "update" /\ job'[w] = Idle

NextDateMovesOn == [][NextDateMoves]_vars

===============================================================================
