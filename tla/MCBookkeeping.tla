------------------------------- MODULE MCBookkeeping -------------------------------
(***************************************************************************)
(* A small instance of Bookkeeping: one row of every kind and a backup of  *)
(* a grouped card; a rule with three dates and two amounts; two cards over *)
(* seventy days; small bills and ledgers.  Two workers are the requests.   *)
(***************************************************************************)
EXTENDS Bookkeeping, Integers, Sequences, FiniteSetsExt, TLC

CONSTANTS
    w1, w2,                                      \* requests
    t1, t2,                                      \* transactions
    g, l, card, cash, settle, stock, inv, sec, equity,
    visa, jcb,
    m1, m2, m3

-------------------------------------------------------------------------------
(* Accounts: one row of every kind, some of them there from the start, and *)
(* a backup of a grouped card.                                             *)

OneSettlement == inv :> settle
OneAsset == inv :> stock
AtStart == {g, l, cash, equity, inv, settle, stock, sec}
Fresh == [live |-> TRUE, version |-> 1, group |-> None, limit |-> None, autopay |-> None,
          currency |-> "TWD"]
BackedUp ==
    g :> Fresh @@ l :> Fresh @@ equity :> Fresh @@ cash :> Fresh
    @@ card :> [Fresh EXCEPT !.group = g, !.limit = l, !.autopay = cash]
Pairs == {{cash, equity}, {settle, cash}, {card, equity}}

\* Cards and groups, or investments: what is changed of the one refers to nothing of
\* the other.
Touched(ids) == \E id \in ids : row[id] # None /\ (row[id].version > 1 \/ id = card)
OneSubject ==
    \/ ~Touched({g, l, card})
    \/ ~Touched({inv, settle, stock, sec}) /\ \A t \in Txn : booked[t] = None \/ booked[t].inv = None

(* Recurring: of the two terms one is the first, it makes no difference which. *)

FirstTerms == rule # None /\ rule.version = 1 => rule.terms = "a"

(* CardCycle: two cards with one setting, seventy days over the end of a   *)
(* year and of a February of 28 or 29 days, and of one that only looks     *)
(* like a leap year's; transactions around the ends of the periods.        *)

Day(y, m, d) == [year |-> y, month |-> m, day |-> d]
Monthly(first) ==
    [freq |-> "monthly", interval |-> 1, day |-> 31, month |-> 1, days |-> 1, first |-> first]
\* First dates that are on the rule's day, and that are not.
Schedules(y) ==
    UNION {{Monthly(d), [Monthly(d) EXCEPT !.freq = "yearly", !.day = 29, !.month = 2],
            [Monthly(d) EXCEPT !.freq = "weekly"],
            [Monthly(d) EXCEPT !.freq = "custom_days", !.days = 10]}
             : d \in {Day(y, 12, 31), Day(y + 1, 1, 5), Day(y + 1, 2, 28)}}
Settings == {[statementDay |-> s, dueDay |-> d] : s \in {1, 15, 28, 30, 31}, d \in {1, 15, 29, 31}}
Charge(c, type, status, amount, d) ==
    [card |-> c, type |-> type, status |-> status, amount |-> amount, date |-> d]
Books(y) ==
    {{Charge(visa, "expense", "posted", 5, Day(y, 2, 28)),
      Charge(visa, "expense", "pending", 3, Day(y, 3, 1)),
      Charge(jcb, "expense", "posted", 4, Day(y, 1, 31)),
      Charge(visa, "refund", "posted", 2, Day(y, 2, 1))},
     {Charge(visa, "expense", "posted", 5, Day(y, 1, 15)),
      Charge(visa, "card_payment", "posted", 2, Day(y, 2, 28)),
      Charge(visa, "expense", "cancelled", 7, Day(y, 2, 15)),
      Charge(jcb, "refund", "posted", 1, Day(y, 1, 30))}}
Scenarios ==
    UNION {{[start |-> Day(y - 1, 12, 26), setting |-> [c \in {visa, jcb} |-> s], book |-> b,
             rule |-> Monthly(Day(y - 1, 12, 31))] : s \in Settings, b \in Books(y)} : y \in {2024, 2100}}
    \cup UNION {{[start |-> Day(y, 12, 26), book |-> {}, rule |-> r,
                  setting |-> [c \in {visa, jcb} |-> [statementDay |-> 31, dueDay |-> 1]]]
                    : r \in Schedules(y)} : y \in {2024, 2027}}

(* AuditEngine: bills of up to three lines and ledgers of up to three rows *)
(* with equal, opposite, tenfold and unlike amounts, dates and names.      *)

Line(amount, m, day, reward) ==
    [amount |-> amount, merchant |-> m, occurred |-> day, posted |-> None, currency |-> "TWD",
     last4 |-> None, installment |-> None, reward |-> reward]
Entry(amount, type, m, day) ==
    [amount |-> amount, type |-> type, merchant |-> m, occurred |-> day, posted |-> None,
     currency |-> "TWD", installment |-> None, deleted |-> FALSE]
Lines ==
    {Line(100, m1, 1, FALSE), Line(-100, m1, 1, FALSE), Line(200, m2, 1, FALSE),
     Line(300, m3, 9, FALSE), Line(-50, m3, 1, TRUE),
     [Line(100, m2, None, FALSE) EXCEPT !.installment = <<1, 3>>, !.posted = 2]}
Rows ==
    {Entry(100, "expense", m1, 1), Entry(100, "refund", m1, 1), Entry(200, "expense", m3, 1),
     Entry(1000, "expense", m1, 1), Entry(50, "income", m3, 3),
     [Entry(100, "expense", m1, 1) EXCEPT !.deleted = TRUE],
     [Entry(100, "expense", m2, 2) EXCEPT !.installment = <<2, 3>>, !.posted = 2]}
UpTo(n, S) == UNION {[1..k -> S] : k \in 0..n}
Bill(lines, txns, more) ==
    [items |-> lines, rows |-> txns,
     total |-> MapThenSumSet(LAMBDA n : lines[n].amount, DOMAIN lines) + more]
Bills ==
    {Bill(i, r, 0) : i \in UpTo(2, Lines), r \in UpTo(2, Rows)}
    \cup {Bill(i, r, 0) : r \in UpTo(1, Rows),
             i \in [1..3 -> {Line(100, m1, 1, FALSE), Line(200, m2, 1, FALSE), Line(300, m3, 9, FALSE)}]}
    \cup {Bill(i, r, 100) : i \in UpTo(1, Lines), r \in [1..3 -> Rows \ {Entry(100, "refund", m1, 1)}]}
Facts ==
    {"FX_RATE_WITHIN_TOL", "FX_ROUNDING", "POSTING_LAG_TYPICAL", "DUPLICATE_SUSPECT",
     "USER_HISTORY_MATCH", "BALANCES_STATEMENT"}
Contexts == {{}, Facts, Facts \cup {"MERCHANT_ALIAS"}}

-------------------------------------------------------------------------------

Within ==
    /\ part = "accounts" => OneSubject
    /\ part = "recurring" => FirstTerms

Alike == Permutations(Worker) \cup Permutations(Txn)

===============================================================================
