-------------------------------- MODULE AuditEngine --------------------------------
(***************************************************************************)
(* How the lines of a bill are matched with the transactions of the card:  *)
(* scorePair, solveDiscrepancy and the report of packages/audit-engine,    *)
(* and the loop of runMatching in apps/api/src/audit-routes.ts, one action *)
(* per line.  What becomes of the candidates is AuditSession's.            *)
(*                                                                         *)
(* Scores are in 1/10000.  A name of a merchant is an id; which names are  *)
(* similar (60% of their trigrams or more) is a constant.                  *)
(***************************************************************************)
EXTENDS Integers, Sequences, FiniteSetsExt, Functions

CONSTANTS
    Alike,      \* sets of two merchants with similar names
    Statement,  \* bound: [items, rows, total], the bills and ledgers looked at
    Context,    \* bound: sets of facts a caller of scorePair may know
    MaxRows,    \* rows of the ledger that are looked at (500)
    MaxInputs,  \* candidates the solver takes (300)
    None

VARIABLES
    items,      \* lines of the bill
    rows,       \* transactions of the card around its period, by date
    total,      \* the total the bill states
    position,   \* lines that were looked at
    unused,     \* transactions that were not matched
    expected,   \* the sum of the matched transactions
    candidates, \* [item, row, kind, score, patch]
    report      \* the statistics of the session, None before they are made

engineVars == <<items, rows, total, position, unused, expected, candidates, report>>

Abs(n) == IF n < 0 THEN -n ELSE n

\* A set of positions in their order.
InOrder(S) == [n \in 1..Cardinality(S) |-> CHOOSE x \in S : Cardinality({y \in S : y <= x}) = n]

\* listAuditLedgerCandidates: deleted transactions are left out, whatever their status.
Listed(ledger) ==
    LET kept == {n \in DOMAIN ledger : ~ledger[n].deleted}
    IN  [n \in 1..Min({MaxRows, Cardinality(kept)}) |-> ledger[InOrder(kept)[n]]]

Init ==
    \E s \in Statement :
        /\ items = s.items /\ rows = Listed(s.rows) /\ total = s.total
        /\ position = 0 /\ unused = DOMAIN rows /\ expected = 0
        /\ candidates = {} /\ report = None

-------------------------------------------------------------------------------
(* scorePair                                                               *)

Weight ==
    [AMT_EXACT |-> 4500, AMT_SIGN_FLIPPED |-> 1800, AMT_TENFOLD |-> 1600,
     AMT_OFFSET_10 |-> 1400, AMT_OFFSET_100 |-> 1200, AMT_OFFSET_1000 |-> 1000,
     OTHER_CURRENCY |-> -3000, FX_RATE_WITHIN_TOL |-> 1800, FX_ROUNDING |-> 800,
     DATE_SAME |-> 2000, DATE_WITHIN_TOL |-> 1200, DATE_FAR |-> -1500,
     POSTING_LAG_TYPICAL |-> 800, MERCHANT_ALIAS |-> 2200,
     MERCHANT_NORMALIZED_EQ |-> 2000, MERCHANT_FUZZY |-> 1000,
     MERCHANT_MISMATCH |-> -1200, CARD_LAST4_MATCH |-> 2000,
     CARD_LAST4_MISMATCH |-> -4000, INSTALLMENT_SEQ_MATCH |-> 1500,
     INSTALLMENT_MISMATCH |-> -2500, REFUND_PAIR |-> 1200, DUPLICATE_SUSPECT |-> 500,
     USER_HISTORY_MATCH |-> 1000, BALANCES_STATEMENT |-> 800]

Times(n, a, b) == a # 0 /\ b # 0 /\ (Abs(a) = n * Abs(b) \/ Abs(b) = n * Abs(a))

AmountCode(a, b) ==
    IF a.currency # b.currency THEN {"OTHER_CURRENCY"}
    ELSE IF a.amount = b.amount THEN {"AMT_EXACT"}
    ELSE IF a.amount = -b.amount THEN {"AMT_SIGN_FLIPPED"}
    ELSE IF Times(10, a.amount, b.amount) THEN {"AMT_TENFOLD"}
    ELSE CASE Abs(a.amount - b.amount) = 10 -> {"AMT_OFFSET_10"}
           [] Abs(a.amount - b.amount) = 100 -> {"AMT_OFFSET_100"}
           [] Abs(a.amount - b.amount) = 1000 -> {"AMT_OFFSET_1000"}
           [] OTHER -> {}

\* The days both records tell, of the purchase or else of the posting.
Tell(a, b, day) == None \notin {a[day], b[day]}

DayCode(a, b, day) ==
    LET days == Abs(a[day] - b[day])
    IN  IF days = 0 THEN "DATE_SAME" ELSE IF days <= 5 THEN "DATE_WITHIN_TOL" ELSE "DATE_FAR"

DateCode(a, b, context) ==
    IF ~Tell(a, b, "occurred") /\ ~Tell(a, b, "posted") THEN {}
    ELSE {DayCode(a, b, IF Tell(a, b, "occurred") THEN "occurred" ELSE "posted")}
         \cup (context \cap {"POSTING_LAG_TYPICAL"})

MerchantCode(a, b, context) ==
    IF None \in {a.merchant, b.merchant} THEN {}
    ELSE IF "MERCHANT_ALIAS" \in context THEN {"MERCHANT_ALIAS"}
    ELSE IF a.merchant = b.merchant THEN {"MERCHANT_NORMALIZED_EQ"}
    ELSE IF {a.merchant, b.merchant} \in Alike THEN {"MERCHANT_FUZZY"}
    ELSE {"MERCHANT_MISMATCH"}

CardAndInstallmentCode(a, b) ==
    (IF None \in {a.last4, b.last4} THEN {}
     ELSE IF a.last4 = b.last4 THEN {"CARD_LAST4_MATCH"} ELSE {"CARD_LAST4_MISMATCH"})
    \cup (IF None \in {a.installment, b.installment} THEN {}
          ELSE IF a.installment = b.installment THEN {"INSTALLMENT_SEQ_MATCH"}
          ELSE {"INSTALLMENT_MISMATCH"})

ReasoningCodes(a, b, context) ==
    AmountCode(a, b)
    \cup DateCode(a, b, context) \cup MerchantCode(a, b, context)
    \cup CardAndInstallmentCode(a, b)
    \cup (IF (a.type = "refund" \/ a.amount < 0) /\ b.amount > 0 THEN {"REFUND_PAIR"} ELSE {})
    \cup (context \ {"POSTING_LAG_TYPICAL", "MERCHANT_ALIAS"})

Contradictions ==
    {"DATE_FAR", "MERCHANT_MISMATCH", "CARD_LAST4_MISMATCH", "INSTALLMENT_MISMATCH"}

\* What speaks for a pair and against it, within 0 and 1.
Sum(codes) == Max({0, Min({10000, SumFunctionOnSet(Weight, codes)})})

\* Mutant: the sum is cut at 1 only.
UncappedScore(a, b, context) == Sum(ReasoningCodes(a, b, context))

ScorePair(a, b, context) ==
    LET codes == ReasoningCodes(a, b, context)
    IN  IF codes \cap Contradictions # {} THEN Min({Sum(codes), 8999}) ELSE Sum(codes)

\* What is looked at: lists of lines and of transactions, with whole amounts.
ListOfRecords(list) ==
    /\ Len(list) \in Nat /\ DOMAIN list = 1..Len(list)
    /\ \A n \in DOMAIN list : list[n].amount \in Int

EngineAssumption ==
    /\ MaxRows \in Nat /\ MaxInputs \in Nat /\ None \notin Int
    /\ \A facts \in Context : facts \subseteq DOMAIN Weight
    /\ \A s \in Statement :
        ListOfRecords(s.items) /\ ListOfRecords(s.rows) /\ s.total \in Int

-------------------------------------------------------------------------------
(* solveDiscrepancy: hypotheses that explain the whole difference.  A      *)
(* candidate is [id, role, amount, ledger], ledger being what a matched    *)
(* transaction amounts to.                                                 *)

Hypothesis(kind, ids, delta) == [kind |-> kind, ids |-> ids, delta |-> delta]

SingleHypotheses(difference, inputs) ==
    {Hypothesis("single_missing", {c.id}, difference) : c \in
        {c \in inputs : \/ c.role = "statement_unmatched" /\ c.amount = difference
                        \/ c.role = "ledger_unmatched" /\ -c.amount = difference}}

\* The kind of a difference in the amount of a matched pair.
MatchedKind(c) ==
    IF c.amount = -c.ledger THEN "sign_flipped"
    ELSE IF Times(10, c.amount, c.ledger) THEN "tenfold_error"
    ELSE IF c.currency # c.ledgerCurrency \/ Times(100, c.amount, c.ledger)
              \/ Times(1000, c.amount, c.ledger) THEN "currency_or_decimal_error"
    ELSE "amount_mismatch"

CommonDeltas(c) ==
    CASE c.role \in {"payment_as_expense", "refund_unoffset"} -> {-Abs(c.amount)}
      [] c.role \in {"transfer_missing_side", "period_boundary"} ->
            {Abs(c.amount), -Abs(c.amount)}
      [] OTHER -> {}

CommonHypotheses(difference, inputs) ==
    {Hypothesis(MatchedKind(c), {c.id}, difference) : c \in
        {c \in inputs : c.role = "matched" /\ c.amount - c.ledger = difference}}
    \cup {Hypothesis(c.role, {c.id}, difference) : c \in
        {c \in inputs : difference \in CommonDeltas(c)}}

\* What a candidate that was not matched adds to the difference.
CombinationDelta(c) == IF c.role = "ledger_unmatched" THEN -c.amount ELSE c.amount
CombinationTerms(inputs) ==
    {n \in DOMAIN inputs : inputs[n].role \in {"statement_unmatched", "ledger_unmatched"}}

\* Each term with the ones before it.
TwoSum(difference, inputs) ==
    LET terms == CombinationTerms(inputs)
        delta(n) == CombinationDelta(inputs[n])
    IN  {Hypothesis("two_sum", {inputs[p[1]].id, inputs[p[2]].id}, difference) :
            p \in {p \in terms \X terms : p[1] < p[2] /\ delta(p[1]) + delta(p[2]) = difference}}

\* Two terms after the first one.
ThreeSumFrom(first, difference, inputs) ==
    LET terms == CombinationTerms(inputs)
        delta(n) == CombinationDelta(inputs[n])
    IN  {Hypothesis("three_sum", {inputs[p[1]].id, inputs[p[2]].id, inputs[p[3]].id}, difference) :
            p \in {p \in first \X terms \X terms :
                p[1] < p[2] /\ p[2] < p[3]
                /\ delta(p[1]) + delta(p[2]) + delta(p[3]) = difference}}

\* Mutant: the last first term is forgotten.
ThreeSumShort(difference, inputs) ==
    ThreeSumFrom({n \in CombinationTerms(inputs) : n < Cardinality(CombinationTerms(inputs)) - 2},
                 difference, inputs)

ThreeSum(difference, inputs) == ThreeSumFrom(CombinationTerms(inputs), difference, inputs)

\* The first kind of explanation there is; the search for three may be given up.
SolveDiscrepancy(difference, inputs, gaveUp) ==
    LET all == {inputs[n] : n \in DOMAIN inputs}
        single == SingleHypotheses(difference, all)
        common == CommonHypotheses(difference, all)
        pairs == TwoSum(difference, inputs)
    IN  CASE difference = 0 -> {}
          [] difference # 0 /\ single # {} -> single
          [] difference # 0 /\ single = {} /\ common # {} -> common
          [] difference # 0 /\ single = {} /\ common = {} /\ pairs # {} -> pairs
          [] OTHER -> IF gaveUp THEN {} ELSE ThreeSum(difference, inputs)

-------------------------------------------------------------------------------
(* runMatching                                                             *)

\* signedLedgerAmount.  Mutant: income is spent.
RefundsOnly(t) == IF t.type = "refund" THEN -Abs(t.amount) ELSE Abs(t.amount)
SignedLedgerAmount(t) ==
    IF t.type \in {"refund", "income"} THEN -Abs(t.amount) ELSE Abs(t.amount)

\* transactionRecord: the number of the card is not told.
TransactionRecord(t) ==
    [amount |-> SignedLedgerAmount(t), currency |-> t.currency, occurred |-> t.occurred,
     posted |-> t.posted, merchant |-> t.merchant, last4 |-> None,
     installment |-> t.installment, type |-> t.type]

StatementRecord(i) ==
    [amount |-> i.amount, currency |-> i.currency, occurred |-> i.occurred,
     posted |-> i.posted, merchant |-> i.merchant, last4 |-> i.last4,
     installment |-> i.installment,
     type |-> IF i.amount >= 0 THEN "purchase" ELSE IF i.reward THEN "income" ELSE "refund"]

Score(i, t) == ScorePair(StatementRecord(items[i]), TransactionRecord(rows[t]), {})

\* The best transaction for a line that is left; a reward is looked for among income.
\* The first one in the list, among the best.
Best(i) ==
    LET open == {t \in unused : items[i].reward => rows[t].type = "income"}
        best == {t \in open : \A u \in open : Score(i, u) <= Score(i, t)}
    IN  IF open = {} THEN None ELSE Min(best)

\* From 0.6 on a transaction is taken for a line's, from 0.9 on with confidence.
LikelyFrom == 6000
ConfidentFrom == 9000

\* What is proposed for a line without a transaction: to book it, unless it is money
\* back that may belong to a purchase.
MissingPatch(i) ==
    IF items[i].amount > 0 \/ items[i].reward THEN "create_transaction"
    ELSE "acknowledge_unresolved"

Candidate(i, t, kind, score, patch) ==
    [item |-> i, row |-> t, kind |-> kind, score |-> score, patch |-> patch]

\* A matched transaction is used up.  Mutant: it is not.
StillUnused(t) == unused
WithoutMatched(t) == unused \ {t}

\* One turn of the loop: the next line is matched, found to differ, or missing.
MatchLine ==
    LET i == position + 1
        t == Best(i)
        near == t # None /\ Score(i, t) >= LikelyFrom
    IN
    /\ report = None
    /\ position < Len(items)
    /\ position' = i
    /\ \/ /\ near /\ rows[t].amount = Abs(items[i].amount)
          /\ unused' = WithoutMatched(t)
          /\ expected' = expected + SignedLedgerAmount(rows[t])
          /\ candidates' = candidates
                \cup {Candidate(i, t, "match", Score(i, t), "assign_statement")}
       \/ /\ near /\ rows[t].amount # Abs(items[i].amount)
          /\ candidates' = candidates
                \cup {Candidate(i, t, "amount_mismatch", Score(i, t), "acknowledge_unresolved")}
          /\ UNCHANGED <<unused, expected>>
       \/ /\ ~near
          /\ candidates' = candidates
                \cup {Candidate(i, None, "missing_in_ledger", 0, MissingPatch(i))}
          /\ UNCHANGED <<unused, expected>>
    /\ UNCHANGED <<items, rows, total, report>>

\* Lines that are missing in the ledger, then transactions without a line.
Missing == {n \in DOMAIN items : \E c \in candidates : c.item = n /\ c.kind = "missing_in_ledger"}

LineInput(n) ==
    [id |-> <<"item", n>>, role |-> "statement_unmatched", amount |-> items[n].amount]
RowInput(t) ==
    [id |-> <<"row", t>>, role |-> "ledger_unmatched", amount |-> SignedLedgerAmount(rows[t])]

Inputs ==
    LET lines == Cardinality(Missing)
    IN  [n \in 1..Min({MaxInputs, lines + Cardinality(unused)}) |->
            IF n <= lines THEN LineInput(InOrder(Missing)[n])
            ELSE RowInput(InOrder(unused)[n - lines])]

\* After the loop: what was not used, the difference, its explanation, the report.
MakeReport ==
    LET difference == total - expected
        over == {Candidate(None, t, "missing_in_statement", 0, "acknowledge_unresolved")
                    : t \in unused}
        unresolved == IF difference # 0 /\ Inputs = <<>>
                      THEN {Candidate(None, None, "unresolved_difference", 0,
                                      "acknowledge_unresolved")}
                      ELSE {}
        all == candidates \cup over \cup unresolved
    IN
    /\ report = None
    /\ position = Len(items)
    /\ candidates' = all
    /\ \E gaveUp \in BOOLEAN :
          report' = [difference |-> difference,
                     high |-> Cardinality({c \in all : c.kind = "match" /\ c.score >= ConfidentFrom}),
                     low |-> Cardinality({c \in all : c.kind = "match"
                                            /\ ~(c.score >= ConfidentFrom) /\ c.score >= LikelyFrom}),
                     hypotheses |-> SolveDiscrepancy(difference, Inputs, gaveUp),
                     gaveUp |-> gaveUp,
                     balanced |-> difference = 0]
    /\ UNCHANGED <<items, rows, total, position, unused, expected>>

Next == MatchLine \/ MakeReport

Spec == Init /\ [][Next]_engineVars

-------------------------------------------------------------------------------
(* Properties                                                              *)

\* Nothing is forgotten or used twice: in the end every line of the bill has one
\* candidate; every transaction is matched with one line or listed as not on the bill,
\* never both, and a match has the amount of its line (runMatching).
EveryLineIsAnswered ==
    report # None =>
        /\ \A i \in DOMAIN items : Cardinality({c \in candidates : c.item = i}) = 1
        /\ \A t \in DOMAIN rows :
              Cardinality({c \in candidates :
                  c.row = t /\ c.kind \in {"match", "missing_in_statement"}}) = 1
        /\ report.high + report.low = Cardinality((DOMAIN rows) \ unused)

Amount(id) ==
    IF id[1] = "item" THEN items[id[2]].amount
    ELSE IF rows[id[2]].type \in {"refund", "income"} THEN Abs(rows[id[2]].amount)
    ELSE -Abs(rows[id[2]].amount)

\* The report adds up: the difference is what the lines without a match and the pairs
\* with opposite signs amount to, plus what the bill itself does not add up to; what
\* is proposed as an explanation explains all of it; and whenever one, two or three
\* of the things not matched do explain it, all the smallest explanations are found,
\* unless the search was given up (solveDiscrepancy, buildAuditReportStats).
DifferenceIsExplained ==
    report # None =>
        LET matched == {c \in candidates : c.kind = "match"}
            lines == (DOMAIN items) \ {c.item : c \in matched}
            free == {Inputs[n].id : n \in DOMAIN Inputs}
            explains(n) == {S \in kSubset(n, free) : SumFunction([id \in S |-> Amount(id)]) = report.difference}
            found == {h.ids : h \in report.hypotheses}
        IN  /\ report.difference =
                 total - SumFunction([i \in DOMAIN items |-> items[i].amount])
                 + SumFunction([i \in lines |-> items[i].amount])
                 + SumFunction([c \in matched |-> items[c.item].amount + Amount(<<"row", c.row>>)])
            /\ report.difference = 0 => found = {}
            /\ report.difference # 0 =>
                 \/ explains(1) # {} /\ found = explains(1)
                 \/ explains(1) = {} /\ explains(2) # {} /\ found = explains(2)
                 \/ explains(1) \cup explains(2) = {}
                    /\ found = IF report.gaveUp THEN {} ELSE explains(3)

\* A pair whose dates are far apart, or whose merchants or instalments are not
\* the same, is never shown as certain, however much else speaks for it: from 0.9 on a
\* match is ticked in advance (scorePair, AUDIT_ENGINE.md 3).
ContradictionIsNeverCertain ==
    \A i \in DOMAIN items, t \in DOMAIN rows, context \in Context :
        LET a == StatementRecord(items[i])
            b == TransactionRecord(rows[t])
        IN  \/ ScorePair(a, b, context) < 9000
            \/ /\ a.merchant = b.merchant \/ {a.merchant, b.merchant} \in Alike
                  \/ None \in {a.merchant, b.merchant} \/ "MERCHANT_ALIAS" \in context
               /\ None \notin {a.installment, b.installment} => a.installment = b.installment
               /\ None \notin {a.occurred, b.occurred} => Abs(a.occurred - b.occurred) <= 5
===============================================================================
