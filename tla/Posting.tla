---------------------------------- MODULE Posting ----------------------------------
(***************************************************************************)
(* The pure rules of the ledger: which journal entry a transaction has     *)
(* (buildPosting in packages/domain/src/posting.ts), what a trade does to  *)
(* a holding (investments.ts), and which changes of status are allowed     *)
(* (transactions.ts).                                                      *)
(*                                                                         *)
(* An entry is a function from accounts to amounts: positive is a debit,   *)
(* and an account the entry has no line for has 0.                         *)
(***************************************************************************)
EXTENDS Integers, FiniteSetsExt, Functions

CONSTANTS
    Account,      \* ids of accounts: money, cards, categories, equity
    Kind,         \* the subtype of each account
    Currency,     \* the currency of each account
    None

Asset == {"cash", "bank", "digital", "e_wallet", "brokerage_settlement",
          "investment_asset", "other_asset"}
Subtype == Asset \cup {"credit_card", "other_liability", "category_income",
                       "category_expense", "opening_balance"}

ASSUME KindAssumption == Kind \in [Account -> Subtype]
ASSUME NoneAssumption == None \notin Account

Trade == {"invest_buy", "invest_sell", "adjustment"}
TxnType == Trade \cup {"expense", "fee", "tax", "income", "transfer", "card_payment",
                       "refund", "dividend"}
TxnStatus == {"draft", "expected", "pending", "posted", "cancelled", "disputed"}

AllowedTransitions ==
    [draft |-> {"pending", "cancelled"}, expected |-> {"pending", "cancelled"},
     pending |-> {"posted", "cancelled"}, posted |-> {"cancelled", "disputed"},
     cancelled |-> {}, disputed |-> {}]

Spendable == Asset \cup {"credit_card"}

Rule(debit, debitKinds, credit, creditKinds) ==
    [debit |-> debit, debitKinds |-> debitKinds, credit |-> credit, creditKinds |-> creditKinds]

\* The two lines of each type of transaction: which of its accounts is debited,
\* which one is credited, and of what kinds they must be.
PostingRule(type) ==
    CASE type \in {"expense", "fee", "tax"} -> Rule("cat", {"category_expense"}, "from", Spendable)
      [] type = "income" -> Rule("to", Spendable, "cat", {"category_income"})
      [] type = "transfer" -> Rule("to", Asset \cup {"other_liability"}, "from", Asset)
      [] type = "card_payment" -> Rule("to", {"credit_card"}, "from", Asset)
      [] type = "refund" -> Rule("to", Spendable, "cat", {"category_expense"})
      [] type = "invest_buy" -> Rule("to", {"investment_asset"}, "from", Asset)
      [] type = "invest_sell" -> Rule("to", Asset, "from", {"investment_asset"})
      [] type = "dividend" -> Rule("to", Asset, "cat", {"category_income"})
      [] type = "adjustment" -> Rule("to", Subtype, "from", Subtype)

\* An account in the role the rule gives it: known, not deleted, of the right
\* kind and currency (the opening balance account takes any currency).
Fits(account, kinds, currency, open) ==
    /\ account \in open
    /\ Kind[account] \in kinds
    /\ Kind[account] = "opening_balance" \/ Currency[account] = currency

At(account, amount) == [a \in Account |-> IF a = account THEN amount ELSE 0]
Plus(f, g) == [a \in Account |-> f[a] + g[a]]
Transfer(from, to, amount) == Plus(At(to, amount), At(from, -amount))

\* Mutant: the realised profit gets no line of its own.
UnbalancedSell(t, cost) == Plus(At(t.to, t.amount), At(t.from, -cost))

\* Selling takes the cost out of the investment account; what was earned or
\* lost goes to the category of realised gains.
SellLines(t, cost) ==
    IF t.amount = cost
    THEN Transfer(t.from, t.to, cost)
    ELSE Plus(Plus(At(t.to, t.amount), At(t.from, -cost)), At(t.cat, cost - t.amount))

\* Every check of buildPosting about t, the open accounts and the cost of a sale.
Postable(t, cost, open) ==
    LET rule == PostingRule(t.type) IN
    /\ t.amount > 0
    /\ Fits(t[rule.debit], rule.debitKinds, t.currency, open)
    /\ Fits(t[rule.credit], rule.creditKinds, t.currency, open)
    /\ t.type = "refund" => t.orig # None
    /\ t.type = "invest_sell" =>
        /\ cost > 0
        /\ t.amount # cost => Fits(t.cat, {"category_income"}, t.currency, open)

\* The entry of a postable transaction.
BuildPosting(t, cost) ==
    IF t.type = "invest_sell"
    THEN SellLines(t, cost)
    ELSE LET rule == PostingRule(t.type)
         IN Transfer(t[rule.credit], t[rule.debit], t.amount)

\* I-2 of posting.ts, which assertEntryInvariants checks of every entry.
Balanced(lines) == SumFunction(lines) = 0

-------------------------------------------------------------------------------

NoHolding == [qty |-> 0, cost |-> 0]

\* divideRound, for numbers that are not negative: half is rounded up.
DivideRound(n, d) == (2 * n + d) \div (2 * d)

ApplyBuy(h, qty, cost) == [qty |-> h.qty + qty, cost |-> h.cost + cost]

\* What qty shares of a holding cost on average, and the holding without them.
CostOf(h, qty) == DivideRound(h.cost * qty, h.qty)
ApplySell(h, qty) == [qty |-> h.qty - qty, cost |-> h.cost - CostOf(h, qty)]

===============================================================================
