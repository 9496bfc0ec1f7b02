--------------------------------- MODULE MCLedger ---------------------------------
(***************************************************************************)
(* Small instances of Ledger: one investment account whose trades may be   *)
(* booked in any order, and one transaction of any other type.             *)
(***************************************************************************)
EXTENDS Ledger, TLC

CONSTANTS w1, w2, t1, t2, t3, cash, stock, fund, card, food, gains, equity

Workers == Permutations(Worker)

Kinds == (cash :> "cash" @@ stock :> "investment_asset" @@ fund :> "investment_asset" @@ card :> "credit_card"
          @@ food :> "category_expense" @@ gains :> "category_income"
          @@ equity :> "opening_balance")
OneCurrency == [a \in Account |-> "TWD"]
SettledInCash == (stock :> cash @@ fund :> cash)

Plain == [type |-> "expense", amount |-> 2, currency |-> "TWD", from |-> None, to |-> None,
          cat |-> None, orig |-> None, day |-> 1, qty |-> 0, status |-> None, inv |-> None]
OfStock(type, qty, amount, day) ==
    [Plain EXCEPT !.type = type, !.qty = qty, !.amount = amount, !.day = day, !.inv = stock,
                  !.cat = IF type = "invest_sell" THEN gains ELSE None]

\* Bought, found in the portfolio, sold for a profit on either side of that in time;
\* and the card's expense, its refund, and a transaction of each other shape.
Payloads ==
    (t1 :> {OfStock("invest_buy", 2, 3, 1),
            [Plain EXCEPT !.from = card, !.cat = food]} @@
     t2 :> {OfStock("invest_sell", 1, 3, 0), OfStock("invest_sell", 2, 5, 2),
            [Plain EXCEPT !.type = "refund", !.to = card, !.cat = food, !.orig = t1],
            [Plain EXCEPT !.type = "income", !.to = cash, !.cat = gains],
            [Plain EXCEPT !.type = "transfer", !.to = card, !.from = cash],
            [Plain EXCEPT !.type = "card_payment", !.to = card, !.from = cash],
            [Plain EXCEPT !.type = "dividend", !.inv = stock, !.cat = gains],
            [Plain EXCEPT !.type = "fee", !.from = cash, !.cat = gains]} @@
     t3 :> {OfStock("adjustment", 1, 5, 0)})
Edits ==
    (t1 :> {[amount |-> 4], [to |-> fund], [from |-> cash], [status |-> "posted"],
            [status |-> "cancelled"]} @@
     t2 :> {[amount |-> 4], [to |-> stock], [note |-> 1]} @@
     t3 :> {[note |-> 1]})

\* Trades and other transactions do not meet: one book has the ones or the others, and
\* of the accounts that may be deleted the one its entries can have lines for.
Ended == {a \in Closing : a \notin open \/ \E w \in Worker : job[w].op = "close" /\ job[w].account = a}
OneKindOfBook ==
    \/ (\A t \in Txn : txn[t] # None => txn[t].qty > 0) /\ Ended \subseteq {equity}
    \/ (\A t \in Txn : txn[t] # None => txn[t].qty = 0) /\ Ended \subseteq {card}
===============================================================================
