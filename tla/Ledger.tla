---------------------------------- MODULE Ledger ----------------------------------
(***************************************************************************)
(* Transactions, their journal entries and the holdings of a user, as the  *)
(* handlers of packages/database/src/mutations.ts keep them: the rules of  *)
(* Posting, executed by several requests at once over one database at READ *)
(* COMMITTED.                                                              *)
(*                                                                         *)
(* A request is a worker that reads (Begin...), writes its own row, which  *)
(* is where it waits for others that write the same row, and computes the  *)
(* rest from what is committed then (Apply), and commits.  The idempotency *)
(* envelope around it is MutationService's.                                *)
(*                                                                         *)
(* Every investment account holds one security, so a holding is named by   *)
(* its account.                                                            *)
(***************************************************************************)
EXTENDS Posting

CONSTANTS
    Worker,       \* requests that may run at the same time
    Txn,          \* ids of transactions
    Payload,      \* what clients may ask to create, by id
    Edit,         \* what they may ask to change, by id: functions on some columns
    Closing,      \* the accounts they may ask to delete
    Settlement,   \* the cash account of each investment account
    Keep,         \* in place of an entry: the one that is there
    Equity,       \* the opening balance account
    Day,          \* when a transaction occurred
    MaxEdits      \* bound: edits and deletions, with the requests under way

Invest == DOMAIN Settlement
Financial == {"amount", "from", "to", "cat", "day"}

\* The shapes of a request to create a transaction and of the columns of one to change
\* it (zod schemas of packages/schemas/src/entities.ts).
Request == [type : TxnType, amount : Nat, currency : Range(Currency),
            from : Account \cup {None}, to : Account \cup {None}, cat : Account \cup {None},
            orig : Txn \cup {None}, day : Day, qty : Nat, status : TxnStatus \cup {None},
            inv : Invest \cup {None}]
Column == [amount |-> Nat, from |-> Account \cup {None}, to |-> Account \cup {None},
           cat |-> Account \cup {None}, day |-> Day, status |-> TxnStatus, note |-> {1}]

\* A transaction, a journal entry and a holding, as they are stored.
Amount == Nat
Row == [type : TxnType, status : TxnStatus, amount : Amount, currency : Range(Currency),
        from : Account \cup {None}, to : Account \cup {None}, cat : Account \cup {None},
        orig : Txn \cup {None}, qty : Nat, day : Day, version : Nat, live : BOOLEAN, born : Nat]
Lines == [Account -> Int]
Holding == [qty : Nat, cost : Nat]

ASSUME LedgerAssumption ==
    /\ IsFiniteSet(Txn) /\ None \notin Txn
    /\ IsFiniteSet(Account)
    /\ Invest \subseteq Account
    /\ \A a \in Invest : Settlement[a] \in Account \ Invest
    /\ \A a \in Account : Kind[a] = "investment_asset" <=> a \in Invest
    /\ Equity \in Account
    /\ Kind[Equity] = "opening_balance"
    /\ Day \subseteq Nat
    /\ MaxEdits \in Nat
ASSUME RequestAssumption ==
    /\ DOMAIN Payload \subseteq Txn /\ \A t \in DOMAIN Payload : Payload[t] \subseteq Request
    /\ DOMAIN Edit \subseteq Txn
    /\ \A t \in DOMAIN Edit : \A edit \in Edit[t] :
         DOMAIN edit \subseteq DOMAIN Column /\ \A f \in DOMAIN edit : edit[f] \in Column[f]
    /\ Closing \subseteq Account
ASSUME ValueAssumption ==
    /\ None \notin Row \cup Holding \cup Lines \cup Nat
    /\ Keep \notin Lines \cup {None}

VARIABLES
    txn,        \* transactions
    entry,      \* the live journal entry of each transaction
    holding,    \* holdings, by account: that of an investment account, or where an edit
                \* has taken an opening position
    open,       \* accounts that are not deleted
    job,        \* what each worker has read and computed
    overtaken,  \* history: rows written from a copy that was no longer theirs
    crossed,    \* history: accounts whose trades changed under a holding's writer,
                \* or that were deleted while an entry for them was written
    skewed      \* history: investment accounts whose replay is not what was booked:
                \* "backdated", "rewritten" or "moved" trades

vars == <<txn, entry, holding, open, job, overtaken, crossed, skewed>>

Idle == [op |-> "idle"]

Init ==
    /\ txn = [t \in Txn |-> None]
    /\ entry = [t \in Txn |-> None]
    /\ holding = [a \in Account |-> None]
    /\ open = Account
    /\ job = [w \in Worker |-> Idle]
    /\ overtaken = {}
    /\ crossed = {}
    /\ skewed = {}

Live(rows) == {t \in Txn : rows[t] # None /\ rows[t].live}

\* The account whose holding a trade is about; None for other transactions.
HoldingOf(row) ==
    IF row.qty = 0 THEN None
    ELSE IF row.type = "invest_sell" THEN row.from ELSE row.to

Trades(rows, a) ==
    {t \in Live(rows) : rows[t].qty # 0 /\ a \in {rows[t].from, rows[t].to}}

\* orderBy(occurredAt, createdAt)
InOrder(rows, s, t) ==
    \/ rows[s].day < rows[t].day
    \/ rows[s].day = rows[t].day /\ rows[s].born < rows[t].born

\* recomputeHolding: the holding after all live trades in order, what each sale
\* cost, and whether there was always enough to sell.
Replay(rows, a) ==
    LET Step(t, acc) ==
            IF rows[t].type # "invest_sell"
            THEN [acc EXCEPT !.held = ApplyBuy(@, rows[t].qty, rows[t].amount)]
            ELSE IF ~acc.ok \/ rows[t].qty > acc.held.qty
            THEN [acc EXCEPT !.ok = FALSE]
            ELSE [acc EXCEPT !.held = ApplySell(@, rows[t].qty),
                             !.costs = [@ EXCEPT ![t] = CostOf(acc.held, rows[t].qty)]]
        Last(trades) == CHOOSE t \in trades : \A u \in trades : ~InOrder(rows, t, u)
    IN MapThenFoldSet(Step, [held |-> NoHolding, costs |-> [t \in Txn |-> None], ok |-> TRUE],
                      LAMBDA t : t, Last, Trades(rows, a))

\* What a writer is about to do to a holding: the row and the trades it read
\* and the holding it will write.
NoChange == [of |-> None]
HoldingChange(rows, a, held) ==
    [of |-> a, was |-> holding[a], basis |-> [t \in Trades(rows, a) |-> rows[t]], next |-> held]

\* A transaction that is ready to commit.  lines = Keep leaves the entry alone.
Ready(t, seen, row, lines, change) ==
    [op |-> "commit", txn |-> t, seen |-> seen, row |-> row, lines |-> lines,
     change |-> change, opened |-> {}]

Set(w, j) == job' = [job EXCEPT ![w] = j]
history == <<overtaken, crossed, skewed>>
tables == <<txn, entry, holding, open>>

-------------------------------------------------------------------------------

\* createTransaction: the accounts of a trade are those of its investment account,
\* and an opening position is booked against the opening balance account.
Resolved(p) ==
    LET a == p.inv IN
    CASE a # None /\ p.type = "invest_buy" -> [p EXCEPT !.from = Settlement[a], !.to = a]
      [] a # None /\ p.type = "invest_sell" -> [p EXCEPT !.from = a, !.to = Settlement[a]]
      [] a # None /\ p.type = "dividend" -> [p EXCEPT !.to = Settlement[a]]
      [] a # None /\ p.type = "adjustment" -> [p EXCEPT !.from = Equity, !.to = a]
      [] OTHER -> p

NewRow(p) ==
    LET r == Resolved(p) IN
    [type |-> p.type, amount |-> p.amount, currency |-> p.currency, from |-> r.from, to |-> r.to,
     cat |-> p.cat, orig |-> p.orig, day |-> p.day,
     qty |-> IF p.inv # None /\ p.type \in Trade THEN p.qty ELSE 0,
     status |-> IF p.status # None THEN p.status
                ELSE IF r.from # None /\ Kind[r.from] = "credit_card" THEN "pending" ELSE "posted",
     version |-> 1, live |-> TRUE, born |-> 0]

\* The opening balance account is created again, or revived, when it is needed.
Opened(row) == IF row.type = "adjustment" /\ row.qty # 0 THEN {Equity} \ open ELSE {}

\* Mutant: one share more than there are.
OneShareTooMany(row, held) ==
    row.type = "invest_sell" => held.qty > 0 /\ row.qty <= held.qty + 1

EnoughToSell(row, held) == row.type = "invest_sell" => row.qty <= held.qty

BeginCreate(w, t, p) ==
    LET row  == NewRow(p)
        a    == HoldingOf(row)
        held == IF a = None \/ holding[a] = None THEN NoHolding ELSE holding[a]
        cost == IF a # None /\ row.type = "invest_sell" THEN CostOf(held, row.qty) ELSE row.amount
    IN /\ job[w] = Idle
       /\ txn[t] = None
       /\ a # None => EnoughToSell(row, held)
       /\ Postable(row, cost, open \cup Opened(row))
       /\ p.type = "refund" => p.orig \in Live(txn)
       /\ Set(w, [Ready(t, None, row, BuildPosting(row, cost),
                    IF a = None THEN NoChange
                    ELSE HoldingChange(txn, a, IF row.type = "invest_sell"
                                               THEN ApplySell(held, row.qty)
                                               ELSE ApplyBuy(held, row.qty, row.amount)))
                  EXCEPT !.opened = Opened(row)])
       /\ UNCHANGED <<tables, history>>

EditsMade ==
    MapThenSumSet(LAMBDA t : IF txn[t] = None THEN 0 ELSE txn[t].version - 1, Txn)
    + Cardinality({w \in Worker : job[w] # Idle /\ job[w].op # "close"})

StatusAllowed(row, edit) ==
    "status" \in DOMAIN edit /\ edit.status # row.status =>
        edit.status \in AllowedTransitions[row.status]

\* updateTransaction and deleteTransaction: the row is read and its version compared
\* with the client's, which is the current one here; anything else is a conflict.
BeginUpdate(w, t, edit) ==
    /\ job[w] = Idle
    /\ t \in Live(txn)
    /\ EditsMade < MaxEdits
    /\ StatusAllowed(txn[t], edit)
    /\ Set(w, [op |-> "update", txn |-> t, seen |-> txn[t], edit |-> edit])
    /\ UNCHANGED <<tables, history>>

BeginDelete(w, t) ==
    /\ job[w] = Idle
    /\ t \in Live(txn)
    /\ EditsMade < MaxEdits
    /\ Set(w, [op |-> "delete", txn |-> t, seen |-> txn[t]])
    /\ UNCHANGED <<tables, history>>

\* The row is locked by a request that has written it and not committed.
RowFree(w, t) == \A v \in Worker \ {w} : ~(job[v].op = "commit" /\ job[v].txn = t)

Patched(row, edit) ==
    [f \in DOMAIN row |-> IF f \in DOMAIN edit THEN edit[f] ELSE row[f]]

\* Mutant: the comparison forgets the amount.
OtherFinancials(old, new) == \E f \in Financial \ {"amount"} : old[f] # new[f]

FinancialChanged(old, new) == \E f \in Financial : old[f] # new[f]

\* Mutant: a sale costs what it brought.
CostAsBooked(replay, t, row) == row.amount

\* What a sale costs is what the replay says, not what was booked at first.
CostInReplay(replay, t, row) == IF replay.costs[t] # None THEN replay.costs[t] ELSE row.amount

\* The UPDATE sets every column but deleted_at from the copy that was read.  If a
\* financial column differs from that copy the holding is replayed and the entry is
\* rebuilt, with the cost the replay gives; a check that fails rolls all of it back.
ApplyUpdate(w) ==
    LET j    == job[w]
        row  == [Patched(j.seen, j.edit) EXCEPT !.version = j.seen.version + 1,
                                                !.live = txn[j.txn].live]
        rows == [txn EXCEPT ![j.txn] = row]
        a    == HoldingOf(row)
        replay == Replay(rows, a)
        cost == CostInReplay(replay, j.txn, row)
    IN /\ j.op = "update"
       /\ RowFree(w, j.txn)
       /\ \/ /\ ~FinancialChanged(j.seen, row)
             /\ Set(w, Ready(j.txn, j.seen, row, Keep, NoChange))
          \/ /\ FinancialChanged(j.seen, row)
             /\ a = None
             /\ Set(w, IF Postable(row, row.amount, open)
                       THEN Ready(j.txn, j.seen, row, BuildPosting(row, row.amount), NoChange)
                       ELSE Idle)
          \/ /\ FinancialChanged(j.seen, row)
             /\ a # None
             /\ Set(w, IF replay.ok /\ Postable(row, cost, open)
                       THEN Ready(j.txn, j.seen, row, BuildPosting(row, cost),
                                  HoldingChange(rows, a, replay.held))
                       ELSE Idle)
       /\ UNCHANGED <<tables, history>>

\* Mutant: the holding is left as it is (the phantom shares of the comment at
\* mutations.ts:1217).
DeletedRowOnly(w) ==
    /\ job[w].op = "delete"
    /\ Set(w, Ready(job[w].txn, job[w].seen,
              [txn[job[w].txn] EXCEPT !.live = FALSE, !.version = job[w].seen.version + 1],
              None, NoChange))
    /\ UNCHANGED <<tables, history>>

\* The deletion sets deleted_at and the version, removes the entry and replays.
ApplyDelete(w) ==
    LET j    == job[w]
        row  == [txn[j.txn] EXCEPT !.live = FALSE, !.version = j.seen.version + 1]
        rows == [txn EXCEPT ![j.txn] = row]
        a    == HoldingOf(j.seen)
        replay == Replay(rows, a)
    IN /\ j.op = "delete"
       /\ RowFree(w, j.txn)
       /\ \/ /\ a = None
             /\ Set(w, Ready(j.txn, j.seen, row, None, NoChange))
          \/ /\ a # None
             /\ Set(w, IF replay.ok
                       THEN Ready(j.txn, j.seen, row, None, HoldingChange(rows, a, replay.held))
                       ELSE Idle)
       /\ UNCHANGED <<tables, history>>

-------------------------------------------------------------------------------

\* Accounts an entry has lines for.
Touches(lines) == IF lines \in {None, Keep} THEN {} ELSE {a \in Account : lines[a] # 0}

\* The trades of an account as their rows are now, t aside.
Basis(a, t) == [s \in Trades(txn, a) \ {t} |-> txn[s]]

InvestOf(row) == Invest \cap {row.from, row.to}
Place(row) == <<InvestOf(row), HoldingOf(row)>>

\* What the entry of a sale takes out of the account it is from, beside what it may
\* bring there: the cost it was booked with.
BookedCost(row, lines) ==
    IF row.type = "invest_sell" THEN At(row.to, row.amount)[row.from] - lines[row.from] ELSE row.amount

\* Booked in an order that is not the order of occurrence; a replay that gives
\* another cost than a sale was booked with; a trade taken to another account, or made
\* one of another account, whose former holding is not replayed.
Skews(j) ==
    LET a == j.change.of
        replay == Replay([txn EXCEPT ![j.txn] = j.row], a)
    IN IF a = None THEN {}
       ELSE IF j.seen = None
       THEN {<<"backdated", a>> : s \in {s \in Trades(txn, a) : txn[s].day > j.row.day}}
       ELSE {<<"rewritten", a>> : s \in {s \in Trades(txn, a) \ {j.txn} :
                /\ txn[s].type = "invest_sell"
                /\ replay.costs[s] # BookedCost(txn[s], entry[s])}}
            \cup (IF Place(j.seen) = Place(j.row) THEN {}
                  ELSE {"moved"} \X (InvestOf(j.seen) \cup InvestOf(j.row)))

CommitTxn(w) ==
    LET j == job[w]
        c == j.change
        basis == [s \in DOMAIN c.basis \ {j.txn} |-> c.basis[s]]
    IN /\ j.op = "commit"
       /\ j.seen = None => txn[j.txn] = None
       /\ c.of # None /\ c.was = None => holding[c.of] = None
       /\ txn' = [txn EXCEPT ![j.txn] = [j.row EXCEPT !.born =
                    IF j.seen = None THEN Cardinality({t \in Txn : txn[t] # None}) ELSE @]]
       /\ entry' = [entry EXCEPT ![j.txn] = IF j.lines = Keep THEN @ ELSE j.lines]
       /\ holding' = IF c.of = None THEN holding ELSE [holding EXCEPT ![c.of] = c.next]
       /\ open' = open \cup j.opened
       /\ overtaken' = overtaken \cup (IF txn[j.txn] # j.seen THEN {j.txn} ELSE {})
       /\ crossed' = crossed \cup (Touches(j.lines) \ open')
            \cup (IF c.of # None /\ (c.was # holding[c.of] \/ basis # Basis(c.of, j.txn))
                  THEN {c.of} ELSE {})
       /\ skewed' = skewed \cup Skews(j)
       /\ Set(w, Idle)

\* Two requests insert the same primary key, or the first holding of an account: the
\* second insert fails; and any request may lose its database connection.
Abort(w) ==
    /\ job[w] # Idle
    /\ Set(w, Idle)
    /\ UNCHANGED <<tables, history>>

\* deleteAccount: refused for the two accounts of an investment account and for an
\* account a live entry has a line for.
Paired == Invest \cup Range(Settlement)
Used(a) == \E t \in Txn : a \in Touches(entry[t])

Deletable(a) == a \in open \ Paired /\ ~Used(a)

BeginDeleteAccount(w, a) ==
    /\ job[w] = Idle
    /\ Deletable(a)
    /\ Set(w, [op |-> "close", account |-> a, used |-> Used(a)])
    /\ UNCHANGED <<tables, history>>

CommitDeleteAccount(w) ==
    LET a == job[w].account IN
    /\ job[w].op = "close"
    /\ open' = open \ {a}
    /\ crossed' = crossed \cup (IF Used(a) /\ ~job[w].used THEN {a} ELSE {})
    /\ Set(w, Idle)
    /\ UNCHANGED <<txn, entry, holding, overtaken, skewed>>

(***************************************************************************)
(* What the home page makes of it (queries.ts), for a book in one currency *)
(* without quotes, in which a holding is worth what it cost.               *)
(***************************************************************************)

\* accountBalances sums the lines of all live entries, whatever the status of their
\* transactions (a cancelled one counts, and so does a draft).
Balance(a) == SumFunction([t \in {t \in Txn : entry[t] # None} |-> entry[t][a]])

\* Mutant: an investment account counts, and its holding once more.
AnyAsset(a) == Kind[a] \in Asset

\* netWorthSummary: the balances of the accounts that are not deleted, where the
\* holdings stand in for the investment accounts.
CountsAsCash(a) == Kind[a] \in Asset \ {"investment_asset"}
CountsAsDebt(a) == Kind[a] \in {"credit_card", "other_liability"}
Valuation(a) == IF holding[a] = None THEN 0 ELSE holding[a].cost
NetWorth ==
    SumFunction([a \in {a \in open : CountsAsCash(a) \/ CountsAsDebt(a)} |-> Balance(a)])
    + SumFunction([a \in Account |-> Valuation(a)])

-------------------------------------------------------------------------------

Work(w) ==
    \/ \E t \in DOMAIN Payload : \E p \in Payload[t] : BeginCreate(w, t, p)
    \/ \E t \in DOMAIN Edit : \E edit \in Edit[t] : BeginUpdate(w, t, edit)
    \/ \E t \in Txn : BeginDelete(w, t)
    \/ ApplyUpdate(w)
    \/ ApplyDelete(w)
    \/ CommitTxn(w)
    \/ Abort(w)
    \/ \E a \in Closing : BeginDeleteAccount(w, a)
    \/ CommitDeleteAccount(w)

Next == \E w \in Worker : Work(w)

Spec == Init /\ [][Next]_vars

-------------------------------------------------------------------------------
(***************************************************************************)
(* Correctness.  Outside the histories the properties hold without         *)
(* exception; what the histories record is what the code allows.           *)
(***************************************************************************)

TypeOK ==
    /\ txn \in [Txn -> Row \cup {None}]
    /\ entry \in [Txn -> Lines \cup {None}]
    /\ holding \in [Account -> Holding \cup {None}]
    /\ open \subseteq Account
    /\ DOMAIN job = Worker
    /\ \A w \in Worker : job[w].op \in {"idle", "update", "delete", "commit", "close"}
    /\ overtaken \subseteq Txn
    /\ crossed \subseteq Account
    /\ skewed \subseteq {"backdated", "rewritten", "moved"} \X Account

\* Every entry balances (I-2), also one built from stale copies or from the cost of
\* a replay, and no holding is ever oversold.
EntriesBalance == \A t \in Txn : entry[t] # None => Balanced(entry[t])

\* The entry of a transaction is the one its columns call for, and a deleted
\* transaction has none, so the balances that are summed over the entries
\* (accountBalances) are those of the transactions on the screen.  A row that was
\* written from an old copy is excepted: its entry is the other writer's.  What a sale
\* cost is not one of its columns: it is the cost the entry was booked with.
Books(row, lines) == lines = BuildPosting(row, BookedCost(row, lines))
EntryMatchesRow ==
    \A t \in Txn \ overtaken :
        IF t \in Live(txn) THEN Books(txn[t], entry[t]) ELSE entry[t] = None

\* The comment in updateTransaction, without an exception: when a financial column
\* changes, the entry is made anew - so that a row and its entry never disagree.
EntryIsRegenerated ==
    \A t \in Live(txn) : entry[t] # None /\ Books(txn[t], entry[t])

\* The holding of an account that nobody's trade has crossed.
Undisturbed(a) == a \notin crossed /\ \A t \in overtaken : a # HoldingOf(txn[t])
Held(a) == IF holding[a] = None THEN NoHolding ELSE holding[a]

\* A holding has the shares its live trades brought and did not sell, whatever was
\* edited, deleted or booked late: no phantom shares that can be sold once more.  And
\* it is the replay of its live trades, which never sells what is not there, as long as
\* trades are booked in the order in which they occurred.
Shares(a) ==
    SumFunction([t \in Trades(txn, a) |->
                   IF txn[t].type = "invest_sell" THEN -txn[t].qty ELSE txn[t].qty])
HoldingIsReplay ==
    \A a \in Invest : Undisturbed(a) /\ <<"moved", a>> \notin skewed =>
        /\ Held(a).qty = Shares(a)
        /\ <<"backdated", a>> \notin skewed =>
            LET replay == Replay(txn, a) IN replay.ok /\ replay.held = Held(a)

\* INVESTMENT_MODEL 3, whatever runs side by side: a trade that is booked changes what is
\* held.
NoTradeIsLost ==
    \A a \in Invest : <<"moved", a>> \notin skewed => Held(a).qty = Shares(a)

\* The investment account carries the cost of the holding (DATA_MODEL.md:281), as
\* long as no edit changes what an earlier sale cost, and nothing else is booked on it:
\* buildPosting takes it for any asset, so that other transactions and the proceeds of
\* its sales can be booked there too.
OnlyItsTrades(a) ==
    \A t \in Txn : entry[t] # None =>
        /\ entry[t][a] # 0 => a = HoldingOf(txn[t])
        /\ a = HoldingOf(txn[t]) => txn[t].from # txn[t].to
AsBooked(a) ==
    /\ Undisturbed(a)
    /\ skewed \cap {<<"moved", a>>, <<"rewritten", a>>} = {}
    /\ OnlyItsTrades(a)
LedgerCost(a) ==
    SumFunction([t \in Trades(txn, a) |-> entry[t][a]])
CostIsOnTheLedger ==
    \A a \in Invest : AsBooked(a) => LedgerCost(a) = Held(a).cost

\* DATA_MODEL says of the account without exception that it carries the cost: also when
\* an edit changes what an earlier sale cost.
AssetAccountCarriesCost ==
    \A a \in Invest : Undisturbed(a) /\ OnlyItsTrades(a) /\ <<"moved", a>> \notin skewed =>
        LedgerCost(a) = Held(a).cost

\* What the home page shows as net worth is what was earned, spent and brought in:
\* nothing is counted twice between holdings and investment accounts, and no account
\* is deleted with a balance on it.
NetWorthIsEarned ==
    (\A a \in Account : a \notin crossed) /\ (\A a \in Invest : AsBooked(a)) =>
        NetWorth = -SumFunction([a \in {a \in Account : Kind[a] \notin Asset /\ ~CountsAsDebt(a)}
                                  |-> Balance(a)])

\* Both together: a holding is worth to the net worth what its entries have put into
\* the investment account, and everything else is counted once.
InvestmentsAddUp == CostIsOnTheLedger /\ NetWorthIsEarned

===============================================================================
