------------------------------- MODULE LedgerProofs -------------------------------
(***************************************************************************)
(* Proofs about Ledger, for any accounts, transactions and requests: every *)
(* entry balances, and it is the one its transaction calls for.            *)
(***************************************************************************)
EXTENDS Ledger, FiniteFacts

-------------------------------------------------------------------------------
(* Entries: sums over accounts                                             *)

USE DEF Lines

\* A line on one account adds up to its amount.
LEMMA SumAt ==
    ASSUME NEW a \in Account, NEW x \in Int
    PROVE  At(a, x) \in Lines /\ SumFunction(At(a, x)) = x
<1> DEFINE f == At(a, x)
<1>1. f \in Lines /\ f[a] = x /\ \A b \in Account \ {a} : f[b] = 0
  BY DEF At
<1>2. IsFiniteSet(Account)
  BY LedgerAssumption
<1> HIDE DEF f
<1>3. SumFunctionOnSet(f, Account) = f[a] + SumFunctionOnSet(f, Account \ {a})
  BY <1>1, <1>2, SumWithout
<1>4. SumFunctionOnSet(f, Account \ {a}) = 0
  BY <1>1, <1>2, SumOfZeros
<1>5. SumFunction(f) = SumFunctionOnSet(f, Account)
  BY <1>1 DEF SumFunction
<1> QED
  BY <1>1, <1>3, <1>4, <1>5 DEF f

\* Two entries in one add up to both.
LEMMA SumPlus ==
    ASSUME NEW f \in Lines, NEW g \in Lines
    PROVE  /\ Plus(f, g) \in Lines
           /\ SumFunction(Plus(f, g)) = SumFunction(f) + SumFunction(g)
           /\ SumFunction(f) \in Int
<1> DEFINE h == Plus(f, g)
<1>1. h \in Lines /\ \A a \in Account : h[a] = f[a] + g[a]
  BY DEF Plus
<1>2. IsFiniteSet(Account) /\ DOMAIN f = Account /\ DOMAIN g = Account /\ DOMAIN h = Account
  BY <1>1, LedgerAssumption
<1> HIDE DEF h
<1>3. SumFunctionOnSet(h, Account) = SumFunctionOnSet(f, Account) + SumFunctionOnSet(g, Account)
  BY <1>1, <1>2, SumOfBoth
<1>4. SumFunctionOnSet(f, Account) \in Int
  BY <1>2, SumRecursion
<1> QED
  BY <1>1, <1>2, <1>3, <1>4 DEF SumFunction, h

\* An amount that moves from one account to another leaves nothing over.
LEMMA TransferBalances ==
    ASSUME NEW from \in Account, NEW to \in Account, NEW x \in Int
    PROVE  /\ Transfer(from, to, x) \in Lines
           /\ Balanced(Transfer(from, to, x))
           /\ Transfer(from, to, x)[from] = At(to, x)[from] - x
<1>1. -x \in Int
  OBVIOUS
<1>2. /\ At(to, x) \in Lines /\ SumFunction(At(to, x)) = x
      /\ At(from, -x) \in Lines /\ SumFunction(At(from, -x)) = -x
  BY <1>1, SumAt
<1>3. /\ Transfer(from, to, x) \in Lines
      /\ SumFunction(Transfer(from, to, x)) = SumFunction(At(to, x)) + SumFunction(At(from, -x))
  BY <1>2, SumPlus DEF Transfer
<1>4. x + (-x) = 0
  OBVIOUS
<1>5. Transfer(from, to, x)[from] = At(to, x)[from] - x
  BY <1>2 DEF Transfer, Plus, At
<1> QED
  BY <1>2, <1>3, <1>4, <1>5 DEF Balanced

\* Neither does a sale: what it brought beyond its cost was earned.
LEMMA SaleBalances ==
    ASSUME NEW t, t.from \in Account, t.to \in Account, t.amount \in Int, NEW cost \in Int,
           t.amount # cost => t.cat \in Account \ {t.from}
    PROVE  /\ SellLines(t, cost) \in Lines
           /\ Balanced(SellLines(t, cost))
           /\ At(t.to, t.amount)[t.from] - SellLines(t, cost)[t.from] = cost
<1> DEFINE m == t.amount
           a == t.from
           b == t.to
           c == t.cat
<1>1. a \in Account /\ b \in Account /\ m \in Int
  OBVIOUS
<1> HIDE DEF a, b, c, m
<1>2. CASE m = cost
  <2>1. SellLines(t, cost) = Transfer(a, b, cost)
    BY <1>2 DEF SellLines, a, b, m
  <2>2. At(b, m)[a] \in Int
    BY <1>1, SumAt
  <2>3. /\ Transfer(a, b, cost) \in Lines /\ Balanced(Transfer(a, b, cost))
        /\ Transfer(a, b, cost)[a] = At(b, cost)[a] - cost
    BY <1>1, TransferBalances
  <2>4. At(b, m)[a] - Transfer(a, b, cost)[a] = cost
    BY <1>2, <2>2, <2>3
  <2> QED
    BY <2>1, <2>3, <2>4 DEF a, b, m
<1>3. CASE m # cost
  <2> DEFINE gain == cost - m
             f == At(b, m)
             g == At(a, -cost)
             h == At(c, gain)
  <2>1. c \in Account /\ c # a
    BY <1>3 DEF c, a, m
  <2>2. gain \in Int /\ -cost \in Int
    BY <1>1
  <2>3. SellLines(t, cost) = Plus(Plus(f, g), h)
    BY <1>3 DEF SellLines, a, b, c, m
  <2>4. /\ f \in Lines /\ SumFunction(f) = m
        /\ g \in Lines /\ SumFunction(g) = -cost
        /\ h \in Lines /\ SumFunction(h) = gain
    BY <1>1, <2>1, <2>2, SumAt
  <2>5. g[a] = -cost /\ h[a] = 0
    BY <1>1, <2>1 DEF At
  <2>6. m + -cost + gain = 0
    BY <1>1
  <2> HIDE DEF f, g, h, gain
  <2>7. Plus(f, g) \in Lines /\ SumFunction(Plus(f, g)) = m + -cost
    BY <2>4, SumPlus
  <2>8. Plus(Plus(f, g), h) \in Lines /\ SumFunction(Plus(Plus(f, g), h)) = 0
    BY <2>4, <2>6, <2>7, SumPlus
  <2>9. Plus(Plus(f, g), h)[a] = f[a] + g[a] + h[a] /\ f[a] \in Int
    BY <1>1, <2>4 DEF Plus
  <2>10. f[a] - Plus(Plus(f, g), h)[a] = cost
    BY <2>2, <2>5, <2>9
  <2> QED
    BY <2>3, <2>8, <2>10 DEF Balanced, f, a, b, m
<1> QED
  BY <1>2, <1>3

\* A postable transaction has an entry, which balances, and which shows what was sold
\* at which cost.
LEMMA PostingSound ==
    ASSUME NEW row \in Row, NEW cost \in Int, NEW S \in SUBSET Account, Postable(row, cost, S)
    PROVE  /\ BuildPosting(row, cost) \in Lines
           /\ Balanced(BuildPosting(row, cost))
           /\ Books(row, BuildPosting(row, cost))
           /\ row.type = "invest_sell" => BookedCost(row, BuildPosting(row, cost)) = cost
<1> DEFINE rule == PostingRule(row.type)
           x == row[rule.credit]
           y == row[rule.debit]
<1>1. row.type \in TxnType /\ row.amount \in Int
  BY DEF Row, Amount
<1>2. x \in Account /\ y \in Account
  BY DEF Postable, Fits
<1>3. CASE row.type # "invest_sell"
  <2>1. \A z : BuildPosting(row, z) = Transfer(x, y, row.amount)
    BY <1>3 DEF BuildPosting
  <2> HIDE DEF x, y
  <2>2. /\ Transfer(x, y, row.amount) \in Lines
        /\ Balanced(Transfer(x, y, row.amount))
    BY <1>1, <1>2, TransferBalances
  <2> QED
    BY <1>3, <2>1, <2>2 DEF Books
<1>4. CASE row.type = "invest_sell"
  <2>1. rule = Rule("to", Asset, "from", {"investment_asset"})
    BY <1>4 DEF PostingRule
  <2>2. x = row.from /\ y = row.to /\ Kind[row.from] = "investment_asset"
    <3>1. rule.credit = "from" /\ rule.debit = "to" /\ rule.creditKinds = {"investment_asset"}
      BY <2>1 DEF Rule
    <3> QED
      BY <3>1 DEF Postable, Fits
  <2>3. row.amount # cost => row.cat \in Account \ {row.from}
    BY <1>4, <2>2 DEF Postable, Fits
  <2>4. \A z : BuildPosting(row, z) = SellLines(row, z)
    BY <1>4 DEF BuildPosting
  <2> DEFINE lines == SellLines(row, cost)
  <2>5. /\ lines \in Lines /\ Balanced(lines)
        /\ At(row.to, row.amount)[row.from] - lines[row.from] = cost
    BY <1>1, <1>2, <2>2, <2>3, SaleBalances
  <2> HIDE DEF lines
  <2>6. BookedCost(row, lines) = cost
    BY <1>4, <2>5 DEF BookedCost
  <2> QED
    BY <2>4, <2>5, <2>6 DEF Books, lines
<1> QED
  BY <1>3, <1>4

\* What q of the n shares of a holding cost is not more than all of them did.
LEMMA CostBound ==
    ASSUME NEW h \in Holding, NEW q \in Nat, q <= h.qty, h.qty > 0
    PROVE  CostOf(h, q) \in Nat /\ CostOf(h, q) <= h.cost
<1> DEFINE c == h.cost
           n == h.qty
           num == 2 * (c * q) + n
           d == 2 * n
           k == num \div d
<1>1. c \in Nat /\ n \in Nat /\ n > 0 /\ q <= n
  BY DEF Holding
<1> HIDE DEF c, n
<1>2. c * q \in Nat /\ c * n \in Nat /\ c * q <= c * n
  <2>1. c * n = c * q + c * (n - q) /\ n - q \in Nat
    BY <1>1
  <2>2. c * q \in Nat /\ c * (n - q) \in Nat
    BY <1>1, <2>1
  <2> QED
    BY <2>1, <2>2
<1>3. num \in Nat /\ d \in Nat /\ d > 0 /\ num < d * (c + 1)
  <2>1. d * (c + 1) = 2 * (c * n) + 2 * n
    BY <1>1
  <2> QED
    BY <1>1, <1>2, <2>1
<1> HIDE DEF num, d
<1>4. k \in Nat /\ d * k <= num
  BY <1>3
<1> HIDE DEF k
<1>5. k < c + 1
  <2>1. SUFFICES ASSUME c + 1 <= k PROVE FALSE
    BY <1>1, <1>4
  <2>2. d * (c + 1) <= d * k
    BY <1>1, <1>3, <1>4, <2>1
  <2> QED
    BY <1>1, <1>3, <1>4, <2>2
<1>6. CostOf(h, q) = k
  BY DEF CostOf, DivideRound, k, num, d, c, n
<1> QED
  BY <1>1, <1>4, <1>5, <1>6 DEF c

-------------------------------------------------------------------------------
(* Holdings: trades and their replay                                       *)

\* recomputeHolding adds up what it can: whatever the rows, a holding and costs that are
\* no less than nothing.
Replayed == [held : Holding, costs : [Txn -> Nat \cup {None}], ok : BOOLEAN]

Rows == [Txn -> Row \cup {None}]

LatestIn(rows, trades) == CHOOSE t \in trades : \A u \in trades : ~InOrder(rows, t, u)

\* The last of some trades is one of them, and none is later.
LEMMA LatestExists ==
    ASSUME NEW rows \in Rows, NEW s \in SUBSET Live(rows), s # {}
    PROVE  /\ LatestIn(rows, s) \in s
           /\ \A u \in s : ~InOrder(rows, LatestIn(rows, s), u)
<1>1. \A t \in s : t \in Txn /\ rows[t] \in Row
  BY DEF Rows, Live
<1>2. IsFiniteSet(s)
  BY FS_Subset, LedgerAssumption DEF Live
<1> DEFINE day == [t \in s |-> rows[t].day]
           born == [t \in s |-> rows[t].born]
<1>3. day \in [s -> Int] /\ born \in [s -> Int]
  <2>1. Day \subseteq Nat
    BY LedgerAssumption
  <2>2. ASSUME NEW t \in s PROVE rows[t].day \in Int /\ rows[t].born \in Int
    <3>1. rows[t] \in Row
      BY <1>1
    <3>2. rows[t].day \in Day /\ rows[t].born \in Nat
      BY <3>1 DEF Row
    <3>3. rows[t].day \in Nat
      BY <2>1, <3>2, Zenon
    <3> QED
      BY <3>2, <3>3
  <2> QED
    BY <2>2
<1>4. \A t \in s : day[t] = rows[t].day /\ born[t] = rows[t].born
  OBVIOUS
<1> HIDE DEF day, born
<1>5. PICK d \in s : \A u \in s : day[u] <= day[d]
  BY <1>2, <1>3, Greatest
<1> DEFINE r == {t \in s : day[t] = day[d]}
           bornR == [t \in r |-> born[t]]
<1>6. PICK t \in r : \A u \in r : born[u] <= born[t]
  <2>1. r # {} /\ IsFiniteSet(r) /\ bornR \in [r -> Int] /\ \A u \in r : bornR[u] = born[u]
    BY <1>2, <1>3, FS_Subset
  <2> HIDE DEF r, bornR
  <2>2. PICK t \in r : \A u \in r : bornR[u] <= bornR[t]
    BY <2>1, Greatest
  <2> QED
    BY <2>1, <2>2
<1>7. ASSUME NEW u \in s, InOrder(rows, t, u) PROVE FALSE
  <2>1. day[u] \in Int /\ day[t] \in Int /\ born[u] \in Int /\ born[t] \in Int
    BY <1>3
  <2>2. day[u] <= day[t]
    BY <1>5
  <2>3. day[u] = day[t] /\ born[t] < born[u]
    BY <1>4, <1>7, <2>1, <2>2 DEF InOrder
  <2> QED
    BY <1>6, <2>1, <2>3
<1> QED
  BY <1>7 DEF LatestIn

\* One trade of a replay.
ReplayStep(rows, t, acc) ==
    IF rows[t].type # "invest_sell"
    THEN [acc EXCEPT !.held = ApplyBuy(@, rows[t].qty, rows[t].amount)]
    ELSE IF ~acc.ok \/ rows[t].qty > acc.held.qty
    THEN [acc EXCEPT !.ok = FALSE]
    ELSE [acc EXCEPT !.held = ApplySell(@, rows[t].qty),
                     !.costs = [@ EXCEPT ![t] = CostOf(acc.held, rows[t].qty)]]

\* No trade takes more out of a holding than is in it, nor more than it cost.
LEMMA ReplayStepSound ==
    ASSUME NEW rows \in Rows, NEW t \in Live(rows), rows[t].qty # 0, NEW acc \in Replayed
    PROVE  ReplayStep(rows, t, acc) \in Replayed
<1> DEFINE q == rows[t].qty
           m == rows[t].amount
           h == acc.held
<1>1. q \in Nat /\ q > 0 /\ m \in Nat /\ t \in Txn
  BY DEF Rows, Live, Row, Amount
<1>2. h \in Holding /\ h.qty \in Nat /\ h.cost \in Nat /\ acc.costs \in [Txn -> Nat \cup {None}]
  BY DEF Replayed, Holding
<1> HIDE DEF q, m
<1>3. CASE rows[t].type # "invest_sell"
  <2>1. ApplyBuy(h, q, m) \in Holding
    BY <1>1, <1>2 DEF ApplyBuy, Holding
  <2>2. ReplayStep(rows, t, acc) = [acc EXCEPT !.held = ApplyBuy(h, q, m)]
    BY <1>3 DEF ReplayStep, q, m, Replayed
  <2> QED
    BY <2>1, <2>2 DEF Replayed
<1>4. CASE rows[t].type = "invest_sell" /\ (~acc.ok \/ q > h.qty)
  <2>1. ReplayStep(rows, t, acc) = [acc EXCEPT !.ok = FALSE]
    BY <1>4 DEF ReplayStep, q
  <2> QED
    BY <2>1 DEF Replayed
<1>5. CASE rows[t].type = "invest_sell" /\ ~(~acc.ok \/ q > h.qty)
  <2>1. q <= h.qty /\ h.qty > 0
    BY <1>1, <1>2, <1>5
  <2>2. CostOf(h, q) \in Nat /\ CostOf(h, q) <= h.cost
    BY <1>1, <1>2, <2>1, CostBound
  <2>3. ApplySell(h, q) \in Holding
    BY <1>1, <1>2, <2>1, <2>2 DEF ApplySell, Holding
  <2>4. [acc.costs EXCEPT ![t] = CostOf(h, q)] \in [Txn -> Nat \cup {None}]
    BY <1>1, <1>2, <2>2
  <2>5. ReplayStep(rows, t, acc)
          = [acc EXCEPT !.held = ApplySell(h, q), !.costs = [acc.costs EXCEPT ![t] = CostOf(h, q)]]
    BY <1>5 DEF ReplayStep, q, Replayed
  <2> QED
    BY <2>3, <2>4, <2>5 DEF Replayed
<1> QED
  BY <1>3, <1>4, <1>5

\* The replays of all sets of trades, each one trade longer than that of the earlier ones.
Start == [held |-> NoHolding, costs |-> [t \in Txn |-> None], ok |-> TRUE]
IsReplay(rows, S, r) ==
    /\ r \in [SUBSET S -> Replayed]
    /\ \A s \in SUBSET S :
         r[s] = IF s = {} THEN Start
                ELSE ReplayStep(rows, LatestIn(rows, s), r[s \ {LatestIn(rows, s)}])

\* A replay goes through the trades of an account one by one.
LEMMA ReplayRecursion ==
    ASSUME NEW rows \in Rows, NEW a
    PROVE  \E r : IsReplay(rows, Trades(rows, a), r) /\ Replay(rows, a) = r[Trades(rows, a)]
<1> DEFINE S == Trades(rows, a)
           start == Start
           c == [s \in SUBSET S |-> LatestIn(rows, s)]
           G == [t \in S |-> [acc \in Replayed |-> ReplayStep(rows, t, acc)]]
           R(r) == r = [s \in SUBSET S |-> IF s = {} THEN start
                                           ELSE ReplayStep(rows, LatestIn(rows, s), r[s \ {LatestIn(rows, s)}])]
<1>1. S \subseteq Live(rows) /\ IsFiniteSet(S) /\ \A t \in S : rows[t].qty # 0
  BY FS_Subset, LedgerAssumption DEF Trades, Live
<1>2. start \in Replayed
  BY DEF Start, Replayed, NoHolding, Holding
<1>3. Replay(rows, a) = (CHOOSE r : R(r))[S]
  BY DEF Replay, MapThenFoldSet, ReplayStep, LatestIn, Start
<1> HIDE DEF S, start
<1>4. \A s \in SUBSET S : s # {} => c[s] = LatestIn(rows, s) /\ c[s] \in s
  BY <1>1, LatestExists
<1>5. \A t \in S : \A acc \in Replayed : G[t][acc] = ReplayStep(rows, t, acc) /\ G[t][acc] \in Replayed
  BY <1>1, ReplayStepSound
<1> HIDE DEF c, G
<1>6. PICK it : IsFold(S, c, G, Replayed, start, it)
  BY <1>1, <1>2, <1>4, <1>5, FoldExists
<1>7. R(it)
  <2>1. ASSUME NEW s \in SUBSET S
        PROVE  it[s] = IF s = {} THEN start ELSE ReplayStep(rows, LatestIn(rows, s), it[s \ {LatestIn(rows, s)}])
    <3>1. CASE s = {}
      BY <1>6, <3>1 DEF IsFold
    <3>2. CASE s # {}
      <4>1. c[s] = LatestIn(rows, s) /\ c[s] \in S /\ s \ {c[s]} \in SUBSET S
        BY <1>4, <3>2
      <4>2. it[s \ {c[s]}] \in Replayed /\ it[s] = G[c[s]][it[s \ {c[s]}]]
        BY <1>6, <3>2, <4>1 DEF IsFold
      <4> QED
        BY <1>5, <3>2, <4>1, <4>2
    <3> QED
      BY <3>1, <3>2
  <2>2. it = [s \in SUBSET S |-> it[s]]
    BY <1>6 DEF IsFold
  <2> QED
    BY <2>1, <2>2
<1>8. PICK r : R(r) /\ r = CHOOSE g : R(g)
  <2> HIDE DEF R
  <2> QED
    BY <1>7
<1>9. \A s \in SUBSET S :
        r[s] = IF s = {} THEN start ELSE ReplayStep(rows, LatestIn(rows, s), r[s \ {LatestIn(rows, s)}])
  <2>1. R(r)
    BY <1>8
  <2> QED
    BY <2>1
<1> HIDE DEF R
<1> DEFINE bad == {s \in SUBSET S : r[s] \notin Replayed}
<1>10. bad = {}
  <2>1. SUFFICES ASSUME bad # {} PROVE FALSE
    OBVIOUS
  <2>2. \A s \in bad : IsFiniteSet(s)
    BY <1>1, FS_Subset
  <2>3. PICK s \in bad : \A z \in bad : z \subseteq s => z = s
    <3> HIDE DEF bad
    <3> QED
      BY <2>1, <2>2, MinimalSet
  <2> DEFINE t == LatestIn(rows, s)
  <2>4. s # {}
    BY <1>2, <1>9
  <2>5. t \in s /\ t \in Live(rows) /\ rows[t].qty # 0
    BY <1>1, <1>4, <2>4
  <2>6. s \ {t} \in SUBSET S /\ s \ {t} \notin bad
    BY <2>3, <2>5
  <2>7. r[s] = ReplayStep(rows, t, r[s \ {t}])
    BY <1>9, <2>4
  <2> HIDE DEF t
  <2>8. r[s \ {t}] \in Replayed
    BY <2>6
  <2>9. r[s] \in Replayed
    BY <2>5, <2>7, <2>8, ReplayStepSound
  <2> QED
    BY <2>9
<1>11. r \in [SUBSET S -> Replayed]
  <2>1. r = [s \in SUBSET S |-> r[s]]
    <3>1. R(r)
      BY <1>8
    <3> QED
      BY <3>1 DEF R
  <2> QED
    BY <1>10, <2>1
<1>12. Replay(rows, a) = r[S]
  BY <1>3, <1>8
<1> QED
  BY <1>9, <1>11, <1>12 DEF IsReplay, S, start

\* What a replay gives is a holding, and a cost for some of the sales.
LEMMA ReplaySound ==
    ASSUME NEW rows \in Rows, NEW a
    PROVE  Replay(rows, a) \in Replayed
<1>1. PICK r : IsReplay(rows, Trades(rows, a), r) /\ Replay(rows, a) = r[Trades(rows, a)]
  BY ReplayRecursion
<1> DEFINE S == Trades(rows, a)
<1>2. S \in SUBSET S
  OBVIOUS
<1> HIDE DEF S
<1>3. r[S] \in Replayed
  BY <1>1, <1>2 DEF IsReplay, S
<1> QED
  BY <1>1, <1>3 DEF S

-------------------------------------------------------------------------------
(* Rows                                                                    *)

\* What createTransaction makes of a request is a row, with or without a holding.
LEMMA NewRowSound ==
    ASSUME NEW t \in DOMAIN Payload, NEW p \in Payload[t]
    PROVE  t \in Txn /\ NewRow(p) \in Row /\ NewRow(p).live
<1>1. t \in Txn /\ p \in Request
  BY RequestAssumption
<1>2. Resolved(p).from \in Account \cup {None} /\ Resolved(p).to \in Account \cup {None}
  <2>1. CASE p.inv = None
    <3>1. Resolved(p) = p
      BY <2>1 DEF Resolved
    <3> QED
      BY <1>1, <3>1 DEF Request
  <2>2. CASE p.inv # None
    <3> DEFINE a == p.inv
    <3>1. a \in Account /\ Settlement[a] \in Account /\ Equity \in Account
      BY <1>1, <2>2, LedgerAssumption DEF Request
    <3>2. /\ p.from \in Account \cup {None} /\ p.to \in Account \cup {None}
          /\ "from" \in DOMAIN p /\ "to" \in DOMAIN p
      BY <1>1 DEF Request
    <3>3. \/ Resolved(p) = [p EXCEPT !.from = Settlement[a], !.to = a]
          \/ Resolved(p) = [p EXCEPT !.from = a, !.to = Settlement[a]]
          \/ Resolved(p) = [p EXCEPT !.to = Settlement[a]]
          \/ Resolved(p) = [p EXCEPT !.from = Equity, !.to = a]
          \/ Resolved(p) = p
      BY <2>2 DEF Resolved
    <3> QED
      BY <3>1, <3>2, <3>3
  <2> QED
    BY <2>1, <2>2
<1>3. /\ p.type \in TxnType /\ p.amount \in Nat /\ p.currency \in Range(Currency)
      /\ p.cat \in Account \cup {None} /\ p.orig \in Txn \cup {None} /\ p.day \in Day /\ p.qty \in Nat
      /\ p.status \in TxnStatus \cup {None}
  BY <1>1 DEF Request
<1>4. {"pending", "posted"} \subseteq TxnStatus
  BY DEF TxnStatus
<1> QED
  BY <1>1, <1>2, <1>3, <1>4 DEF NewRow, Row, Amount

\* The columns an edit may hold.
IsEdit(edit) ==
    DOMAIN edit \subseteq DOMAIN Column /\ \A f \in DOMAIN edit : edit[f] \in Column[f]

\* A row with some columns changed is a row, of the same type.
LEMMA PatchedSound ==
    ASSUME NEW row \in Row, NEW edit, IsEdit(edit)
    PROVE  Patched(row, edit) \in Row /\ Patched(row, edit).type = row.type
<1> DEFINE new == Patched(row, edit)
           D == {"type", "status", "amount", "currency", "from", "to", "cat", "orig", "qty",
                 "day", "version", "live", "born"}
<1>1. DOMAIN row = D /\ \A f \in D : new[f] = IF f \in DOMAIN edit THEN edit[f] ELSE row[f]
  BY DEF Row, Patched
<1>2. new = [f \in D |-> IF f \in DOMAIN edit THEN edit[f] ELSE row[f]]
  BY <1>1 DEF Patched
<1>3. DOMAIN Column = {"amount", "from", "to", "cat", "day", "status", "note"}
  BY DEF Column
<1>4. /\ "amount" \in DOMAIN edit => edit["amount"] \in Nat
      /\ "from" \in DOMAIN edit => edit["from"] \in Account \cup {None}
      /\ "to" \in DOMAIN edit => edit["to"] \in Account \cup {None}
      /\ "cat" \in DOMAIN edit => edit["cat"] \in Account \cup {None}
      /\ "day" \in DOMAIN edit => edit["day"] \in Day
      /\ "status" \in DOMAIN edit => edit["status"] \in TxnStatus
  BY DEF IsEdit, Column
<1>5. \A f \in {"type", "currency", "orig", "qty", "version", "live", "born"} : f \notin DOMAIN edit
  BY <1>3 DEF IsEdit
<1>6. /\ row.type \in TxnType /\ row.status \in TxnStatus /\ row.amount \in Nat
      /\ row.currency \in Range(Currency) /\ row.from \in Account \cup {None}
      /\ row.to \in Account \cup {None} /\ row.cat \in Account \cup {None}
      /\ row.orig \in Txn \cup {None} /\ row.qty \in Nat /\ row.day \in Day
      /\ row.version \in Nat /\ row.live \in BOOLEAN /\ row.born \in Nat
  BY DEF Row, Amount
<1>7. /\ new.type \in TxnType /\ new.currency \in Range(Currency)
      /\ new.orig \in Txn \cup {None} /\ new.qty \in Nat
      /\ new.version \in Nat /\ new.live \in BOOLEAN /\ new.born \in Nat /\ new.type = row.type
  BY <1>1, <1>5, <1>6
<1>8. /\ new.amount \in Nat /\ new.from \in Account \cup {None}
      /\ new.to \in Account \cup {None} /\ new.cat \in Account \cup {None} /\ new.day \in Day
      /\ new.status \in TxnStatus
  BY <1>1, <1>4, <1>6
<1>9. new = [type |-> new.type, status |-> new.status, amount |-> new.amount,
             currency |-> new.currency, from |-> new.from, to |-> new.to, cat |-> new.cat,
             orig |-> new.orig, qty |-> new.qty, day |-> new.day, version |-> new.version,
             live |-> new.live, born |-> new.born]
  BY <1>1, <1>2
<1> HIDE DEF new
<1>10. new \in Row
  BY <1>7, <1>8, <1>9 DEF Row, Amount
<1> QED
  BY <1>7, <1>10 DEF new

\* A row of another version, deleted or not, and of another place in the order.
LEMMA RowWith ==
    ASSUME NEW r \in Row, NEW n \in Nat, NEW s \in Row
    PROVE  /\ [r EXCEPT !.version = n, !.live = s.live] \in Row
           /\ [r EXCEPT !.version = n, !.live = s.live].type = r.type
           /\ [r EXCEPT !.version = n, !.live = s.live].live = s.live
           /\ [r EXCEPT !.version = n, !.live = FALSE] \in Row
           /\ ~[r EXCEPT !.version = n, !.live = FALSE].live
           /\ [r EXCEPT !.born = n] \in Row
<1> DEFINE l == s.live
<1>1. l \in BOOLEAN
  BY DEF Row
<1> HIDE DEF l
<1>2. \A k \in {l, FALSE} : [r EXCEPT !.version = n, !.live = k] \in Row
  BY <1>1 DEF Row
<1>3. \A k \in {l, FALSE} :
        /\ [r EXCEPT !.version = n, !.live = k].type = r.type
        /\ [r EXCEPT !.version = n, !.live = k].live = k
  BY <1>1 DEF Row
<1>4. [r EXCEPT !.born = n] \in Row
  BY DEF Row
<1> QED
  BY <1>2, <1>3, <1>4 DEF l

\* The columns an entry is made of.
SameBooks(r, s) ==
    /\ r.type = s.type /\ r.amount = s.amount /\ r.from = s.from /\ r.to = s.to /\ r.cat = s.cat

\* Rows that agree in them have the same entry.
LEMMA SameBooksSameEntry ==
    ASSUME NEW r \in Row, NEW s \in Row, SameBooks(r, s), NEW lines, Books(s, lines)
    PROVE  Books(r, lines)
<1>1. BookedCost(r, lines) = BookedCost(s, lines)
  BY DEF BookedCost, SameBooks
<1> DEFINE c == BookedCost(s, lines)
           rule == PostingRule(s.type)
<1>2. rule.debit \in {"cat", "from", "to"} /\ rule.credit \in {"cat", "from", "to"}
  <2>1. s.type \in TxnType
    BY DEF Row
  <2> QED
    BY <2>1 DEF TxnType, Trade, PostingRule, Rule
<1> HIDE DEF c, rule
<1>3. r[rule.debit] = s[rule.debit] /\ r[rule.credit] = s[rule.credit]
  BY <1>2 DEF SameBooks
<1>4. SellLines(r, c) = SellLines(s, c)
  BY DEF SellLines, SameBooks
<1>5. BuildPosting(r, c) = BuildPosting(s, c)
  BY <1>3, <1>4 DEF BuildPosting, SameBooks, rule
<1> QED
  BY <1>1, <1>5 DEF Books, c

-------------------------------------------------------------------------------
(* The inductive invariant                                                 *)

\* A request that has read its row read one that was there, and rows are never removed.
EditSound(j) ==
    /\ j.txn \in Txn
    /\ txn[j.txn] # None
    /\ j.seen \in Row
    /\ j.seen # None
    /\ j.seen.live
    /\ j.op = "update" => IsEdit(j.edit)

\* What a request is about to commit can be stored, and its entry balances.
CommitSound(j) ==
    /\ j.txn \in Txn
    /\ j.row \in Row
    /\ j.seen # None => j.seen \in Row /\ txn[j.txn] # None
    /\ j.lines \notin {None, Keep} => j.lines \in Lines /\ Balanced(j.lines)
    /\ j.change.of # None => j.change.of \in Account /\ j.change.next \in Holding
    /\ j.opened \subseteq Account

JobSound(j) ==
    /\ j.op \in {"idle", "update", "delete", "commit", "close"}
    /\ j.op \in {"update", "delete"} => EditSound(j)
    /\ j.op = "commit" => CommitSound(j)
    /\ j.op = "close" => j.account \in Account

JobsAreSound == \A w \in Worker : JobSound(job[w])

\* Of two requests about to commit the same row neither has found one: a row that was
\* there is locked by the first that has written it.
Commits(w, t) == job[w].op = "commit" /\ job[w].txn = t
RowsAreLocked ==
    \A w, v \in Worker : \A t \in Txn :
        w # v /\ Commits(w, t) /\ Commits(v, t) => job[w].seen = None

\* The entry a request is about to commit is the one its row calls for: none for a
\* deleted one, the one that is there if its columns are still those of the copy that
\* was read, and a new one otherwise.
Fitting(j) ==
    /\ j.seen = None => j.row.live /\ j.lines \notin {None, Keep}
    /\ j.seen # None => j.seen.live
    /\ j.lines = None => ~j.row.live
    /\ j.lines = Keep => SameBooks(j.row, j.seen)
    /\ j.lines \notin {None, Keep} => Books(j.row, j.lines)
    /\ j.seen # None /\ j.lines # None => (j.row.live <=> txn[j.txn].live)
LinesFit == \A w \in Worker : job[w].op = "commit" => Fitting(job[w])

IInv == TypeOK /\ JobsAreSound /\ RowsAreLocked /\ LinesFit /\ EntriesBalance /\ EntryMatchesRow

LEMMA Initially == Init => IInv
<1> SUFFICES ASSUME Init PROVE IInv
  OBVIOUS
<1> USE DEF Init
<1>1. \A w \in Worker : job[w].op = "idle"
  BY DEF Idle
<1>2. TypeOK
  BY <1>1 DEF TypeOK
<1>3. JobsAreSound /\ RowsAreLocked /\ LinesFit
  BY <1>1 DEF JobsAreSound, JobSound, RowsAreLocked, Commits, LinesFit
<1>4. EntriesBalance /\ EntryMatchesRow
  BY DEF EntriesBalance, EntryMatchesRow, Live
<1> QED
  BY <1>2, <1>3, <1>4 DEF IInv

\* A step that only changes what one request has read and computed.
LEMMA JobStep ==
    ASSUME IInv, NEW w \in Worker, NEW j, job' = [job EXCEPT ![w] = j],
           UNCHANGED <<tables, history>>, JobSound(j),
           j.op = "commit" => /\ Fitting(j)
                              /\ RowFree(w, j.txn) \/ (j.seen = None /\ txn[j.txn] = None)
    PROVE  IInv'
<1> USE DEF tables, history
<1>1. TypeOK /\ DOMAIN job = Worker
  BY DEF IInv, TypeOK
<1>2. \A v \in Worker : job'[v] = IF v = w THEN j ELSE job[v]
  BY <1>1
<1>3. JobsAreSound'
  <2>1. JobSound(j)'
    BY DEF JobSound, EditSound, CommitSound
  <2>2. ASSUME NEW v \in Worker, v # w PROVE JobSound(job[v])'
    <3>1. JobSound(job[v]) /\ job'[v] = job[v]
      BY <1>2, <2>2 DEF IInv, JobsAreSound
    <3> QED
      BY <3>1 DEF JobSound, EditSound, CommitSound
  <2> QED
    BY <1>2, <2>1, <2>2 DEF JobsAreSound, JobSound, EditSound, CommitSound
<1>4. TypeOK'
  <2>1. DOMAIN job' = Worker /\ \A v \in Worker : job'[v].op \in {"idle", "update", "delete", "commit", "close"}
    BY <1>1, <1>2 DEF TypeOK, JobSound
  <2> QED
    BY <1>1, <2>1 DEF TypeOK
<1>5. RowsAreLocked'
  <2>1. SUFFICES ASSUME NEW u \in Worker, NEW v \in Worker, NEW t \in Txn, u # v,
                        Commits(u, t)', Commits(v, t)'
                 PROVE  job'[u].seen = None
    BY DEF RowsAreLocked
  <2>2. CASE u = w
    <3>1. j.op = "commit" /\ j.txn = t /\ job'[u] = j /\ Commits(v, t)
      BY <1>2, <2>1, <2>2 DEF Commits
    <3>2. ~RowFree(w, j.txn)
      BY <2>1, <2>2, <3>1 DEF RowFree, Commits
    <3> QED
      BY <3>1, <3>2
  <2>3. CASE v = w
    <3>1. j.op = "commit" /\ j.txn = t /\ job'[u] = job[u] /\ Commits(u, t)
      BY <1>2, <2>1, <2>3 DEF Commits
    <3>2. ~RowFree(w, j.txn)
      BY <2>1, <2>3, <3>1 DEF RowFree, Commits
    <3>3. txn[t] = None
      BY <3>1, <3>2
    <3>4. CommitSound(job[u])
      BY <3>1 DEF IInv, JobsAreSound, JobSound, Commits
    <3> QED
      BY <3>1, <3>3, <3>4 DEF CommitSound, Commits
  <2>4. CASE u # w /\ v # w
    <3>1. job'[u] = job[u] /\ Commits(u, t) /\ Commits(v, t)
      BY <1>2, <2>1, <2>4 DEF Commits
    <3> QED
      BY <2>1, <3>1 DEF IInv, RowsAreLocked
  <2> QED
    BY <2>2, <2>3, <2>4
<1>6. LinesFit'
  <2>1. SUFFICES ASSUME NEW v \in Worker, job'[v].op = "commit" PROVE Fitting(job[v])'
    BY DEF LinesFit
  <2>2. PICK k : k = job'[v] /\ Fitting(k)
    BY <1>2, <2>1 DEF IInv, LinesFit
  <2> QED
    BY <2>2 DEF Fitting, Books
<1>7. EntriesBalance' /\ EntryMatchesRow'
  <2>1. EntriesBalance /\ EntryMatchesRow
    BY DEF IInv
  <2> QED
    BY <2>1 DEF EntriesBalance, EntryMatchesRow, Live, Books
<1> QED
  BY <1>3, <1>4, <1>5, <1>6, <1>7 DEF IInv

-------------------------------------------------------------------------------
(* The steps                                                               *)

\* A request that is done, and one that is ready.
LEMMA IdleStep ==
    ASSUME IInv, NEW w \in Worker, Set(w, Idle), UNCHANGED <<tables, history>>
    PROVE  IInv'
<1>1. PICK j : j = Idle
  OBVIOUS
<1>2. JobSound(j) /\ j.op # "commit"
  BY <1>1 DEF JobSound, Idle
<1>3. job' = [job EXCEPT ![w] = j]
  BY <1>1 DEF Set
<1> QED
  BY <1>2, <1>3, JobStep

\* A holding is not less than what is sold of it, and what was bought adds to it.
LEMMA TradesSound ==
    ASSUME NEW h \in Holding, NEW q \in Nat, NEW m \in Nat
    PROVE  /\ ApplyBuy(h, q, m) \in Holding
           /\ 0 < q /\ q <= h.qty => ApplySell(h, q) \in Holding /\ CostOf(h, q) \in Nat
<1>1. h.qty \in Nat /\ h.cost \in Nat
  BY DEF Holding
<1>2. ApplyBuy(h, q, m) \in Holding
  BY <1>1 DEF ApplyBuy, Holding
<1>3. ASSUME 0 < q, q <= h.qty PROVE ApplySell(h, q) \in Holding /\ CostOf(h, q) \in Nat
  <2>1. CostOf(h, q) \in Nat /\ CostOf(h, q) <= h.cost
    BY <1>1, <1>3, CostBound
  <2> QED
    BY <1>1, <1>3, <2>1 DEF ApplySell, Holding
<1> QED
  BY <1>2, <1>3

LEMMA BeginCreateStep ==
    ASSUME IInv, NEW w \in Worker, NEW t \in DOMAIN Payload, NEW p \in Payload[t],
           BeginCreate(w, t, p)
    PROVE  IInv'
<1> DEFINE row  == NewRow(p)
           a    == HoldingOf(row)
           held == IF a = None \/ holding[a] = None THEN NoHolding ELSE holding[a]
           cost == IF a # None /\ row.type = "invest_sell" THEN CostOf(held, row.qty) ELSE row.amount
           next == IF row.type = "invest_sell" THEN ApplySell(held, row.qty)
                   ELSE ApplyBuy(held, row.qty, row.amount)
           change == IF a = None THEN NoChange ELSE HoldingChange(txn, a, next)
           lines == BuildPosting(row, cost)
           opened == Opened(row)
<1>1. t \in Txn /\ row \in Row /\ row.live
  BY NewRowSound
<1>2. /\ txn[t] = None
      /\ a # None => EnoughToSell(row, held)
      /\ Postable(row, cost, open \cup opened)
      /\ job' = [job EXCEPT ![w] = [Ready(t, None, row, lines, change) EXCEPT !.opened = opened]]
      /\ UNCHANGED <<tables, history>>
  BY DEF BeginCreate, Set
<1>3. open \cup opened \in SUBSET Account /\ opened \subseteq Account
  <2>1. Equity \in Account
    BY LedgerAssumption
  <2> QED
    BY <2>1 DEF IInv, TypeOK, Opened
<1>4. a \in Account \cup {None} /\ row.qty \in Nat /\ row.amount \in Nat /\ (a # None => row.qty # 0)
  BY <1>1 DEF HoldingOf, Row, Amount
<1>5. held \in Holding
  <2>1. NoHolding \in Holding
    BY DEF NoHolding, Holding
  <2>2. a # None => holding[a] \in Holding \cup {None}
    BY <1>4 DEF IInv, TypeOK
  <2> QED
    BY <2>1, <2>2
<1> HIDE DEF row, a, held
<1>6. a # None => next \in Holding
  BY <1>2, <1>4, <1>5, TradesSound DEF EnoughToSell, Holding
<1>7. cost \in Int
  BY <1>2, <1>4, <1>5, TradesSound DEF EnoughToSell, Holding
<1> HIDE DEF next, cost, opened
<1>8. lines \in Lines /\ Balanced(lines) /\ Books(row, lines)
  BY <1>1, <1>2, <1>3, <1>7, PostingSound
<1>9. lines \notin {None, Keep}
  BY <1>8, ValueAssumption
<1>10. change.of # None => change.of \in Account /\ change.next \in Holding
  BY <1>4, <1>6 DEF HoldingChange, NoChange
<1> HIDE DEF lines, change
<1>11. PICK j : j = [Ready(t, None, row, lines, change) EXCEPT !.opened = opened]
  OBVIOUS
<1>12. /\ j.op = "commit" /\ j.txn = t /\ j.seen = None /\ j.row = row /\ j.lines = lines
       /\ j.change = change /\ j.opened = opened
  BY <1>11 DEF Ready
<1>13. JobSound(j)
  BY <1>1, <1>3, <1>8, <1>10, <1>12 DEF JobSound, CommitSound
<1>14. Fitting(j)
  BY <1>1, <1>8, <1>9, <1>12 DEF Fitting
<1> QED
  BY <1>2, <1>11, <1>12, <1>13, <1>14, JobStep

LEMMA BeginUpdateStep ==
    ASSUME IInv, NEW w \in Worker, NEW t \in DOMAIN Edit, NEW edit \in Edit[t],
           BeginUpdate(w, t, edit)
    PROVE  IInv'
<1>1. PICK j : j = [op |-> "update", txn |-> t, seen |-> txn[t], edit |-> edit]
  OBVIOUS
<1>2. t \in Live(txn) /\ job' = [job EXCEPT ![w] = j] /\ UNCHANGED <<tables, history>>
  BY <1>1 DEF BeginUpdate, Set
<1>3. IsEdit(edit)
  BY RequestAssumption DEF IsEdit
<1>4. EditSound(j)
  BY <1>1, <1>2, <1>3 DEF EditSound, IInv, TypeOK, Live
<1>5. JobSound(j) /\ j.op # "commit"
  BY <1>1, <1>4 DEF JobSound
<1> QED
  BY <1>2, <1>5, JobStep

LEMMA BeginDeleteStep ==
    ASSUME IInv, NEW w \in Worker, NEW t \in Txn, BeginDelete(w, t)
    PROVE  IInv'
<1>1. PICK j : j = [op |-> "delete", txn |-> t, seen |-> txn[t]]
  OBVIOUS
<1>2. t \in Live(txn) /\ job' = [job EXCEPT ![w] = j] /\ UNCHANGED <<tables, history>>
  BY <1>1 DEF BeginDelete, Set
<1>3. EditSound(j)
  BY <1>1, <1>2 DEF EditSound, IInv, TypeOK, Live
<1>4. JobSound(j) /\ j.op # "commit"
  BY <1>1, <1>3 DEF JobSound
<1> QED
  BY <1>2, <1>4, JobStep

LEMMA BeginDeleteAccountStep ==
    ASSUME IInv, NEW w \in Worker, NEW a \in Closing, BeginDeleteAccount(w, a)
    PROVE  IInv'
<1>1. PICK j : j = [op |-> "close", account |-> a, used |-> Used(a)]
  OBVIOUS
<1>2. job' = [job EXCEPT ![w] = j] /\ UNCHANGED <<tables, history>>
  BY <1>1 DEF BeginDeleteAccount, Set
<1>3. a \in Account
  BY RequestAssumption
<1>4. JobSound(j) /\ j.op # "commit"
  BY <1>1, <1>3 DEF JobSound
<1> QED
  BY <1>2, <1>4, JobStep

LEMMA ApplyUpdateStep ==
    ASSUME IInv, NEW w \in Worker, ApplyUpdate(w)
    PROVE  IInv'
<1> DEFINE j    == job[w]
           t    == j.txn
           seen == j.seen
           new  == Patched(seen, j.edit)
           row  == [new EXCEPT !.version = seen.version + 1, !.live = txn[t].live]
           rows == [txn EXCEPT ![t] = row]
           a    == HoldingOf(row)
           replay == Replay(rows, a)
           cost == CostInReplay(replay, t, row)
           change == HoldingChange(rows, a, replay.held)
           lines(c) == BuildPosting(row, c)
<1>1. j.op = "update" /\ RowFree(w, t) /\ UNCHANGED <<tables, history>>
  BY DEF ApplyUpdate
<1>2. /\ t \in Txn /\ txn[t] # None /\ seen \in Row /\ seen # None /\ seen.live /\ IsEdit(j.edit)
      /\ txn \in Rows /\ open \subseteq Account
  BY <1>1 DEF IInv, TypeOK, JobsAreSound, JobSound, EditSound, Rows
<1>3. new \in Row /\ new.type = seen.type
  BY <1>2, PatchedSound
<1>4. txn[t] \in Row
  BY <1>2 DEF Rows
<1>5. row \in Row /\ row.type = seen.type /\ row.live = txn[t].live
  <2>1. txn[t].live \in BOOLEAN /\ seen.version \in Nat
    BY <1>2, <1>4 DEF Row
  <2> HIDE DEF new
  <2> DEFINE n == seen.version + 1
             old == txn[t]
  <2>2. n \in Nat /\ old \in Row
    BY <1>4, <2>1
  <2> HIDE DEF n, old
  <2>3. LET r == [new EXCEPT !.version = n, !.live = old.live]
        IN  r \in Row /\ r.type = new.type /\ r.live = old.live
    BY <1>3, <2>2, RowWith, ZenonT(60)
  <2> QED
    BY <1>3, <2>3 DEF n, old
<1> HIDE DEF row
<1>6. rows \in Rows
  BY <1>2, <1>5 DEF Rows
<1> HIDE DEF rows
<1>7. replay \in Replayed
  BY <1>6, ReplaySound
<1> HIDE DEF replay
<1>8. a \in Account \cup {None} /\ row.amount \in Nat
  BY <1>5 DEF HoldingOf, Row, Amount
<1>9. cost \in Int
  BY <1>2, <1>7, <1>8 DEF CostInReplay, Replayed
<1> HIDE DEF cost, a
<1>10. a # None => change.of \in Account /\ change.next \in Holding
  BY <1>7, <1>8 DEF HoldingChange, Replayed
<1>11. \A c \in Int : Postable(row, c, open) =>
         lines(c) \in Lines /\ lines(c) \notin {None, Keep} /\ Balanced(lines(c)) /\ Books(row, lines(c))
  BY <1>2, <1>5, PostingSound, ValueAssumption
<1> HIDE DEF change, lines
<1>12. \/ Set(w, Idle)
       \/ /\ ~FinancialChanged(seen, row)
          /\ Set(w, Ready(t, seen, row, Keep, NoChange))
       \/ /\ Postable(row, row.amount, open)
          /\ Set(w, Ready(t, seen, row, lines(row.amount), NoChange))
       \/ /\ a # None
          /\ Postable(row, cost, open)
          /\ Set(w, Ready(t, seen, row, lines(cost), change))
  BY DEF ApplyUpdate, row, rows, a, replay, cost, change, lines
<1> HIDE DEF j, t, seen, new
<1>13. CASE Set(w, Idle)
  BY <1>1, <1>13, IdleStep
<1>14. ASSUME NEW l, NEW c, Set(w, Ready(t, seen, row, l, c)),
              c.of # None => c.of \in Account /\ c.next \in Holding,
              l = Keep => SameBooks(row, seen),
              l # Keep => l \in Lines /\ l # None /\ Balanced(l) /\ Books(row, l)
       PROVE  IInv'
  <2>1. PICK k : k = Ready(t, seen, row, l, c)
    OBVIOUS
  <2>2. /\ k.op = "commit" /\ k.txn = t /\ k.seen = seen /\ k.row = row /\ k.lines = l
        /\ k.change = c /\ k.opened = {}
    BY <2>1 DEF Ready
  <2>3. l # None
    BY <1>14, ValueAssumption
  <2>4. JobSound(k)
    BY <1>2, <1>5, <1>14, <2>2 DEF JobSound, CommitSound
  <2>5. Fitting(k)
    BY <1>2, <1>5, <1>14, <2>2, <2>3 DEF Fitting
  <2>6. job' = [job EXCEPT ![w] = k]
    BY <1>14, <2>1 DEF Set
  <2> QED
    BY <1>1, <2>2, <2>4, <2>5, <2>6, JobStep
<1>15. CASE ~FinancialChanged(seen, row) /\ Set(w, Ready(t, seen, row, Keep, NoChange))
  <2>1. SameBooks(row, seen)
    BY <1>5, <1>15 DEF FinancialChanged, Financial, SameBooks
  <2>2. NoChange.of = None
    BY DEF NoChange
  <2> QED
    BY <1>14, <1>15, <2>1, <2>2
<1>16. CASE Postable(row, row.amount, open) /\ Set(w, Ready(t, seen, row, lines(row.amount), NoChange))
  <2>1. row.amount \in Int /\ NoChange.of = None
    BY <1>8 DEF NoChange
  <2>2. /\ lines(row.amount) \in Lines /\ lines(row.amount) \notin {None, Keep}
        /\ Balanced(lines(row.amount)) /\ Books(row, lines(row.amount))
    BY <1>11, <1>16, <2>1
  <2> QED
    BY <1>14, <1>16, <2>1, <2>2
<1>17. CASE a # None /\ Postable(row, cost, open) /\ Set(w, Ready(t, seen, row, lines(cost), change))
  <2>1. /\ lines(cost) \in Lines /\ lines(cost) \notin {None, Keep}
        /\ Balanced(lines(cost)) /\ Books(row, lines(cost))
    BY <1>9, <1>11, <1>17
  <2> QED
    BY <1>10, <1>14, <1>17, <2>1
<1> QED
  BY <1>12, <1>13, <1>15, <1>16, <1>17

LEMMA ApplyDeleteStep ==
    ASSUME IInv, NEW w \in Worker, ApplyDelete(w)
    PROVE  IInv'
<1> DEFINE j    == job[w]
           t    == j.txn
           seen == j.seen
           row  == [txn[t] EXCEPT !.live = FALSE, !.version = seen.version + 1]
           rows == [txn EXCEPT ![t] = row]
           a    == HoldingOf(seen)
           replay == Replay(rows, a)
           change == HoldingChange(rows, a, replay.held)
<1>1. j.op = "delete" /\ RowFree(w, t) /\ UNCHANGED <<tables, history>>
  BY DEF ApplyDelete
<1>2. /\ t \in Txn /\ txn[t] # None /\ seen \in Row /\ seen # None /\ seen.live
      /\ txn \in Rows
  BY <1>1 DEF IInv, TypeOK, JobsAreSound, JobSound, EditSound, Rows
<1>3. row \in Row /\ ~row.live
  <2>1. txn[t] \in Row /\ seen.version \in Nat
    BY <1>2 DEF Rows, Row
  <2> DEFINE n == seen.version + 1
             old == txn[t]
  <2>2. n \in Nat /\ old \in Row
    BY <2>1
  <2> HIDE DEF n, old
  <2>3. LET r == [old EXCEPT !.version = n, !.live = FALSE] IN r \in Row /\ ~r.live
    BY <2>2, RowWith
  <2>4. row = [old EXCEPT !.version = n, !.live = FALSE]
    BY <2>1 DEF n, old, Row
  <2> QED
    BY <2>3, <2>4
<1> HIDE DEF row
<1>4. rows \in Rows
  BY <1>2, <1>3 DEF Rows
<1> HIDE DEF rows
<1>5. replay \in Replayed
  BY <1>4, ReplaySound
<1> HIDE DEF replay
<1>6. a \in Account \cup {None}
  BY <1>2 DEF HoldingOf, Row
<1> HIDE DEF a
<1>7. a # None => change.of \in Account /\ change.next \in Holding
  BY <1>5, <1>6 DEF HoldingChange, Replayed
<1> HIDE DEF change
<1>8. \/ Set(w, Idle)
      \/ Set(w, Ready(t, seen, row, None, NoChange))
      \/ a # None /\ Set(w, Ready(t, seen, row, None, change))
  BY DEF ApplyDelete, row, rows, a, replay, change
<1> HIDE DEF j, t, seen
<1>9. CASE Set(w, Idle)
  BY <1>1, <1>9, IdleStep
<1>10. ASSUME NEW c, Set(w, Ready(t, seen, row, None, c)),
              c.of # None => c.of \in Account /\ c.next \in Holding
       PROVE  IInv'
  <2>1. PICK k : k = Ready(t, seen, row, None, c)
    OBVIOUS
  <2>2. /\ k.op = "commit" /\ k.txn = t /\ k.seen = seen /\ k.row = row /\ k.lines = None
        /\ k.change = c /\ k.opened = {}
    BY <2>1 DEF Ready
  <2>3. JobSound(k)
    BY <1>2, <1>3, <1>10, <2>2 DEF JobSound, CommitSound
  <2>4. Fitting(k)
    BY <1>2, <1>3, <2>2, ValueAssumption DEF Fitting
  <2>5. job' = [job EXCEPT ![w] = k]
    BY <1>10, <2>1 DEF Set
  <2> QED
    BY <1>1, <2>2, <2>3, <2>4, <2>5, JobStep
<1>11. NoChange.of = None
  BY DEF NoChange
<1> QED
  BY <1>7, <1>8, <1>9, <1>10, <1>11

LEMMA CommitDeleteAccountStep ==
    ASSUME IInv, NEW w \in Worker, CommitDeleteAccount(w)
    PROVE  IInv'
<1> DEFINE a == job[w].account
<1>1. /\ job[w].op = "close" /\ open' = open \ {a} /\ job' = [job EXCEPT ![w] = Idle]
      /\ crossed' \subseteq crossed \cup {a}
      /\ UNCHANGED <<txn, entry, holding, overtaken, skewed>>
  BY DEF CommitDeleteAccount, Set
<1>2. TypeOK /\ DOMAIN job = Worker /\ a \in Account
  BY <1>1 DEF IInv, TypeOK, JobsAreSound, JobSound
<1>3. \A v \in Worker : job'[v] = IF v = w THEN Idle ELSE job[v]
  BY <1>1, <1>2
<1>4. \A v \in Worker : job'[v].op # "idle" => job'[v] = job[v]
  BY <1>3 DEF Idle
<1>5. TypeOK'
  <2>1. DOMAIN job' = Worker /\ \A v \in Worker : job'[v].op \in {"idle", "update", "delete", "commit", "close"}
    BY <1>1, <1>2, <1>3 DEF TypeOK, Idle
  <2> QED
    BY <1>1, <1>2, <2>1 DEF TypeOK
<1>6. JobsAreSound'
  <2>1. SUFFICES ASSUME NEW v \in Worker PROVE JobSound(job[v])'
    BY DEF JobsAreSound
  <2>2. JobSound(job[v])
    BY DEF IInv, JobsAreSound
  <2>3. CASE job'[v] = job[v]
    BY <1>1, <2>2, <2>3 DEF JobSound, EditSound, CommitSound
  <2>4. CASE job'[v].op = "idle"
    BY <2>4 DEF JobSound
  <2> QED
    BY <1>4, <2>3, <2>4
<1>7. RowsAreLocked'
  BY <1>4 DEF IInv, RowsAreLocked, Commits
<1>8. LinesFit'
  <2>1. SUFFICES ASSUME NEW v \in Worker, job'[v].op = "commit" PROVE Fitting(job[v])'
    BY DEF LinesFit
  <2>2. PICK k : k = job'[v] /\ Fitting(k)
    BY <1>4, <2>1 DEF IInv, LinesFit
  <2> QED
    BY <1>1, <2>2 DEF Fitting, Books
<1>9. EntriesBalance' /\ EntryMatchesRow'
  <2>1. EntriesBalance /\ EntryMatchesRow
    BY DEF IInv
  <2> QED
    BY <1>1, <2>1 DEF EntriesBalance, EntryMatchesRow, Live, Books
<1> QED
  BY <1>5, <1>6, <1>7, <1>8, <1>9 DEF IInv

\* What a commit adds to the histories is about accounts there are.
LEMMA SkewsSound ==
    ASSUME NEW j, j.change.of # None => j.change.of \in Account
    PROVE  Skews(j) \subseteq {"backdated", "rewritten", "moved"} \X Account
<1> DEFINE a == j.change.of
<1>1. CASE a = None
  BY <1>1 DEF Skews
<1>2. CASE a # None
  <2>1. InvestOf(j.seen) \subseteq Account /\ InvestOf(j.row) \subseteq Account
    BY LedgerAssumption DEF InvestOf
  <2>2. <<"backdated", a>> \in {"backdated", "rewritten", "moved"} \X Account
    BY <1>2
  <2>3. <<"rewritten", a>> \in {"backdated", "rewritten", "moved"} \X Account
    BY <1>2
  <2>4. {"moved"} \X (InvestOf(j.seen) \cup InvestOf(j.row)) \subseteq {"backdated", "rewritten", "moved"} \X Account
    BY <2>1
  <2> DEFINE late == {<<"backdated", a>> : s \in {s \in Trades(txn, a) : txn[s].day > j.row.day}}
             replay == Replay([txn EXCEPT ![j.txn] = j.row], a)
             rewritten == {<<"rewritten", a>> : s \in {s \in Trades(txn, a) \ {j.txn} :
                /\ txn[s].type = "invest_sell"
                /\ replay.costs[s] # BookedCost(txn[s], entry[s])}}
             moved == IF Place(j.seen) = Place(j.row) THEN {}
                      ELSE {"moved"} \X (InvestOf(j.seen) \cup InvestOf(j.row))
  <2>5. Skews(j) = IF j.seen = None THEN late ELSE rewritten \cup moved
    BY <1>2 DEF Skews
  <2>6. late \subseteq {<<"backdated", a>>} /\ rewritten \subseteq {<<"rewritten", a>>}
    OBVIOUS
  <2> HIDE DEF a, late, rewritten, moved
  <2>7. moved \subseteq {"backdated", "rewritten", "moved"} \X Account
    BY <2>4 DEF moved
  <2> QED
    BY <2>2, <2>3, <2>5, <2>6, <2>7
<1> QED
  BY <1>1, <1>2

LEMMA CommitTxnStep ==
    ASSUME IInv, NEW w \in Worker, CommitTxn(w)
    PROVE  IInv'
<1> DEFINE j   == job[w]
           t   == j.txn
           c   == j.change
           n   == IF j.seen = None THEN Cardinality({s \in Txn : txn[s] # None}) ELSE j.row.born
           row == [j.row EXCEPT !.born = n]
           kept == IF j.lines = Keep THEN entry[t] ELSE j.lines
           basis == [s \in DOMAIN c.basis \ {t} |-> c.basis[s]]
<1>1. /\ j.op = "commit"
      /\ j.seen = None => txn[t] = None
      /\ job' = [job EXCEPT ![w] = Idle]
      /\ txn' = [txn EXCEPT ![t] = row]
      /\ entry' = [entry EXCEPT ![t] = kept]
      /\ holding' = IF c.of = None THEN holding ELSE [holding EXCEPT ![c.of] = c.next]
      /\ open' = open \cup j.opened
      /\ overtaken' = overtaken \cup (IF txn[t] # j.seen THEN {t} ELSE {})
      /\ skewed' = skewed \cup Skews(j)
  BY DEF CommitTxn, Set
<1>2. crossed' = crossed \cup (Touches(j.lines) \ open')
        \cup (IF c.of # None /\ (c.was # holding[c.of] \/ basis # Basis(c.of, t)) THEN {c.of} ELSE {})
  BY DEF CommitTxn
<1>3. TypeOK /\ DOMAIN job = Worker /\ CommitSound(j) /\ Fitting(j) /\ EntriesBalance /\ EntryMatchesRow
  BY <1>1 DEF IInv, TypeOK, JobsAreSound, JobSound, LinesFit
<1>4. /\ t \in Txn /\ j.row \in Row /\ j.opened \subseteq Account
      /\ c.of # None => c.of \in Account /\ c.next \in Holding
      /\ j.seen # None => txn[t] # None
      /\ j.lines \notin {None, Keep} => j.lines \in Lines /\ Balanced(j.lines)
  BY <1>3 DEF CommitSound
<1>5. row \in Row /\ row # None /\ row.live = j.row.live /\ SameBooks(row, j.row)
  <2>1. n \in Nat
    <3>1. Cardinality({s \in Txn : txn[s] # None}) \in Nat
      BY FS_Subset, FS_CardinalityType, LedgerAssumption, SMTT(60)
    <3> QED
      BY <1>4, <3>1 DEF Row
  <2> HIDE DEF n
  <2>2. row \in Row
    BY <1>4, <2>1, RowWith
  <2>3. row.live = j.row.live /\ SameBooks(row, j.row)
    BY <1>4 DEF Row, SameBooks
  <2> QED
    BY <2>2, <2>3, ValueAssumption
<1>6. kept \in Lines \cup {None} /\ (kept # None => Balanced(kept))
  BY <1>3, <1>4 DEF TypeOK, EntriesBalance
<1> HIDE DEF row, kept, n
<1>7. /\ \A s \in Txn : txn'[s] = IF s = t THEN row ELSE txn[s]
      /\ \A s \in Txn : entry'[s] = IF s = t THEN kept ELSE entry[s]
      /\ \A v \in Worker : job'[v] = IF v = w THEN Idle ELSE job[v]
  BY <1>1, <1>3 DEF TypeOK
<1>8. \A v \in Worker : job'[v].op # "idle" => job'[v] = job[v] /\ v # w
  BY <1>7 DEF Idle
<1>9. TypeOK'
  <2>1. txn' \in [Txn -> Row \cup {None}] /\ entry' \in [Txn -> Lines \cup {None}]
    BY <1>1, <1>3, <1>5, <1>6 DEF TypeOK
  <2>2. holding' \in [Account -> Holding \cup {None}] /\ open' \subseteq Account
    BY <1>1, <1>3, <1>4 DEF TypeOK
  <2>3. DOMAIN job' = Worker /\ \A v \in Worker : job'[v].op \in {"idle", "update", "delete", "commit", "close"}
    BY <1>1, <1>3, <1>7 DEF TypeOK, Idle
  <2>4. overtaken' \subseteq Txn
    BY <1>1, <1>3, <1>4 DEF TypeOK
  <2>5. crossed' \subseteq Account
    <3>1. Touches(j.lines) \subseteq Account
      BY DEF Touches
    <3> QED
      BY <1>2, <1>3, <1>4, <3>1 DEF TypeOK
  <2>6. skewed' \subseteq {"backdated", "rewritten", "moved"} \X Account
    BY <1>1, <1>3, <1>4, SkewsSound DEF TypeOK
  <2> QED
    BY <2>1, <2>2, <2>3, <2>4, <2>5, <2>6 DEF TypeOK
<1>10. JobsAreSound'
  <2>1. SUFFICES ASSUME NEW v \in Worker PROVE JobSound(job[v])'
    BY DEF JobsAreSound
  <2>2. JobSound(job[v])
    BY DEF IInv, JobsAreSound
  <2>3. CASE job'[v] = job[v]
    <3>1. \A s \in Txn : txn[s] # None => txn'[s] # None
      BY <1>5, <1>7
    <3> QED
      BY <2>2, <2>3, <3>1 DEF JobSound, EditSound, CommitSound
  <2>4. CASE job'[v].op = "idle"
    BY <2>4 DEF JobSound
  <2> QED
    BY <1>8, <2>3, <2>4
<1>11. RowsAreLocked'
  BY <1>8 DEF IInv, RowsAreLocked, Commits
<1>12. LinesFit'
  <2>1. SUFFICES ASSUME NEW v \in Worker, job'[v].op = "commit" PROVE Fitting(job[v])'
    BY DEF LinesFit
  <2>2. PICK k : k = job'[v] /\ k = job[v] /\ Fitting(k) /\ v # w /\ k.op = "commit" /\ CommitSound(k)
    BY <1>8, <2>1 DEF IInv, LinesFit, JobsAreSound, JobSound
  <2>3. k.seen # None => txn'[k.txn] = txn[k.txn]
    <3>1. SUFFICES ASSUME k.seen # None, k.txn = t PROVE FALSE
      BY <1>7, <2>2 DEF CommitSound
    <3>2. Commits(v, t) /\ Commits(w, t)
      BY <1>1, <2>2, <3>1 DEF Commits
    <3> QED
      BY <1>4, <2>2, <3>1, <3>2 DEF IInv, RowsAreLocked
  <2> QED
    BY <2>2, <2>3 DEF Fitting, Books
<1>13. EntriesBalance'
  BY <1>3, <1>6, <1>7 DEF EntriesBalance
<1>14. EntryMatchesRow'
  <2>1. SUFFICES ASSUME NEW s \in Txn, s \notin overtaken'
                 PROVE  IF s \in Live(txn') THEN Books(txn'[s], entry'[s]) ELSE entry'[s] = None
    BY DEF EntryMatchesRow, Live, Books
  <2>2. s \notin overtaken /\ (s = t => txn[t] = j.seen)
    BY <1>1, <2>1
  <2>3. IF s \in Live(txn) THEN Books(txn[s], entry[s]) ELSE entry[s] = None
    BY <1>3, <2>2 DEF EntryMatchesRow
  <2>4. CASE s # t
    BY <1>7, <2>3, <2>4 DEF Live
  <2>5. CASE s = t
    <3>1. txn'[s] = row /\ entry'[s] = kept /\ (s \in Live(txn') <=> j.row.live)
      BY <1>5, <1>7, <2>5 DEF Live
    <3>2. ASSUME j.lines = None PROVE ~j.row.live /\ kept = None
      BY <1>3, <3>2, ValueAssumption DEF Fitting, kept
    <3>3. ASSUME j.lines # None PROVE j.row.live /\ Books(j.row, kept)
      <4>1. CASE j.lines = Keep
        <5>1. j.seen # None /\ txn[t] = j.seen /\ j.seen.live /\ SameBooks(j.row, j.seen)
          BY <1>3, <2>2, <2>5, <4>1 DEF Fitting
        <5>2. t \in Live(txn) /\ kept = entry[t] /\ txn[t] \in Row
          BY <1>3, <1>4, <4>1, <5>1 DEF Live, kept, TypeOK
        <5>3. Books(j.seen, kept) /\ j.seen \in Row
          BY <2>3, <2>5, <5>1, <5>2
        <5>4. Books(j.row, kept)
          BY <1>4, <5>1, <5>3, SameBooksSameEntry
        <5>5. j.row.live
          BY <1>3, <3>3, <5>1 DEF Fitting
        <5> QED
          BY <5>4, <5>5
      <4>2. CASE j.lines # Keep
        <5>1. Books(j.row, kept)
          BY <1>3, <3>3, <4>2 DEF Fitting, kept
        <5>2. j.row.live
          BY <1>3, <2>2, <2>5, <3>3 DEF Fitting
        <5> QED
          BY <5>1, <5>2
      <4> QED
        BY <4>1, <4>2
    <3>4. Books(j.row, kept) => Books(row, kept)
      BY <1>4, <1>5, SameBooksSameEntry
    <3> QED
      BY <3>1, <3>2, <3>3, <3>4
  <2> QED
    BY <2>4, <2>5
<1> QED
  BY <1>9, <1>10, <1>11, <1>12, <1>13, <1>14 DEF IInv

LEMMA Step == IInv /\ [Next]_vars => IInv'
<1> SUFFICES ASSUME IInv, [Next]_vars PROVE IInv'
  OBVIOUS
<1>1. ASSUME NEW w \in Worker, Work(w) PROVE IInv'
  <2>1. ASSUME NEW t \in DOMAIN Payload, NEW p \in Payload[t], BeginCreate(w, t, p) PROVE IInv'
    BY <2>1, BeginCreateStep
  <2>2. ASSUME NEW t \in DOMAIN Edit, NEW edit \in Edit[t], BeginUpdate(w, t, edit) PROVE IInv'
    BY <2>2, BeginUpdateStep
  <2>3. ASSUME NEW t \in Txn, BeginDelete(w, t) PROVE IInv'
    BY <2>3, BeginDeleteStep
  <2>4. CASE ApplyUpdate(w)
    BY <2>4, ApplyUpdateStep
  <2>5. CASE ApplyDelete(w)
    BY <2>5, ApplyDeleteStep
  <2>6. CASE CommitTxn(w)
    BY <2>6, CommitTxnStep
  <2>7. CASE Abort(w)
    BY <2>7, IdleStep DEF Abort
  <2>8. ASSUME NEW a \in Closing, BeginDeleteAccount(w, a) PROVE IInv'
    BY <2>8, BeginDeleteAccountStep
  <2>9. CASE CommitDeleteAccount(w)
    BY <2>9, CommitDeleteAccountStep
  <2> QED
    BY <1>1, <2>1, <2>2, <2>3, <2>4, <2>5, <2>6, <2>7, <2>8, <2>9 DEF Work
<1>2. CASE UNCHANGED vars
  <2> USE <1>2 DEF vars
  <2>1. TypeOK' /\ RowsAreLocked' /\ EntriesBalance' /\ EntryMatchesRow'
    BY DEF IInv, TypeOK, RowsAreLocked, Commits, EntriesBalance, EntryMatchesRow, Live, Books
  <2>2. JobsAreSound'
    BY DEF IInv, JobsAreSound, JobSound, EditSound, CommitSound
  <2>3. LinesFit'
    BY DEF IInv, LinesFit, Fitting, Books
  <2> QED
    BY <2>1, <2>2, <2>3 DEF IInv
<1> QED
  BY <1>1, <1>2 DEF Next

LEMMA Invariance == Spec => []IInv
<1>1. Init => IInv
  BY Initially
<1>2. IInv /\ [Next]_vars => IInv'
  BY Step
<1> QED
  BY <1>1, <1>2, PTL DEF Spec

\* The tables, the requests under way and the histories hold what they should.
THEOREM TypeCorrect == Spec => []TypeOK
<1>1. IInv => TypeOK
  BY DEF IInv
<1> QED
  BY <1>1, Invariance, PTL

\* Every journal entry balances, whoever wrote it and from whatever copy of the row, and
\* whatever a replay says that a sale cost (assertEntryInvariants never has to refuse one).
THEOREM Balances == Spec => []EntriesBalance
<1>1. IInv => EntriesBalance
  BY DEF IInv
<1> QED
  BY <1>1, Invariance, PTL

\* A transaction that no other request has overtaken has the entry its columns call for,
\* and none once it is deleted, however requests interleave, wait and fail.
THEOREM EntryIsOfRow == Spec => []EntryMatchesRow
<1>1. IInv => EntryMatchesRow
  BY DEF IInv
<1> QED
  BY <1>1, Invariance, PTL

===============================================================================
