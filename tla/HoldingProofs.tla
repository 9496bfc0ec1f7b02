------------------------------- MODULE HoldingProofs ------------------------------
(***************************************************************************)
(* Proofs about the holdings of Ledger: a holding has the shares its live  *)
(* trades brought and did not sell, and is their replay.                   *)
(***************************************************************************)
EXTENDS LedgerProofs

-------------------------------------------------------------------------------
(* Replays of the same trades                                              *)

\* Trades in the order of their rows: no two at the same time.
Ordered(rows, s) == \A t, u \in s : t # u => InOrder(rows, t, u) \/ InOrder(rows, u, t)

\* The columns a replay reads.
SameReplay(r, s) ==
    /\ r.type = s.type /\ r.qty = s.qty /\ r.amount = s.amount /\ r.day = s.day /\ r.born = s.born

\* Of ordered trades one is the last.
LEMMA LatestIs ==
    ASSUME NEW rows \in Rows, NEW s \in SUBSET Live(rows), Ordered(rows, s),
           NEW t \in s, \A u \in s : ~InOrder(rows, t, u)
    PROVE  LatestIn(rows, s) = t
<1> DEFINE P(x) == x \in s /\ \A u \in s : ~InOrder(rows, x, u)
<1>1. P(CHOOSE x : P(x))
  <2>1. P(t)
    OBVIOUS
  <2> HIDE DEF P
  <2> QED
    BY <2>1
<1> DEFINE l == LatestIn(rows, s)
<1>2. l \in s /\ \A u \in s : ~InOrder(rows, l, u)
  BY <1>1 DEF LatestIn
<1> HIDE DEF l, P
<1> QED
  BY <1>2 DEF Ordered, l

\* The order of some trades is in the columns that a replay reads.
LEMMA OrderAgrees ==
    ASSUME NEW old, NEW new, NEW t, NEW u, SameReplay(old[t], new[t]), SameReplay(old[u], new[u])
    PROVE  InOrder(old, t, u) <=> InOrder(new, t, u)
BY DEF SameReplay, InOrder

\* So replays of the same trades are the same.
LEMMA ReplaysAgree ==
    ASSUME NEW old \in Rows, NEW S \in SUBSET Live(old), NEW f, IsReplay(old, S, f),
           NEW new \in Rows, NEW T \in SUBSET Live(new), NEW g, IsReplay(new, T, g),
           NEW X \in SUBSET (S \cap T), Ordered(new, X),
           \A t \in X : SameReplay(old[t], new[t])
    PROVE  f[X] = g[X]
<1> DEFINE bad == {s \in SUBSET X : f[s] # g[s]}
<1>1. SUFFICES ASSUME bad # {} PROVE FALSE
  BY <1>1
<1>2. \A s \in bad : IsFiniteSet(s)
  <2>1. IsFiniteSet(X)
    BY FS_Subset, LedgerAssumption DEF Live
  <2> QED
    BY <2>1, FS_Subset
<1>3. PICK s \in bad : \A q \in bad : q \subseteq s => q = s
  <2> HIDE DEF bad
  <2> QED
    BY <1>1, <1>2, MinimalSet
<1>4. s \in SUBSET X /\ f[s] # g[s]
  BY <1>3
<1>5. s # {}
  BY <1>4 DEF IsReplay
<1> DEFINE t == LatestIn(new, s)
<1>6. t \in s /\ \A u \in s : ~InOrder(new, t, u)
  <2>1. s \in SUBSET Live(new)
    BY <1>4
  <2> QED
    BY <1>5, <2>1, LatestExists
<1> HIDE DEF t
<1>7. LatestIn(old, s) = t
  <2>1. s \in SUBSET Live(old) /\ s \subseteq X
    BY <1>4
  <2>2. Ordered(old, s)
    BY <2>1, OrderAgrees DEF Ordered
  <2>3. \A u \in s : ~InOrder(old, t, u)
    BY <1>6, <2>1, OrderAgrees
  <2> QED
    BY <1>6, <2>1, <2>2, <2>3, LatestIs
<1>8. s \in SUBSET S /\ s \in SUBSET T /\ s \ {t} \in SUBSET S /\ s \ {t} \in SUBSET X
  BY <1>4
<1>9. f[s] = ReplayStep(old, t, f[s \ {t}]) /\ g[s] = ReplayStep(new, t, g[s \ {t}])
  BY <1>5, <1>7, <1>8 DEF IsReplay, t
<1>10. f[s \ {t}] = g[s \ {t}]
  <2>1. s \ {t} \subseteq s /\ s \ {t} # s
    BY <1>6
  <2> QED
    BY <1>3, <1>8, <2>1
<1>11. SameReplay(old[t], new[t])
  BY <1>4, <1>6
<1>12. ReplayStep(old, t, f[s \ {t}]) = ReplayStep(new, t, g[s \ {t}])
  BY <1>10, <1>11 DEF ReplayStep, SameReplay
<1> QED
  BY <1>4, <1>9, <1>12

\* The replay of the trades of an account does not depend on where else they are from.
LEMMA ReplayAgrees ==
    ASSUME NEW old \in Rows, NEW new \in Rows, NEW a, Trades(old, a) = Trades(new, a),
           Ordered(new, Trades(new, a)),
           \A t \in Trades(new, a) : SameReplay(old[t], new[t])
    PROVE  Replay(old, a) = Replay(new, a)
<1> DEFINE S == Trades(old, a)
           T == Trades(new, a)
<1>1. S \in SUBSET Live(old) /\ T \in SUBSET Live(new) /\ S = T
  BY DEF Trades
<1>2. PICK f : IsReplay(old, S, f) /\ Replay(old, a) = f[S]
  BY ReplayRecursion
<1>3. PICK g : IsReplay(new, T, g) /\ Replay(new, a) = g[T]
  BY ReplayRecursion
<1>5. Ordered(new, T) /\ \A t \in T : SameReplay(old[t], new[t])
  OBVIOUS
<1> HIDE DEF S, T
<1>4. T \in SUBSET (S \cap T)
  BY <1>1
<1>6. f[T] = g[T]
  BY <1>1, <1>2, <1>3, <1>4, <1>5, ReplaysAgree
<1> QED
  BY <1>1, <1>2, <1>3, <1>6

\* The replay of some trades and a later one is one step longer.
LEMMA LaterTrade ==
    ASSUME NEW old \in Rows, NEW new \in Rows, NEW a, NEW t,
           t \notin Trades(old, a), Trades(new, a) = Trades(old, a) \cup {t},
           Ordered(new, Trades(new, a)),
           \A s \in Trades(old, a) : SameReplay(old[s], new[s]) /\ ~InOrder(new, t, s)
    PROVE  Replay(new, a) = ReplayStep(new, t, Replay(old, a))
<1> DEFINE S == Trades(old, a)
           T == Trades(new, a)
<1>1. S \in SUBSET Live(old) /\ T \in SUBSET Live(new) /\ t \in T /\ S = T \ {t} /\ T \in SUBSET T
  BY DEF Trades
<1>2. PICK f : IsReplay(old, S, f) /\ Replay(old, a) = f[S]
  BY ReplayRecursion
<1>3. PICK g : IsReplay(new, T, g) /\ Replay(new, a) = g[T]
  BY ReplayRecursion
<1>4. Ordered(new, T) /\ \A s \in S : SameReplay(old[s], new[s]) /\ ~InOrder(new, t, s)
  OBVIOUS
<1> HIDE DEF S, T
<1>5. LatestIn(new, T) = t
  <2>1. ~InOrder(new, t, t)
    <3>1. Day \subseteq Nat
      BY LedgerAssumption
    <3>2. new[t] \in Row
      BY <1>1 DEF Live, Rows
    <3>3. new[t].day \in Day /\ new[t].born \in Nat
      BY <3>2 DEF Row
    <3>4. new[t].day \in Nat
      BY <3>1, <3>3, Zenon
    <3> QED
      BY <3>3, <3>4 DEF InOrder
  <2> QED
    BY <1>1, <1>4, <2>1, LatestIs
<1>6. g[T] = ReplayStep(new, t, g[S])
  BY <1>1, <1>3, <1>5 DEF IsReplay
<1>7. f[S] = g[S]
  <2>1. S \in SUBSET (S \cap T) /\ Ordered(new, S)
    BY <1>1, <1>4 DEF Ordered
  <2> QED
    BY <1>1, <1>2, <1>3, <1>4, <2>1, ReplaysAgree
<1> QED
  BY <1>2, <1>3, <1>6, <1>7

-------------------------------------------------------------------------------
(* What replays add up to                                                  *)

SignedShares(row) == IF row.type = "invest_sell" THEN -row.qty ELSE row.qty
CostPart(row, cost) == IF row.type = "invest_sell" THEN -cost ELSE row.amount

\* A holding has the shares of some trades, and costs what they did.
AddsUp(rows, s, acc) ==
    /\ acc.held.qty = SumFunction([t \in s |-> SignedShares(rows[t])])
    /\ \A t \in s : rows[t].type = "invest_sell" => acc.costs[t] \in Nat
    /\ acc.held.cost = SumFunction([t \in s |-> CostPart(rows[t], acc.costs[t])])

\* A step of a replay adds the shares of its trade, and its cost, unless it fails, and
\* then the replay has failed.
LEMMA StepAddsUp ==
    ASSUME NEW rows \in Rows, NEW s \in SUBSET Live(rows),
           NEW t \in Live(rows), t \notin s, rows[t].qty # 0, NEW acc \in Replayed,
           ReplayStep(rows, t, acc).ok, acc.ok => AddsUp(rows, s, acc)
    PROVE  AddsUp(rows, s \cup {t}, ReplayStep(rows, t, acc))
<1> DEFINE new == ReplayStep(rows, t, acc)
           q == rows[t].qty
           m == rows[t].amount
           x == [u \in s |-> SignedShares(rows[u])]
           y == [u \in s \cup {t} |-> SignedShares(rows[u])]
           c == [u \in s |-> CostPart(rows[u], acc.costs[u])]
           d == [u \in s \cup {t} |-> CostPart(rows[u], new.costs[u])]
<1>0. ASSUME NEW f \in [s -> Int], NEW g \in [s \cup {t} -> Int], \A u \in s : g[u] = f[u]
      PROVE  SumFunction(g) = SumFunction(f) + g[t]
  <2>1. IsFiniteSet(s)
    BY FS_Subset, LedgerAssumption DEF Live
  <2>2. t \notin s
    OBVIOUS
  <2> HIDE DEF new, q, m, x, y, c, d
  <2> QED
    BY <1>0, <2>1, <2>2, SumOfOneMore
<1>1. \A u \in s \cup {t} : u \in Txn /\ rows[u].qty \in Nat /\ rows[u].amount \in Nat
  <2>1. \A u \in s \cup {t} : u \in Txn /\ rows[u] \in Row
    BY DEF Live, Rows
  <2> QED
    BY <2>1 DEF Row, Amount
<1>2. acc.held \in Holding /\ acc.costs \in [Txn -> Nat \cup {None}] /\ acc.held.qty \in Nat /\ acc.held.cost \in Nat
  BY DEF Replayed, Holding
<1>3. new \in Replayed
  BY ReplayStepSound
<1>4. acc.ok
  BY DEF ReplayStep, Replayed
<1>5. AddsUp(rows, s, acc)
  BY <1>4
<1>6. /\ acc.held.qty = SumFunction(x)
      /\ \A u \in s : rows[u].type = "invest_sell" => acc.costs[u] \in Nat
      /\ acc.held.cost = SumFunction(c)
  BY <1>5 DEF AddsUp
<1>7. x \in [s -> Int] /\ y \in [s \cup {t} -> Int] /\ \A u \in s : y[u] = x[u]
  BY <1>1 DEF SignedShares
<1>8. SumFunction(y) = SumFunction(x) + y[t]
  <2>1. x \in [s -> Int]
    BY <1>7
  <2>2. y \in [s \cup {t} -> Int] /\ \A u \in s : y[u] = x[u]
    BY <1>7
  <2> HIDE DEF x, y
  <2> QED
    BY <1>0, <2>1, <2>2
<1>9. c \in [s -> Int]
  BY <1>1, <1>6 DEF CostPart
<1>10. CASE rows[t].type # "invest_sell"
  <2>1. new.held = ApplyBuy(acc.held, q, m) /\ new.costs = acc.costs
    BY <1>10 DEF ReplayStep, Replayed
  <2>2. new.held.qty = acc.held.qty + q /\ new.held.cost = acc.held.cost + m
    BY <2>1 DEF ApplyBuy
  <2>3. y[t] = q /\ d[t] = m
    BY <1>10 DEF SignedShares, CostPart
  <2>4. d \in [s \cup {t} -> Int] /\ \A u \in s : d[u] = c[u]
    BY <1>1, <1>6, <1>10, <2>1 DEF CostPart
  <2>5. SumFunction(d) = SumFunction(c) + d[t]
    <3> HIDE DEF c, d
    <3> QED
      BY <1>0, <1>9, <2>4
  <2>6. \A u \in s \cup {t} : rows[u].type = "invest_sell" => new.costs[u] \in Nat
    BY <1>6, <1>10, <2>1
  <2>7. new.held.qty = SumFunction(y) /\ new.held.cost = SumFunction(d)
    BY <1>6, <1>8, <2>2, <2>3, <2>5
  <2> QED
    BY <2>6, <2>7 DEF AddsUp
<1>11. CASE rows[t].type = "invest_sell"
  <2> DEFINE k == CostOf(acc.held, q)
  <2>1. q <= acc.held.qty /\ new.held = ApplySell(acc.held, q) /\ new.costs = [acc.costs EXCEPT ![t] = k]
    <3>1. ~(~acc.ok \/ q > acc.held.qty)
      BY <1>4, <1>11 DEF ReplayStep, Replayed
    <3>2. q <= acc.held.qty
      BY <1>1, <1>2, <3>1
    <3> QED
      BY <1>11, <3>1, <3>2 DEF ReplayStep, Replayed
  <2>2. k \in Nat
    <3>1. 0 < q
      BY <1>1
    <3> QED
      BY <1>1, <1>2, <2>1, <3>1, TradesSound
  <2>3. new.held.qty = acc.held.qty - q /\ new.held.cost = acc.held.cost - k
    BY <2>1 DEF ApplySell
  <2> HIDE DEF k
  <2>4. new.costs[t] = k /\ \A u \in s : new.costs[u] = acc.costs[u]
    BY <1>1, <1>2, <2>1
  <2>5. y[t] = -q /\ d[t] = -k
    BY <1>11, <2>4 DEF SignedShares, CostPart
  <2>6. d \in [s \cup {t} -> Int] /\ \A u \in s : d[u] = c[u]
    BY <1>1, <1>6, <1>11, <2>2, <2>4 DEF CostPart
  <2>7. SumFunction(d) = SumFunction(c) + d[t]
    <3> HIDE DEF c, d
    <3> QED
      BY <1>0, <1>9, <2>6
  <2>8. \A u \in s \cup {t} : rows[u].type = "invest_sell" => new.costs[u] \in Nat
    BY <1>6, <2>2, <2>4
  <2>9. new.held.qty = SumFunction(y) /\ new.held.cost = SumFunction(d)
    BY <1>1, <1>2, <1>6, <1>8, <2>2, <2>3, <2>5, <2>7
  <2> QED
    BY <2>8, <2>9 DEF AddsUp
<1> QED
  BY <1>10, <1>11

\* A replay that does not fail gives the holding that its trades add up to.
LEMMA ReplayAddsUp ==
    ASSUME NEW rows \in Rows, NEW a, Replay(rows, a).ok
    PROVE  AddsUp(rows, Trades(rows, a), Replay(rows, a))
<1> DEFINE S == Trades(rows, a)
<1>1. PICK r : IsReplay(rows, S, r) /\ Replay(rows, a) = r[S]
  BY ReplayRecursion
<1>2. S \in SUBSET Live(rows) /\ IsFiniteSet(S) /\ \A t \in S : rows[t].qty # 0
  BY FS_Subset, LedgerAssumption DEF Trades, Live
<1> HIDE DEF S
<1> DEFINE bad == {s \in SUBSET S : r[s].ok /\ ~AddsUp(rows, s, r[s])}
<1>3. SUFFICES ASSUME bad # {} PROVE FALSE
  BY <1>1 DEF S
<1>4. \A s \in bad : IsFiniteSet(s)
  BY <1>2, FS_Subset
<1>5. PICK s \in bad : \A q \in bad : q \subseteq s => q = s
  <2> HIDE DEF bad
  <2> QED
    BY <1>3, <1>4, MinimalSet
<1>6. s \in SUBSET S /\ r[s].ok /\ ~AddsUp(rows, s, r[s])
  BY <1>5
<1>7. CASE s = {}
  <2>1. r[s] = Start
    BY <1>1, <1>6, <1>7 DEF IsReplay
  <2> DEFINE f == [t \in s |-> SignedShares(rows[t])]
             c == [t \in s |-> CostPart(rows[t], r[s].costs[t])]
  <2>2. f \in [{} -> Int] /\ c \in [{} -> Int]
    BY <1>7
  <2>3. SumFunction(f) = 0 /\ SumFunction(c) = 0
    <3> HIDE DEF f, c
    <3> QED
      BY <2>2, SumOfNone
  <2>4. r[s].held.qty = 0 /\ r[s].held.cost = 0
    BY <2>1 DEF Start, NoHolding
  <2> QED
    BY <1>6, <1>7, <2>3, <2>4 DEF AddsUp
<1>8. CASE s # {}
  <2> DEFINE t == LatestIn(rows, s)
             b == s \ {t}
  <2>1. t \in s /\ r[s] = ReplayStep(rows, t, r[b])
    BY <1>1, <1>2, <1>6, <1>8, LatestExists DEF IsReplay
  <2> HIDE DEF t
  <2>2. b \in SUBSET S /\ b \in SUBSET Live(rows) /\ t \in Live(rows) /\ t \notin b /\ s = b \cup {t} /\ rows[t].qty # 0
    BY <1>2, <1>6, <2>1
  <2>3. b \notin bad
    BY <1>5, <2>1, <2>2
  <2>4. r[b].ok => AddsUp(rows, b, r[b])
    BY <2>2, <2>3
  <2>5. r[b] \in Replayed
    BY <1>1, <2>2 DEF IsReplay
  <2> HIDE DEF b, bad
  <2>6. AddsUp(rows, b \cup {t}, ReplayStep(rows, t, r[b]))
    BY <1>6, <2>1, <2>2, <2>4, <2>5, StepAddsUp
  <2> QED
    BY <1>6, <2>1, <2>2, <2>6
<1> QED
  BY <1>7, <1>8

-------------------------------------------------------------------------------
(* Holdings that fit some trades                                           *)

SharesFit(rows, held, a) ==
    held.qty = SumFunction([t \in Trades(rows, a) |-> SignedShares(rows[t])])
ReplayFits(rows, held, a) == Replay(rows, a).ok /\ Replay(rows, a).held = held

\* A holding after one more trade.
AfterTrade(row, held) ==
    IF row.type = "invest_sell" THEN ApplySell(held, row.qty) ELSE ApplyBuy(held, row.qty, row.amount)

\* A holding fits the same trades in other rows.
LEMMA SameTradesFit ==
    ASSUME NEW old \in Rows, NEW new \in Rows, NEW a, NEW held, Trades(old, a) = Trades(new, a),
           Ordered(new, Trades(new, a)),
           \A t \in Trades(new, a) : SameReplay(old[t], new[t])
    PROVE  /\ SharesFit(old, held, a) => SharesFit(new, held, a)
           /\ ReplayFits(old, held, a) => ReplayFits(new, held, a)
<1>1. Replay(old, a) = Replay(new, a)
  BY ReplayAgrees
<1>2. [t \in Trades(old, a) |-> SignedShares(old[t])] = [t \in Trades(new, a) |-> SignedShares(new[t])]
  BY DEF SignedShares, SameReplay
<1> QED
  BY <1>1, <1>2 DEF SharesFit, ReplayFits

\* With one more trade it fits when it is changed by it, if that trade is the last.
LEMMA NewTradeFits ==
    ASSUME NEW old \in Rows, NEW new \in Rows, NEW a, NEW t, NEW held \in Holding,
           t \notin Trades(old, a), Trades(new, a) = Trades(old, a) \cup {t},
           Ordered(new, Trades(new, a)),
           \A s \in Trades(old, a) : SameReplay(old[s], new[s]),
           EnoughToSell(new[t], held), NEW next, next = AfterTrade(new[t], held)
    PROVE  /\ SharesFit(old, held, a) => SharesFit(new, next, a)
           /\ ReplayFits(old, held, a) /\ (\A s \in Trades(old, a) : ~InOrder(new, t, s)) =>
                ReplayFits(new, next, a)
<1> DEFINE S == Trades(old, a)
           x == [u \in S |-> SignedShares(old[u])]
           y == [u \in S \cup {t} |-> SignedShares(new[u])]
<1>1. S \in SUBSET Live(old) /\ S \cup {t} \in SUBSET Live(new) /\ t \in Live(new) /\ IsFiniteSet(S)
  <2>1. S \in SUBSET Live(old) /\ S \cup {t} \in SUBSET Live(new)
    BY DEF Trades
  <2> QED
    BY <2>1, FS_Subset, LedgerAssumption DEF Live
<1>2. /\ \A u \in S : old[u].qty \in Nat
      /\ \A u \in S \cup {t} : new[u].qty \in Nat /\ new[u].amount \in Nat
  BY <1>1 DEF Live, Rows, Row, Amount
<1>3. held.qty \in Nat
  BY DEF Holding
<1>4. x \in [S -> Int]
  BY <1>2 DEF SignedShares
<1>5. y \in [S \cup {t} -> Int]
  BY <1>2 DEF SignedShares
<1>6. \A u \in S : y[u] = x[u]
  BY DEF SignedShares, SameReplay
<1>7. SumFunction(y) = SumFunction(x) + y[t]
  <2>1. t \notin S
    OBVIOUS
  <2> HIDE DEF x, y, S
  <2> QED
    BY <1>1, <1>4, <1>5, <1>6, <2>1, SumOfOneMore
<1>8. next.qty = held.qty + y[t]
  BY <1>2, <1>3 DEF AfterTrade, ApplySell, ApplyBuy, SignedShares
<1>9. SharesFit(old, held, a) => SharesFit(new, next, a)
  <2>1. SharesFit(old, held, a) <=> held.qty = SumFunction(x)
    BY DEF SharesFit
  <2>2. SharesFit(new, next, a) <=> next.qty = SumFunction(y)
    BY DEF SharesFit
  <2> QED
    BY <1>7, <1>8, <2>1, <2>2
<1>10. ASSUME ReplayFits(old, held, a), \A s \in S : ~InOrder(new, t, s)
       PROVE  ReplayFits(new, next, a)
  <2>1. Replay(new, a) = ReplayStep(new, t, Replay(old, a))
    BY <1>10, LaterTrade
  <2>2. Replay(old, a) \in Replayed
    BY ReplaySound
  <2>3. PICK acc \in Replayed : acc = Replay(old, a) /\ acc.ok /\ acc.held = held
    BY <1>10, <2>2 DEF ReplayFits
  <2>4. ReplayStep(new, t, acc).ok /\ ReplayStep(new, t, acc).held = next
    BY <1>2, <1>3, <2>3 DEF AfterTrade, ReplayStep, Replayed, EnoughToSell
  <2> QED
    BY <2>1, <2>3, <2>4 DEF ReplayFits
<1> QED
  BY <1>9, <1>10

\* And their replay fits any trades, if it does not fail.
LEMMA ReplayFitsItself ==
    ASSUME NEW rows \in Rows, NEW a, Replay(rows, a).ok
    PROVE  SharesFit(rows, Replay(rows, a).held, a) /\ ReplayFits(rows, Replay(rows, a).held, a)
BY ReplayAddsUp DEF AddsUp, SharesFit, ReplayFits

\* Trades of rows that were not born together are ordered.
LEMMA OrderedByBirth ==
    ASSUME NEW rows \in Rows, NEW s \in SUBSET Live(rows),
           \A t, u \in s : t # u => rows[t].born # rows[u].born
    PROVE  Ordered(rows, s)
<1>1. \A t \in s : rows[t].day \in Nat /\ rows[t].born \in Nat
  <2>1. SUFFICES ASSUME NEW t \in s PROVE rows[t].day \in Nat /\ rows[t].born \in Nat
    OBVIOUS
  <2>2. rows[t] \in Row
    BY DEF Live, Rows
  <2>3. rows[t].day \in Day /\ rows[t].born \in Nat
    BY <2>2 DEF Row
  <2>4. Day \subseteq Nat
    BY LedgerAssumption
  <2> QED
    BY <2>3, <2>4
<1> QED
  BY <1>1 DEF Ordered, InOrder

\* The rows a request has read, without the others ...
Based(basis) == [t \in Txn |-> IF t \in DOMAIN basis THEN basis[t] ELSE None]

\* ... are enough to replay the trades of an account.
LEMMA BasisSound ==
    ASSUME NEW rows \in Rows, NEW a, Ordered(rows, Trades(rows, a)),
           NEW b, b = [t \in Trades(rows, a) |-> rows[t]]
    PROVE  /\ Based(b) \in Rows
           /\ Trades(Based(b), a) = Trades(rows, a)
           /\ Replay(Based(b), a) = Replay(rows, a)
<1>1. DOMAIN b = Trades(rows, a) /\ Trades(rows, a) \subseteq Txn
  BY DEF Trades, Live
<1>2. \A t \in Trades(rows, a) : Based(b)[t] = rows[t] /\ rows[t] \in Row
  BY <1>1 DEF Based, Trades, Live, Rows
<1>3. \A t \in Txn \ Trades(rows, a) : Based(b)[t] = None
  BY <1>1 DEF Based
<1>4. Based(b) \in Rows
  <2>1. \A t \in Txn : Based(b)[t] \in Row \cup {None}
    BY <1>2, <1>3
  <2>2. Based(b) = [t \in Txn |-> Based(b)[t]]
    BY DEF Based
  <2> QED
    BY <2>1, <2>2 DEF Rows
<1>5. Trades(Based(b), a) = Trades(rows, a)
  BY <1>1, <1>2, <1>3 DEF Trades, Live
<1>6. \A t \in Trades(rows, a) : SameReplay(Based(b)[t], rows[t])
  BY <1>2 DEF SameReplay
<1> QED
  BY <1>4, <1>5, <1>6, ReplayAgrees

-------------------------------------------------------------------------------
(* The inductive invariant                                                 *)

\* The transactions there are, and those a row stands for: columns no edit changes.
Existing == {t \in Txn : txn[t] # None}
SameTrade(r, s) == r.type = s.type /\ r.qty = s.qty /\ r.born = s.born

Moved(a) == <<"moved", a>> \in skewed
SomeMoved == \E a \in Invest : Moved(a)

\* A trade is one of the investment account whose holding it changes, and of no other,
\* unless it was taken from or to one: is it known that it was, or will it be?
AtHome(row, moves) ==
    row.qty # 0 =>
        /\ HoldingOf(row) # None
        /\ \A a \in InvestOf(row) : HoldingOf(row) = a \/ Moved(a) \/ moves
        /\ HoldingOf(row) \in Invest \/ SomeMoved \/ moves

\* The order of trades is that of their rows, no two of which were born together.
RowKnown(row) ==
    /\ row.qty # 0 => row.type \in Trade
    /\ AtHome(row, FALSE)
    /\ row.born < Cardinality(Existing)
RowsAreKnown ==
    /\ overtaken \subseteq Existing
    /\ \A t \in Existing : RowKnown(txn[t])
    /\ \A t, u \in Existing : t # u => txn[t].born # txn[u].born

\* The copy that was read is of the trade that is there, and if that has been taken to
\* another account since, it is known.
AllMoved(r, s) == \A a \in InvestOf(r) \cup InvestOf(s) : Moved(a)
Linked(r, s) == Place(r) = Place(s) \/ AllMoved(r, s)
SeenKnown(j) ==
    /\ SameTrade(j.seen, txn[j.txn])
    /\ AtHome(j.seen, FALSE)
    /\ j.seen.qty # 0 => Linked(j.seen, txn[j.txn])

\* What a request that creates a trade makes of the holding it read.
Opening(held) == IF held = None THEN NoHolding ELSE held
NewKnown(j) ==
    LET c == j.change
        held == Opening(c.was)
    IN /\ j.row.qty # 0 => j.row.type \in Trade /\ InvestOf(j.row) = {HoldingOf(j.row)}
       /\ c.of = HoldingOf(j.row)
       /\ c.of # None =>
            /\ EnoughToSell(j.row, held)
            /\ c.next = AfterTrade(j.row, held)

\* What any other has replayed: the trades it read, its own row among them, which
\* never sell what is not there.
BasisKnown(j) ==
    LET c == j.change
        rows == Based(c.basis)
        replay == Replay(rows, c.of)
    IN /\ rows \in Rows
       /\ DOMAIN c.basis = Trades(rows, c.of)
       /\ j.txn \in DOMAIN c.basis <=> j.row.live /\ c.of \in {j.row.from, j.row.to}
       /\ j.txn \in DOMAIN c.basis => c.basis[j.txn] = j.row
       /\ replay.ok
       /\ c.next = replay.held

WillMove(j) == Place(j.row) # Place(j.seen) /\ j.change.of # None
ChangeKnown(j) ==
    LET c == j.change IN
    /\ SameTrade(j.row, j.seen)
    /\ AtHome(j.row, WillMove(j))
    /\ j.row.qty # 0 => WillMove(j) \/ Linked(j.seen, j.row)
    /\ c.of = None /\ j.row.qty # 0 =>
        /\ SameBooks(j.row, j.seen)
        /\ j.row.day = j.seen.day
        /\ j.row.live = txn[j.txn].live
    /\ c.of # None =>
        /\ j.row.qty # 0
        /\ c.of = HoldingOf(j.row) \/ (~j.row.live /\ c.of = HoldingOf(j.seen))
        /\ BasisKnown(j)

JobKnown(j) ==
    /\ j.op \in {"update", "delete", "commit"} => j.seen = None \/ SeenKnown(j)
    /\ j.op = "commit" => IF j.seen = None THEN NewKnown(j) ELSE ChangeKnown(j)
JobsAreKnown == \A w \in Worker : JobKnown(job[w])

HInv == IInv /\ RowsAreKnown /\ JobsAreKnown /\ HoldingIsReplay

\* What HoldingIsReplay says of one account.
Late(a) == <<"backdated", a>> \in skewed
HoldingFits(a) ==
    Undisturbed(a) /\ ~Moved(a) =>
        /\ SharesFit(txn, Held(a), a)
        /\ ~Late(a) => ReplayFits(txn, Held(a), a)

\* HoldingIsReplay, before a step and after it.
LEMMA HoldingRestated ==
    /\ HoldingIsReplay <=> \A a \in Invest : HoldingFits(a)
    /\ HoldingIsReplay' <=> \A a \in Invest : HoldingFits(a)'
<1> USE DEF HoldingIsReplay, HoldingFits, Late, Moved, SharesFit, ReplayFits, Shares, SignedShares
<1>1. HoldingIsReplay <=> \A a \in Invest : HoldingFits(a)
  OBVIOUS
<1>2. HoldingIsReplay' <=> \A a \in Invest : HoldingFits(a)'
  OBVIOUS
<1> QED
  BY <1>1, <1>2

\* There are no trades at first, and no holdings.
LEMMA KnownInitially == Init => HInv
<1> SUFFICES ASSUME Init PROVE HInv
  OBVIOUS
<1>1. IInv
  BY Initially
<1>2. RowsAreKnown
  BY DEF Init, RowsAreKnown, Existing
<1>3. JobsAreKnown
  BY DEF Init, JobsAreKnown, JobKnown, Idle
<1>4. ASSUME NEW a \in Invest PROVE HoldingFits(a)
  <2>1. txn \in Rows /\ Trades(txn, a) = {} /\ Held(a) = NoHolding
    <3>1. a \in Account
      BY LedgerAssumption
    <3> QED
      BY <1>1, <3>1 DEF Init, Rows, Trades, Live, Held
  <2>2. PICK r : IsReplay(txn, Trades(txn, a), r) /\ Replay(txn, a) = r[Trades(txn, a)]
    BY <2>1, ReplayRecursion
  <2>3. Replay(txn, a) = Start
    BY <2>1, <2>2 DEF IsReplay
  <2>4. ReplayFits(txn, Held(a), a)
    BY <2>1, <2>3 DEF ReplayFits, Start
  <2>5. SharesFit(txn, Held(a), a)
    <3>1. Replay(txn, a).ok /\ Replay(txn, a).held = Held(a)
      BY <2>4 DEF ReplayFits
    <3> QED
      BY <2>1, <3>1, ReplayFitsItself
  <2> QED
    BY <2>4, <2>5 DEF HoldingFits
<1> QED
  BY <1>1, <1>2, <1>3, <1>4, HoldingRestated DEF HInv

\* What is known of a request stays known as long as the rows stay.
LEMMA JobStaysKnown ==
    ASSUME UNCHANGED <<txn, skewed>>, NEW j, JobKnown(j)
    PROVE  JobKnown(j)'
<1> USE DEF JobKnown, SeenKnown, NewKnown, ChangeKnown, AtHome, Linked, AllMoved, SomeMoved, Moved
<1> QED
  BY DEF BasisKnown

\* So do holdings that are left alone.
LEMMA HoldingsStay ==
    ASSUME UNCHANGED <<txn, holding, overtaken, skewed>>, crossed \subseteq crossed', HoldingIsReplay
    PROVE  HoldingIsReplay'
<1>1. \A a \in Invest : HoldingFits(a)
  BY HoldingRestated
<1>2. \A a \in Invest : HoldingFits(a)'
  BY <1>1 DEF HoldingFits, Undisturbed, Moved, Late, Held
<1> QED
  BY <1>2, HoldingRestated

\* A step that only changes what one request has read and computed, or that ends an
\* account.
LEMMA KnownJobStep ==
    ASSUME HInv, NEW w \in Worker, NEW j, job' = [job EXCEPT ![w] = j], JobKnown(j),
           UNCHANGED <<txn, holding, overtaken, skewed>>, crossed \subseteq crossed'
    PROVE  RowsAreKnown' /\ JobsAreKnown' /\ HoldingIsReplay'
<1>1. DOMAIN job = Worker
  BY DEF HInv, IInv, TypeOK
<1>2. JobsAreKnown'
  <2>1. JobKnown(j)'
    BY JobStaysKnown
  <2>2. ASSUME NEW v \in Worker, v # w PROVE JobKnown(job[v])'
    <3>1. PICK k : k = job[v] /\ JobKnown(k)
      BY DEF HInv, JobsAreKnown
    <3>2. JobKnown(k)'
      BY <3>1, JobStaysKnown
    <3>3. job'[v] = k
      BY <1>1, <2>2, <3>1
    <3> QED
      BY <3>2, <3>3
  <2>3. job'[w] = j
    BY <1>1
  <2>4. ASSUME NEW v \in Worker PROVE JobKnown(job[v])'
    <3>1. CASE v = w
      BY <2>1, <2>3, <3>1
    <3> QED
      BY <2>2, <3>1
  <2> QED
    BY <2>4 DEF JobsAreKnown
<1>3. RowsAreKnown'
  BY DEF HInv, RowsAreKnown, RowKnown, AtHome, SomeMoved, Moved, Existing
<1> QED
  BY <1>2, <1>3, HoldingsStay DEF HInv

\* A request that is done.
LEMMA KnownIdleStep ==
    ASSUME HInv, NEW w \in Worker, Set(w, Idle),
           UNCHANGED <<txn, holding, overtaken, skewed>>, crossed \subseteq crossed'
    PROVE  RowsAreKnown' /\ JobsAreKnown' /\ HoldingIsReplay'
<1>1. PICK j : j = Idle
  OBVIOUS
<1>2. JobKnown(j)
  BY <1>1 DEF JobKnown, Idle
<1>3. job' = [job EXCEPT ![w] = j]
  BY <1>1 DEF Set
<1> QED
  BY <1>2, <1>3, KnownJobStep

-------------------------------------------------------------------------------
(* The steps                                                               *)

\* A new trade is one of its investment account.
LEMMA NewRowIsAtHome ==
    ASSUME NEW t \in DOMAIN Payload, NEW p \in Payload[t]
    PROVE  NewRow(p).qty # 0 =>
             NewRow(p).type \in Trade /\ InvestOf(NewRow(p)) = {HoldingOf(NewRow(p))}
<1> SUFFICES ASSUME NewRow(p).qty # 0
             PROVE  NewRow(p).type \in Trade /\ InvestOf(NewRow(p)) = {HoldingOf(NewRow(p))}
  OBVIOUS
<1> DEFINE row == NewRow(p)
           a == p.inv
<1>1. p \in Request
  BY RequestAssumption
<1>2. row.type = p.type /\ p.type \in Trade /\ a # None
  BY DEF NewRow
<1>3. a \in Invest /\ Settlement[a] \in Account \ Invest /\ Equity \notin Invest
  <2>1. a \in Invest
    BY <1>1, <1>2 DEF Request
  <2> QED
    BY <2>1, LedgerAssumption
<1>4. row.from = Resolved(p).from /\ row.to = Resolved(p).to
  BY DEF NewRow
<1>5. "from" \in DOMAIN p /\ "to" \in DOMAIN p
  BY <1>1 DEF Request
<1>6. CASE p.type = "invest_buy"
  <2>1. Resolved(p) = [p EXCEPT !.from = Settlement[a], !.to = a]
    BY <1>2, <1>6 DEF Resolved
  <2>2. row.from = Settlement[a] /\ row.to = a
    BY <1>4, <1>5, <2>1
  <2> QED
    BY <1>2, <1>3, <1>6, <2>2 DEF InvestOf, HoldingOf
<1>7. CASE p.type = "invest_sell"
  <2>1. Resolved(p) = [p EXCEPT !.from = a, !.to = Settlement[a]]
    BY <1>2, <1>7 DEF Resolved
  <2>2. row.from = a /\ row.to = Settlement[a]
    BY <1>4, <1>5, <2>1
  <2> QED
    BY <1>2, <1>3, <1>7, <2>2 DEF InvestOf, HoldingOf
<1>8. CASE p.type = "adjustment"
  <2>1. Resolved(p) = [p EXCEPT !.from = Equity, !.to = a]
    BY <1>2, <1>8 DEF Resolved
  <2>2. row.from = Equity /\ row.to = a
    BY <1>4, <1>5, <2>1
  <2> QED
    BY <1>2, <1>3, <1>8, <2>2 DEF InvestOf, HoldingOf
<1> QED
  BY <1>2, <1>6, <1>7, <1>8 DEF Trade

LEMMA BeginCreateKnown ==
    ASSUME HInv, NEW w \in Worker, NEW t \in DOMAIN Payload, NEW p \in Payload[t],
           BeginCreate(w, t, p)
    PROVE  RowsAreKnown' /\ JobsAreKnown' /\ HoldingIsReplay'
<1> DEFINE row  == NewRow(p)
           a    == HoldingOf(row)
           held == IF a = None \/ holding[a] = None THEN NoHolding ELSE holding[a]
           cost == IF a # None /\ row.type = "invest_sell" THEN CostOf(held, row.qty) ELSE row.amount
           next == IF row.type = "invest_sell" THEN ApplySell(held, row.qty)
                   ELSE ApplyBuy(held, row.qty, row.amount)
           change == IF a = None THEN NoChange ELSE HoldingChange(txn, a, next)
           lines == BuildPosting(row, cost)
<1>1. /\ a # None => EnoughToSell(row, held)
      /\ job' = [job EXCEPT ![w] = [Ready(t, None, row, lines, change) EXCEPT !.opened = Opened(row)]]
      /\ UNCHANGED <<tables, history>>
  BY DEF BeginCreate, Set
<1>2. row.qty # 0 => row.type \in Trade /\ InvestOf(row) = {a}
  BY NewRowIsAtHome
<1> HIDE DEF row, lines
<1>3. a # None => change.of = a /\ held = Opening(change.was) /\ change.next = next
  BY DEF HoldingChange, Opening
<1>4. a = None => change.of = None
  BY DEF NoChange
<1> HIDE DEF change, held, a
<1>5. PICK j : j = [Ready(t, None, row, lines, change) EXCEPT !.opened = Opened(row)]
  OBVIOUS
<1>6. j.op = "commit" /\ j.seen = None /\ j.row = row /\ j.change = change
  BY <1>5 DEF Ready
<1>7. NewKnown(j)
  BY <1>1, <1>2, <1>3, <1>4, <1>6 DEF NewKnown, AfterTrade, a
<1>8. JobKnown(j)
  BY <1>6, <1>7 DEF JobKnown
<1> QED
  BY <1>1, <1>5, <1>8, KnownJobStep DEF tables, history

\* What a request that changes a row has read is what is there.
LEMMA ReadKnown ==
    ASSUME HInv, NEW t \in Live(txn), NEW j, j.txn = t, j.seen = txn[t], j.op \in {"update", "delete"}
    PROVE  JobKnown(j)
<1>1. t \in Existing
  BY DEF Live, Existing
<1>2. SeenKnown(j)
  BY <1>1 DEF HInv, RowsAreKnown, RowKnown, SeenKnown, SameTrade, Linked
<1> QED
  BY <1>2 DEF JobKnown

LEMMA BeginUpdateKnown ==
    ASSUME HInv, NEW w \in Worker, NEW t \in DOMAIN Edit, NEW edit \in Edit[t],
           BeginUpdate(w, t, edit)
    PROVE  RowsAreKnown' /\ JobsAreKnown' /\ HoldingIsReplay'
<1>1. PICK j : j = [op |-> "update", txn |-> t, seen |-> txn[t], edit |-> edit]
  OBVIOUS
<1>2. t \in Live(txn) /\ job' = [job EXCEPT ![w] = j] /\ UNCHANGED <<tables, history>>
  BY <1>1 DEF BeginUpdate, Set
<1>3. JobKnown(j)
  BY <1>1, <1>2, ReadKnown
<1> QED
  BY <1>2, <1>3, KnownJobStep DEF tables, history

LEMMA BeginDeleteKnown ==
    ASSUME HInv, NEW w \in Worker, NEW t \in Txn, BeginDelete(w, t)
    PROVE  RowsAreKnown' /\ JobsAreKnown' /\ HoldingIsReplay'
<1>1. PICK j : j = [op |-> "delete", txn |-> t, seen |-> txn[t]]
  OBVIOUS
<1>2. t \in Live(txn) /\ job' = [job EXCEPT ![w] = j] /\ UNCHANGED <<tables, history>>
  BY <1>1 DEF BeginDelete, Set
<1>3. JobKnown(j)
  BY <1>1, <1>2, ReadKnown
<1> QED
  BY <1>2, <1>3, KnownJobStep DEF tables, history

LEMMA BeginDeleteAccountKnown ==
    ASSUME HInv, NEW w \in Worker, NEW a \in Closing, BeginDeleteAccount(w, a)
    PROVE  RowsAreKnown' /\ JobsAreKnown' /\ HoldingIsReplay'
<1>1. PICK j : j = [op |-> "close", account |-> a, used |-> Used(a)]
  OBVIOUS
<1>2. job' = [job EXCEPT ![w] = j] /\ UNCHANGED <<tables, history>>
  BY <1>1 DEF BeginDeleteAccount, Set
<1>3. JobKnown(j)
  BY <1>1 DEF JobKnown
<1> QED
  BY <1>2, <1>3, KnownJobStep DEF tables, history

LEMMA CommitDeleteAccountKnown ==
    ASSUME HInv, NEW w \in Worker, CommitDeleteAccount(w)
    PROVE  RowsAreKnown' /\ JobsAreKnown' /\ HoldingIsReplay'
<1>1. Set(w, Idle) /\ UNCHANGED <<txn, holding, overtaken, skewed>> /\ crossed \subseteq crossed'
  BY DEF CommitDeleteAccount
<1> QED
  BY <1>1, KnownIdleStep

\* An edit changes neither the type nor the shares of a trade, nor its place in the order.
LEMMA PatchedIsSameTrade ==
    ASSUME NEW seen \in Row, NEW edit, IsEdit(edit)
    PROVE  /\ SameTrade(Patched(seen, edit), seen)
           /\ {"type", "qty", "born", "live"} \subseteq DOMAIN Patched(seen, edit)
<1>1. \A f \in {"type", "qty", "born"} : f \notin DOMAIN edit
  BY DEF IsEdit, Column
<1>2. {"type", "qty", "born", "live"} \subseteq DOMAIN seen
  BY DEF Row
<1> DEFINE new == Patched(seen, edit)
<1>3. DOMAIN new = DOMAIN seen /\ \A f \in {"type", "qty", "born"} : new[f] = seen[f]
  BY <1>1, <1>2 DEF Patched
<1> HIDE DEF new
<1> QED
  BY <1>2, <1>3 DEF SameTrade, new

\* A trade that can be posted has the account its holding is of.
LEMMA PostableHolding ==
    ASSUME NEW row \in Row, row.qty # 0, row.type \in Trade, NEW cost, Postable(row, cost, open),
           open \subseteq Account
    PROVE  HoldingOf(row) \in Account
<1> DEFINE rule == PostingRule(row.type)
<1>1. row[rule.debit] \in Account /\ row[rule.credit] \in Account
  BY DEF Postable, Fits
<1>2. rule.debit = "to" /\ rule.credit = "from"
  <2>1. rule \in {Rule("to", {"investment_asset"}, "from", Asset),
                  Rule("to", Asset, "from", {"investment_asset"}), Rule("to", Subtype, "from", Subtype)}
    BY DEF PostingRule, Trade
  <2> QED
    BY <2>1 DEF Rule
<1> HIDE DEF rule
<1> QED
  BY <1>1, <1>2 DEF HoldingOf

\* Other versions of a row leave the trades in order.
LEMMA OrderedAfter ==
    ASSUME RowsAreKnown, txn \in Rows, NEW t \in Txn, txn[t] # None, NEW row \in Row,
           row.born = txn[t].born, NEW a
    PROVE  LET rows == [txn EXCEPT ![t] = row]
           IN  rows \in Rows /\ Ordered(rows, Trades(rows, a))
<1> DEFINE rows == [txn EXCEPT ![t] = row]
<1>1. rows \in Rows /\ \A s \in Txn : rows[s] = IF s = t THEN row ELSE txn[s]
  BY DEF Rows
<1> HIDE DEF rows
<1>2. Trades(rows, a) \in SUBSET Live(rows)
  BY DEF Trades
<1>3. \A s \in Trades(rows, a) : s \in Existing /\ rows[s].born = txn[s].born
  BY <1>1 DEF Trades, Live, Existing
<1>4. \A s, u \in Trades(rows, a) : s # u => rows[s].born # rows[u].born
  BY <1>3 DEF RowsAreKnown
<1> QED
  BY <1>1, <1>2, <1>4, OrderedByBirth DEF rows

\* What a request that has replayed the trades of an account knows.
LEMMA ReplayedIsKnown ==
    ASSUME NEW rows \in Rows, NEW a, Ordered(rows, Trades(rows, a)), Replay(rows, a).ok,
           NEW t \in Txn, NEW row \in Row, rows[t] = row, row.qty # 0,
           NEW j, j.txn = t, j.row = row, j.change = HoldingChange(rows, a, Replay(rows, a).held)
    PROVE  BasisKnown(j) /\ j.change.of = a
<1>2. PICK b : b = [s \in Trades(rows, a) |-> rows[s]]
  OBVIOUS
<1>3. j.change.of = a /\ j.change.basis = b /\ j.change.next = Replay(rows, a).held
  BY <1>2 DEF HoldingChange
<1>4. /\ Based(b) \in Rows
      /\ Trades(Based(b), a) = Trades(rows, a)
      /\ Replay(Based(b), a) = Replay(rows, a)
  BY <1>2, BasisSound
<1>6. t \in Trades(rows, a) <=> row.live /\ a \in {row.from, row.to}
  <2>1. row # None
    BY ValueAssumption
  <2> QED
    BY <2>1 DEF Trades, Live
<1>7. DOMAIN b = Trades(rows, a) /\ (t \in DOMAIN b => b[t] = row)
  BY <1>2
<1> QED
  BY <1>3, <1>4, <1>6, <1>7 DEF BasisKnown

\* The row an update writes is one of the same trade.
Updated(j) == [Patched(j.seen, j.edit) EXCEPT !.version = j.seen.version + 1, !.live = txn[j.txn].live]

LEMMA UpdateFacts ==
    ASSUME HInv, NEW w \in Worker, NEW j, j = job[w], j.op = "update", NEW row, row = Updated(j)
    PROVE  /\ j.txn \in Txn /\ txn[j.txn] # None /\ j.seen \in Row /\ j.seen # None
           /\ txn \in Rows /\ open \subseteq Account
           /\ SeenKnown(j) /\ RowKnown(txn[j.txn]) /\ RowsAreKnown
           /\ row \in Row /\ row.live = txn[j.txn].live
           /\ SameTrade(row, j.seen) /\ SameTrade(row, txn[j.txn])
           /\ row.qty # 0 => row.type \in Trade
<1> DEFINE t    == j.txn
           seen == j.seen
<1>1. row = [Patched(seen, j.edit) EXCEPT !.version = seen.version + 1, !.live = txn[t].live]
  BY DEF Updated
<1>2. /\ t \in Txn /\ txn[t] # None /\ seen \in Row /\ seen # None /\ IsEdit(j.edit)
      /\ txn \in Rows /\ open \subseteq Account
  BY DEF HInv, IInv, TypeOK, JobsAreSound, JobSound, EditSound, Rows
<1>3. SeenKnown(j) /\ RowKnown(txn[t]) /\ RowsAreKnown
  <2>1. JobKnown(j) /\ RowsAreKnown
    BY DEF HInv, JobsAreKnown
  <2>2. SeenKnown(j)
    BY <1>2, <2>1 DEF JobKnown
  <2>3. t \in Existing
    BY <1>2 DEF Existing
  <2> QED
    BY <2>1, <2>2, <2>3 DEF RowsAreKnown
<1>4. SameTrade(row, seen) /\ row.live = txn[t].live
  <2> DEFINE new == Patched(seen, j.edit)
             l == txn[t].live
  <2>1. SameTrade(new, seen) /\ {"type", "qty", "born", "live"} \subseteq DOMAIN new
    BY <1>2, PatchedIsSameTrade
  <2> HIDE DEF new, l
  <2>2. /\ row.live = l
        /\ row.type = new.type /\ row.qty = new.qty /\ row.born = new.born
    BY <1>1, <2>1 DEF new, l
  <2> QED
    BY <2>1, <2>2 DEF SameTrade, l
<1>5. row \in Row
  <2> DEFINE new == Patched(seen, j.edit)
             n == seen.version + 1
             old == txn[t]
  <2>1. new \in Row /\ n \in Nat /\ old \in Row
    BY <1>2, PatchedSound DEF Rows, Row
  <2> HIDE DEF new, n, old
  <2>2. [new EXCEPT !.version = n, !.live = old.live] \in Row
    BY <2>1, RowWith
  <2> QED
    BY <1>1, <2>2 DEF new, n, old
<1>6. /\ SameTrade(row, txn[t])
      /\ row.qty # 0 => row.type \in Trade
  BY <1>3, <1>4 DEF SeenKnown, RowKnown, SameTrade
<1> QED
  BY <1>2, <1>3, <1>4, <1>5, <1>6

LEMMA ApplyUpdateKnown ==
    ASSUME HInv, NEW w \in Worker, ApplyUpdate(w)
    PROVE  RowsAreKnown' /\ JobsAreKnown' /\ HoldingIsReplay'
<1> DEFINE j    == job[w]
           t    == j.txn
           seen == j.seen
           row  == Updated(j)
           rows == [txn EXCEPT ![t] = row]
           a    == HoldingOf(row)
           replay == Replay(rows, a)
           cost == CostInReplay(replay, t, row)
           change == HoldingChange(rows, a, replay.held)
<1>1. j.op = "update" /\ UNCHANGED <<tables, history>>
  BY DEF ApplyUpdate
<1>2. /\ t \in Txn /\ txn[t] # None /\ seen \in Row /\ seen # None
      /\ txn \in Rows /\ open \subseteq Account
      /\ SeenKnown(j) /\ RowKnown(txn[t]) /\ RowsAreKnown
      /\ row \in Row /\ row.live = txn[t].live
      /\ SameTrade(row, seen) /\ SameTrade(row, txn[t])
      /\ row.qty # 0 => row.type \in Trade
  BY <1>1, UpdateFacts
<1>3. \/ Set(w, Idle)
      \/ /\ ~FinancialChanged(seen, row)
         /\ Set(w, Ready(t, seen, row, Keep, NoChange))
      \/ /\ a = None /\ Postable(row, row.amount, open)
         /\ Set(w, Ready(t, seen, row, BuildPosting(row, row.amount), NoChange))
      \/ /\ a # None /\ replay.ok
         /\ Set(w, Ready(t, seen, row, BuildPosting(row, cost), change))
  BY DEF ApplyUpdate, Updated
<1> HIDE DEF row, cost
<1>4. ASSUME NEW lines, NEW c, Set(w, Ready(t, seen, row, lines, c)),
             c.of = None /\ row.qty # 0 =>
                SameBooks(row, seen) /\ row.day = seen.day,
             c.of # None => a # None /\ replay.ok /\ c = change
      PROVE  RowsAreKnown' /\ JobsAreKnown' /\ HoldingIsReplay'
  <2>1. PICK k : k = Ready(t, seen, row, lines, c)
    OBVIOUS
  <2>2. /\ k.op = "commit" /\ k.txn = t /\ k.seen = seen /\ k.row = row /\ k.change = c
    BY <2>1 DEF Ready
  <2> HIDE DEF rows, change, replay
  <2>3. SeenKnown(k)
    BY <1>2, <2>2 DEF SeenKnown
  <2>4. c.of # None => /\ row.qty # 0
                       /\ c.of = a
                       /\ BasisKnown(k)
    <3>1. SUFFICES ASSUME c.of # None PROVE row.qty # 0 /\ c.of = a /\ BasisKnown(k)
      OBVIOUS
    <3>2. a # None /\ replay.ok /\ c = change /\ row.qty # 0
      BY <1>4, <3>1 DEF HoldingOf
    <3>3. rows \in Rows /\ Ordered(rows, Trades(rows, a)) /\ rows[t] = row
      <4>1. row.born = txn[t].born
        BY <1>2 DEF SameTrade
      <4>2. rows \in Rows /\ Ordered(rows, Trades(rows, a))
        BY <1>2, <4>1, OrderedAfter DEF rows
      <4>3. rows[t] = row
        BY <1>2 DEF Rows, rows
      <4> QED
        BY <4>2, <4>3
    <3>4. k.change = HoldingChange(rows, a, Replay(rows, a).held) /\ Replay(rows, a).ok
      BY <2>2, <3>2 DEF change, replay
    <3>5. BasisKnown(k) /\ k.change.of = a
      BY <1>2, <2>2, <3>2, <3>3, <3>4, ReplayedIsKnown
    <3> QED
      BY <2>2, <3>2, <3>5
  <2>5. row.qty # 0 /\ Place(row) # Place(seen) => c.of # None
    BY <1>2, <1>4 DEF SameTrade, SameBooks, Place, InvestOf, HoldingOf
  <2>6. AtHome(row, WillMove(k))
    <3>1. AtHome(seen, FALSE)
      BY <1>2 DEF SeenKnown
    <3>2. CASE Place(row) = Place(seen)
      <4>1. InvestOf(row) = InvestOf(seen) /\ HoldingOf(row) = HoldingOf(seen) /\ row.qty = seen.qty
        BY <1>2, <3>2 DEF Place, SameTrade
      <4> QED
        BY <3>1, <4>1 DEF AtHome
    <3>3. CASE Place(row) # Place(seen)
      BY <2>2, <2>4, <2>5, <3>3 DEF AtHome, WillMove
    <3> QED
      BY <3>2, <3>3
  <2>7. ChangeKnown(k)
    BY <1>2, <1>4, <2>2, <2>4, <2>5, <2>6 DEF ChangeKnown, WillMove, Linked
  <2>8. JobKnown(k)
    BY <1>2, <2>2, <2>3, <2>7 DEF JobKnown
  <2>9. job' = [job EXCEPT ![w] = k]
    BY <1>4, <2>1 DEF Set
  <2> QED
    BY <1>1, <2>8, <2>9, KnownJobStep DEF tables, history
<1>5. NoChange.of = None
  BY DEF NoChange
<1> HIDE DEF a, replay, change, rows, seen, t, j
<1>6. CASE Set(w, Idle)
  BY <1>1, <1>6, KnownIdleStep DEF tables, history
<1>7. CASE ~FinancialChanged(seen, row) /\ Set(w, Ready(t, seen, row, Keep, NoChange))
  <2>1. SameBooks(row, seen) /\ row.day = seen.day
    BY <1>2, <1>7 DEF FinancialChanged, Financial, SameBooks, SameTrade
  <2> QED
    BY <1>4, <1>5, <1>7, <2>1
<1>8. CASE a = None /\ Postable(row, row.amount, open)
            /\ Set(w, Ready(t, seen, row, BuildPosting(row, row.amount), NoChange))
  <2>1. row.qty = 0
    BY <1>2, <1>8, PostableHolding, NoneAssumption DEF a
  <2> QED
    BY <1>4, <1>5, <1>8, <2>1
<1>9. CASE a # None /\ replay.ok /\ Set(w, Ready(t, seen, row, BuildPosting(row, cost), change))
  <2>1. change.of = a
    BY DEF change, HoldingChange
  <2> QED
    BY <1>4, <1>9, <2>1
<1> QED
  BY <1>3, <1>6, <1>7, <1>8, <1>9

LEMMA ApplyDeleteKnown ==
    ASSUME HInv, NEW w \in Worker, ApplyDelete(w)
    PROVE  RowsAreKnown' /\ JobsAreKnown' /\ HoldingIsReplay'
<1> DEFINE j    == job[w]
           t    == j.txn
           seen == j.seen
           old  == txn[t]
           row  == [old EXCEPT !.live = FALSE, !.version = seen.version + 1]
           rows == [txn EXCEPT ![t] = row]
           a    == HoldingOf(seen)
           replay == Replay(rows, a)
           change == HoldingChange(rows, a, replay.held)
<1>1. j.op = "delete" /\ UNCHANGED <<tables, history>>
  BY DEF ApplyDelete
<1>2. t \in Txn /\ txn[t] # None /\ seen \in Row /\ seen # None /\ txn \in Rows /\ old \in Row
  BY <1>1 DEF HInv, IInv, TypeOK, JobsAreSound, JobSound, EditSound, Rows
<1>3. SeenKnown(j) /\ RowKnown(old) /\ RowsAreKnown
  <2>1. JobKnown(j) /\ RowsAreKnown
    BY DEF HInv, JobsAreKnown
  <2>2. SeenKnown(j)
    BY <1>1, <1>2, <2>1 DEF JobKnown
  <2>3. t \in Existing
    BY <1>2 DEF Existing
  <2> QED
    BY <2>1, <2>2, <2>3 DEF RowsAreKnown
<1>4. \/ Set(w, Idle)
      \/ a = None /\ Set(w, Ready(t, seen, row, None, NoChange))
      \/ a # None /\ replay.ok /\ Set(w, Ready(t, seen, row, None, change))
  BY DEF ApplyDelete
<1>5. row \in Row /\ ~row.live
  <2> DEFINE n == seen.version + 1
  <2>1. n \in Nat
    BY <1>2 DEF Row
  <2> HIDE DEF n, old
  <2>2. [old EXCEPT !.version = n, !.live = FALSE] \in Row /\ ~[old EXCEPT !.version = n, !.live = FALSE].live
    BY <1>2, <2>1, RowWith
  <2>3. row = [old EXCEPT !.version = n, !.live = FALSE]
    BY <1>2 DEF n, Row
  <2> QED
    BY <2>2, <2>3
<1>6. /\ row.type = old.type /\ row.qty = old.qty /\ row.born = old.born
      /\ row.from = old.from /\ row.to = old.to
  BY <1>2 DEF Row
<1> HIDE DEF row, old
<1>7. SameTrade(row, seen) /\ Place(row) = Place(old) /\ InvestOf(row) = InvestOf(old) /\ HoldingOf(row) = HoldingOf(old)
  BY <1>3, <1>6 DEF SeenKnown, SameTrade, Place, InvestOf, HoldingOf, old
<1>8. seen.qty # 0 <=> a # None
  BY <1>3 DEF SeenKnown, AtHome, HoldingOf
<1>9. ASSUME NEW c, Set(w, Ready(t, seen, row, None, c)), c.of = None <=> a = None,
             c.of # None => replay.ok /\ c = change
      PROVE  RowsAreKnown' /\ JobsAreKnown' /\ HoldingIsReplay'
  <2>1. PICK k : k = Ready(t, seen, row, None, c)
    OBVIOUS
  <2>2. k.op = "commit" /\ k.txn = t /\ k.seen = seen /\ k.row = row /\ k.change = c
    BY <2>1 DEF Ready
  <2> HIDE DEF rows, change, replay
  <2>3. SeenKnown(k)
    BY <1>3, <2>2 DEF SeenKnown
  <2>4. c.of # None => row.qty # 0 /\ c.of = a /\ BasisKnown(k)
    <3>1. SUFFICES ASSUME c.of # None PROVE row.qty # 0 /\ c.of = a /\ BasisKnown(k)
      OBVIOUS
    <3>2. a # None /\ replay.ok /\ c = change /\ row.qty # 0
      BY <1>7, <1>8, <1>9, <3>1 DEF SameTrade
    <3>3. rows \in Rows /\ Ordered(rows, Trades(rows, a)) /\ rows[t] = row
      <4>1. row.born = txn[t].born
        BY <1>6 DEF old
      <4>2. rows \in Rows /\ Ordered(rows, Trades(rows, a))
        BY <1>2, <1>3, <1>5, <4>1, OrderedAfter DEF rows
      <4>3. rows[t] = row
        BY <1>2 DEF Rows, rows
      <4> QED
        BY <4>2, <4>3
    <3>4. k.change = HoldingChange(rows, a, Replay(rows, a).held) /\ Replay(rows, a).ok
      BY <2>2, <3>2 DEF change, replay
    <3>5. BasisKnown(k) /\ k.change.of = a
      BY <1>2, <1>5, <2>2, <3>2, <3>3, <3>4, ReplayedIsKnown
    <3> QED
      BY <2>2, <3>2, <3>5
  <2>5. AtHome(row, WillMove(k))
    BY <1>3, <1>6, <1>7 DEF RowKnown, AtHome
  <2>6. row.qty # 0 => Linked(seen, row)
    BY <1>3, <1>7 DEF SeenKnown, SameTrade, Linked, AllMoved, old
  <2>7. c.of = None => row.qty = 0
    BY <1>7, <1>8, <1>9 DEF SameTrade
  <2>8. ChangeKnown(k)
    BY <1>5, <1>7, <2>2, <2>4, <2>5, <2>6, <2>7 DEF ChangeKnown
  <2>9. JobKnown(k)
    BY <1>2, <2>2, <2>3, <2>8 DEF JobKnown
  <2>10. job' = [job EXCEPT ![w] = k]
    BY <1>9, <2>1 DEF Set
  <2> QED
    BY <1>1, <2>9, <2>10, KnownJobStep DEF tables, history
<1>10. NoChange.of = None
  BY DEF NoChange
<1>11. change.of = a
  BY DEF HoldingChange
<1> HIDE DEF a, replay, change, rows, seen, t, j
<1>12. CASE Set(w, Idle)
  BY <1>1, <1>12, KnownIdleStep DEF tables, history
<1>13. CASE a = None /\ Set(w, Ready(t, seen, row, None, NoChange))
  BY <1>9, <1>10, <1>13
<1>14. CASE a # None /\ replay.ok /\ Set(w, Ready(t, seen, row, None, change))
  BY <1>9, <1>11, <1>14
<1> QED
  BY <1>4, <1>12, <1>13, <1>14

-------------------------------------------------------------------------------
(* Commits                                                                 *)

\* Trades that are linked to the same one are linked.
LEMMA LinkedAll ==
    ASSUME NEW r, NEW s, NEW u
    PROVE  Linked(s, r)' /\ Linked(s, u)' => Linked(r, u)'
<1> SUFFICES ASSUME Linked(s, r)', Linked(s, u)' PROVE Linked(r, u)'
  OBVIOUS
<1>1. CASE Place(r) = Place(s) /\ Place(s) = Place(u)
  BY <1>1 DEF Linked
<1>2. CASE ~(Place(r) = Place(s) /\ Place(s) = Place(u))
  <2>1. \A a \in InvestOf(r) \cup InvestOf(u) : Moved(a)'
    BY <1>2 DEF Linked, AllMoved, Place
  <2> QED
    BY <2>1 DEF Linked, AllMoved
<1> QED
  BY <1>1, <1>2

\* The row that is stored.
BornAt(j) == IF j.seen = None THEN Cardinality(Existing) ELSE j.row.born
Stored(j) == [j.row EXCEPT !.born = BornAt(j)]

LEMMA CommitFacts ==
    ASSUME HInv, NEW w \in Worker, CommitTxn(w), NEW j, j = job[w], NEW row, row = Stored(j)
    PROVE  /\ j.op = "commit" /\ j.txn \in Txn /\ row \in Row /\ row # None
           /\ txn \in Rows /\ txn' \in Rows
           /\ \A s \in Txn : txn'[s] = IF s = j.txn THEN row ELSE txn[s]
           /\ \A v \in Worker : job'[v] = IF v = w THEN Idle ELSE job[v]
           /\ SameBooks(row, j.row)
           /\ row.qty = j.row.qty /\ row.day = j.row.day /\ row.live = j.row.live
           /\ row.born = IF j.seen = None THEN Cardinality(Existing) ELSE j.row.born
           /\ j.seen = None => txn[j.txn] = None /\ row.live /\ NewKnown(j)
           /\ j.seen # None => txn[j.txn] # None /\ SeenKnown(j) /\ ChangeKnown(j)
           /\ overtaken' = overtaken \cup (IF txn[j.txn] # j.seen THEN {j.txn} ELSE {})
           /\ skewed' = skewed \cup Skews(j)
<1>1. /\ j.op = "commit"
      /\ j.seen = None => txn[j.txn] = None
      /\ job' = [job EXCEPT ![w] = Idle]
      /\ txn' = [txn EXCEPT ![j.txn] = row]
      /\ overtaken' = overtaken \cup (IF txn[j.txn] # j.seen THEN {j.txn} ELSE {})
      /\ skewed' = skewed \cup Skews(j)
  BY DEF CommitTxn, Set, Stored, BornAt, Existing
<1>2. TypeOK /\ DOMAIN job = Worker /\ CommitSound(j) /\ Fitting(j) /\ JobKnown(j)
  BY <1>1 DEF HInv, IInv, TypeOK, JobsAreSound, JobSound, LinesFit, JobsAreKnown
<1>3. j.txn \in Txn /\ j.row \in Row /\ txn \in Rows /\ (j.seen # None => txn[j.txn] # None)
  BY <1>2 DEF CommitSound, TypeOK, Rows
<1> DEFINE n == BornAt(j)
<1>4. n \in Nat
  <2>1. Cardinality(Existing) \in Nat
    BY FS_Subset, FS_CardinalityType, LedgerAssumption DEF Existing
  <2> QED
    BY <1>3, <2>1 DEF Row, BornAt
<1>5. row = [j.row EXCEPT !.born = n]
  BY DEF Stored
<1> HIDE DEF n
<1>6. row \in Row /\ row # None
  <2>1. [j.row EXCEPT !.born = n] \in Row
    BY <1>3, <1>4, RowWith
  <2>2. row \in Row
    BY <1>5, <2>1
  <2> QED
    BY <2>2, ValueAssumption
<1>7. /\ SameBooks(row, j.row)
      /\ row.qty = j.row.qty /\ row.day = j.row.day /\ row.live = j.row.live
      /\ row.born = n
  BY <1>3, <1>5 DEF Row, SameBooks
<1>8. txn' \in Rows /\ \A s \in Txn : txn'[s] = IF s = j.txn THEN row ELSE txn[s]
  BY <1>1, <1>3, <1>6 DEF Rows
<1>9. \A v \in Worker : job'[v] = IF v = w THEN Idle ELSE job[v]
  BY <1>1, <1>2
<1>10. j.seen = None => row.live /\ NewKnown(j)
  BY <1>1, <1>2, <1>7 DEF Fitting, JobKnown
<1>11. j.seen # None => SeenKnown(j) /\ ChangeKnown(j)
  BY <1>1, <1>2 DEF JobKnown
<1> QED
  BY <1>1, <1>3, <1>6, <1>7, <1>8, <1>9, <1>10, <1>11 DEF n, BornAt

\* What is known of moved trades stays known, and a trade that a commit moves is
\* linked to the one that was there.
LEMMA CommitMoves ==
    ASSUME HInv, NEW w \in Worker, CommitTxn(w), NEW j, j = job[w], NEW row, row = Stored(j)
    PROVE  /\ \A a : Moved(a) => Moved(a)'
           /\ SomeMoved => SomeMoved'
           /\ \A r : AtHome(r, FALSE) => AtHome(r, FALSE)'
           /\ \A r, s : Linked(r, s) => Linked(r, s)'
           /\ j.seen # None /\ row.qty # 0 =>
                AtHome(row, FALSE)' /\ (\A old : old = txn[j.txn] => Linked(old, row)')
<1>1. /\ skewed' = skewed \cup Skews(j)
      /\ j.seen # None => SeenKnown(j) /\ ChangeKnown(j)
      /\ row.qty = j.row.qty /\ SameBooks(row, j.row)
  BY CommitFacts
<1>2. (\A a : Moved(a) => Moved(a)') /\ (SomeMoved => SomeMoved')
  BY <1>1 DEF Moved, SomeMoved
<1>3. \A r : AtHome(r, FALSE) => AtHome(r, FALSE)'
  BY <1>2 DEF AtHome
<1>4. \A r, s : Linked(r, s) => Linked(r, s)'
  BY <1>2 DEF Linked, AllMoved
<1>5. ASSUME j.seen # None, row.qty # 0
      PROVE  AtHome(row, FALSE)' /\ (\A old : old = txn[j.txn] => Linked(old, row)')
  <2>1. /\ SameTrade(j.seen, txn[j.txn]) /\ AtHome(j.seen, FALSE) /\ SameTrade(j.row, j.seen)
        /\ j.row.qty # 0 /\ j.seen.qty # 0
        /\ Linked(j.seen, txn[j.txn])
        /\ AtHome(j.row, WillMove(j))
        /\ WillMove(j) \/ Linked(j.seen, j.row)
    BY <1>1, <1>5 DEF SeenKnown, ChangeKnown, SameTrade
  <2>2. InvestOf(row) = InvestOf(j.row) /\ HoldingOf(row) = HoldingOf(j.row) /\ Place(row) = Place(j.row)
    BY <1>1 DEF SameBooks, InvestOf, HoldingOf, Place
  <2>3. ASSUME WillMove(j) PROVE AllMoved(j.seen, j.row)' /\ SomeMoved'
    <3>1. {"moved"} \X (InvestOf(j.seen) \cup InvestOf(j.row)) \subseteq Skews(j)
      BY <1>5, <2>3 DEF Skews, WillMove
    <3>2. \A a \in InvestOf(j.seen) \cup InvestOf(j.row) : Moved(a)'
      BY <1>1, <3>1 DEF Moved
    <3>3. AllMoved(j.seen, j.row)'
      BY <3>2 DEF AllMoved
    <3>4. HoldingOf(j.seen) \in Invest => HoldingOf(j.seen) \in InvestOf(j.seen)
      BY NoneAssumption, LedgerAssumption DEF HoldingOf, InvestOf
    <3>5. SomeMoved'
      BY <1>2, <2>1, <3>2, <3>4 DEF AtHome, SomeMoved
    <3> QED
      BY <3>3, <3>5
  <2>4. Linked(j.seen, row)'
    BY <1>4, <2>1, <2>2, <2>3 DEF Linked, AllMoved
  <2>5. AtHome(row, FALSE)'
    BY <1>1, <1>2, <2>1, <2>2, <2>3 DEF AtHome, AllMoved
  <2>6. \A old : old = txn[j.txn] => Linked(old, row)'
    <3>1. SUFFICES ASSUME NEW old, old = txn[j.txn] PROVE Linked(old, row)'
      OBVIOUS
    <3>2. Linked(j.seen, old)'
      BY <1>4, <2>1, <3>1
    <3>3. Linked(old, row)'
      BY <2>4, <3>2, LinkedAll
    <3> QED
      BY <3>3
  <2> QED
    BY <2>5, <2>6
<1> QED
  BY <1>2, <1>3, <1>4, <1>5

LEMMA CommitRowsKnown ==
    ASSUME HInv, NEW w \in Worker, CommitTxn(w)
    PROVE  RowsAreKnown'
<1>1. PICK j : j = job[w]
  OBVIOUS
<1>2. PICK row : row = Stored(j)
  OBVIOUS
<1> DEFINE t == j.txn
<1>3. /\ t \in Txn /\ row \in Row /\ row # None
      /\ txn \in Rows /\ txn' \in Rows
      /\ \A s \in Txn : txn'[s] = IF s = t THEN row ELSE txn[s]
      /\ row.qty = j.row.qty /\ SameBooks(row, j.row)
      /\ row.born = IF j.seen = None THEN Cardinality(Existing) ELSE j.row.born
      /\ j.seen = None => txn[t] = None /\ NewKnown(j)
      /\ j.seen # None => txn[t] # None /\ SeenKnown(j) /\ ChangeKnown(j)
      /\ overtaken' = overtaken \cup (IF txn[t] # j.seen THEN {t} ELSE {})
  BY <1>1, <1>2, CommitFacts
<1>4. /\ \A r : AtHome(r, FALSE) => AtHome(r, FALSE)'
      /\ j.seen # None /\ row.qty # 0 => AtHome(row, FALSE)'
  BY <1>1, <1>2, CommitMoves
<1> HIDE DEF t
<1>5. /\ RowsAreKnown
      /\ \A s \in Existing : RowKnown(txn[s])
      /\ \A s, u \in Existing : s # u => txn[s].born # txn[u].born
  BY DEF HInv, RowsAreKnown
<1>6. Existing' = Existing \cup {t}
  BY <1>3 DEF Existing
<1> DEFINE n == Cardinality(Existing)
           m == Cardinality(Existing')
<1>7. n \in Nat /\ m = IF t \in Existing THEN n ELSE n + 1
  <2>1. IsFiniteSet(Existing)
    BY FS_Subset, LedgerAssumption DEF Existing
  <2> QED
    BY <1>6, <2>1, FS_CardinalityType, FS_AddElement
<1> HIDE DEF n, m
<1>8. \A s \in Existing : txn[s].born \in Nat /\ txn[s].born < n
  <2>1. \A s \in Existing : txn[s] \in Row
    BY <1>3 DEF Existing, Rows
  <2> QED
    BY <1>5, <2>1 DEF RowKnown, Row, n
<1>9. j.seen # None => /\ t \in Existing
                       /\ row.type = txn[t].type /\ row.qty = txn[t].qty /\ row.born = txn[t].born
  BY <1>3 DEF SeenKnown, ChangeKnown, SameTrade, SameBooks, Existing, t
<1>10. j.seen = None => t \notin Existing /\ row.born = n
  BY <1>3 DEF Existing, n
<1>11. RowKnown(row)'
  <2>1. CASE j.seen = None
    <3>1. row.qty # 0 => row.type \in Trade /\ InvestOf(row) = {HoldingOf(row)}
      BY <1>3, <2>1 DEF NewKnown, SameBooks, InvestOf, HoldingOf
    <3>2. row.qty # 0 => HoldingOf(row) \in Invest /\ HoldingOf(row) # None
      <4>1. SUFFICES ASSUME row.qty # 0 PROVE HoldingOf(row) \in Invest /\ HoldingOf(row) # None
        OBVIOUS
      <4>2. HoldingOf(row) \in InvestOf(row)
        BY <3>1, <4>1
      <4>3. InvestOf(row) \subseteq Invest /\ Invest \subseteq Account
        BY LedgerAssumption DEF InvestOf
      <4> QED
        BY <4>2, <4>3, NoneAssumption
    <3>3. AtHome(row, FALSE)'
      BY <3>1, <3>2 DEF AtHome
    <3>4. row.born < m
      BY <1>7, <1>10, <2>1
    <3> QED
      BY <3>1, <3>3, <3>4 DEF RowKnown, m
  <2>2. CASE j.seen # None
    <3>1. row.born < m
      BY <1>7, <1>8, <1>9, <2>2
    <3>2. AtHome(row, FALSE)'
      BY <1>4, <2>2 DEF AtHome
    <3>3. row.qty # 0 => row.type \in Trade
      BY <1>5, <1>9, <2>2 DEF RowKnown
    <3> QED
      BY <3>1, <3>2, <3>3 DEF RowKnown, m
  <2> QED
    BY <2>1, <2>2
<1>12. \A s \in Existing' : RowKnown(txn[s])'
  <2>1. SUFFICES ASSUME NEW s \in Existing' PROVE RowKnown(txn[s])'
    OBVIOUS
  <2>2. CASE s = t
    <3>1. txn'[s] = row
      BY <1>3, <2>2
    <3> QED
      BY <1>11, <3>1
  <2>3. CASE s # t
    <3>1. PICK r : r = txn[s] /\ r = txn'[s] /\ RowKnown(r) /\ r.born \in Nat /\ r.born < n
      BY <1>3, <1>5, <1>6, <1>8, <2>1, <2>3 DEF Existing
    <3>2. r.born < m
      BY <1>7, <3>1
    <3>3. AtHome(r, FALSE)'
      BY <1>4, <3>1 DEF RowKnown
    <3>4. RowKnown(r)'
      BY <3>1, <3>2, <3>3 DEF RowKnown, m
    <3> QED
      BY <3>1, <3>4
  <2> QED
    BY <2>2, <2>3
<1>13. \A s, u \in Existing' : s # u => txn'[s].born # txn'[u].born
  <2>1. \A s \in Existing \ {t} : txn'[s].born = txn[s].born /\ txn'[s].born # row.born
    <3>1. SUFFICES ASSUME NEW s \in Existing \ {t}
                   PROVE  txn'[s].born = txn[s].born /\ txn[s].born # row.born
      OBVIOUS
    <3>2. txn'[s] = txn[s]
      BY <1>3, <3>1 DEF Existing
    <3>3. txn[s].born # row.born
      BY <1>5, <1>8, <1>9, <1>10, <1>7, <3>1
    <3> QED
      BY <3>2, <3>3
  <2>2. txn'[t].born = row.born
    BY <1>3
  <2> QED
    BY <1>5, <1>6, <2>1, <2>2
<1>14. overtaken' \subseteq Existing'
  BY <1>3, <1>5, <1>6 DEF RowsAreKnown
<1> QED
  BY <1>12, <1>13, <1>14 DEF RowsAreKnown

LEMMA CommitJobsKnown ==
    ASSUME HInv, NEW w \in Worker, CommitTxn(w)
    PROVE  JobsAreKnown'
<1>1. PICK j : j = job[w]
  OBVIOUS
<1>2. PICK row : row = Stored(j)
  OBVIOUS
<1> DEFINE t == j.txn
<1>3. /\ j.op = "commit" /\ t \in Txn
      /\ \A s \in Txn : txn'[s] = IF s = t THEN row ELSE txn[s]
      /\ \A v \in Worker : job'[v] = IF v = w THEN Idle ELSE job[v]
      /\ row.qty = j.row.qty /\ SameBooks(row, j.row)
      /\ row.born = IF j.seen = None THEN Cardinality(Existing) ELSE j.row.born
      /\ j.seen = None => txn[t] = None
      /\ j.seen # None => SeenKnown(j) /\ ChangeKnown(j)
  BY <1>1, <1>2, CommitFacts
<1>4. /\ \A a : Moved(a) => Moved(a)'
      /\ SomeMoved => SomeMoved'
      /\ \A r : AtHome(r, FALSE) => AtHome(r, FALSE)'
      /\ \A r, s : Linked(r, s) => Linked(r, s)'
      /\ j.seen # None /\ row.qty # 0 => \A old : old = txn[t] => Linked(old, row)'
  BY <1>1, <1>2, CommitMoves
<1> HIDE DEF t
<1>5. SUFFICES ASSUME NEW v \in Worker PROVE JobKnown(job[v])'
  BY DEF JobsAreKnown
<1>6. PICK k : k = job'[v]
  OBVIOUS
<1>7. SUFFICES JobKnown(k)'
  BY <1>6
<1>8. CASE v = w
  BY <1>3, <1>6, <1>8 DEF JobKnown, Idle
<1>9. CASE v # w
  <2>1. k = job[v] /\ JobKnown(k) /\ JobSound(k)
    BY <1>3, <1>6, <1>9 DEF HInv, JobsAreKnown, IInv, JobsAreSound
  <2>2. k.op = "commit" /\ k.seen # None => k.txn # t
    <3>1. SUFFICES ASSUME k.op = "commit", k.seen # None, k.txn = t PROVE FALSE
      OBVIOUS
    <3>2. Commits(v, t) /\ Commits(w, t)
      BY <1>1, <1>3, <2>1, <3>1 DEF Commits, t
    <3>3. job[v].seen = None
      BY <1>3, <1>9, <3>2 DEF HInv, IInv, RowsAreLocked
    <3> QED
      BY <2>1, <3>1, <3>3
  <2>3. ASSUME k.op \in {"update", "delete", "commit"}, k.seen # None
        PROVE  SeenKnown(k)'
    <3>1. SeenKnown(k) /\ k.txn \in Txn /\ txn[k.txn] # None
      BY <2>1, <2>3 DEF JobKnown, JobSound, EditSound, CommitSound
    <3>2. CASE k.txn # t
      <4>1. txn'[k.txn] = txn[k.txn]
        BY <1>3, <3>1, <3>2
      <4> QED
        BY <1>4, <3>1, <4>1 DEF SeenKnown
    <3>3. CASE k.txn = t
      <4>1. txn'[k.txn] = row /\ j.seen # None
        BY <1>3, <3>1, <3>3
      <4>2. SameTrade(row, txn[t])
        BY <1>3, <4>1 DEF SeenKnown, ChangeKnown, SameTrade, SameBooks, t
      <4>3. SameTrade(k.seen, row)
        BY <3>1, <3>3, <4>2 DEF SeenKnown, SameTrade
      <4>4. k.seen.qty # 0 => Linked(k.seen, row)'
        <5>1. SUFFICES ASSUME k.seen.qty # 0 PROVE Linked(k.seen, row)'
          OBVIOUS
        <5>2. PICK old : old = txn[t]
          OBVIOUS
        <5>3. Linked(k.seen, old)'
          BY <1>4, <3>1, <3>3, <5>1, <5>2 DEF SeenKnown
        <5>4. Linked(old, row)'
          BY <1>4, <4>1, <4>3, <5>1, <5>2 DEF SameTrade
        <5>5. Linked(old, k.seen)'
          BY <5>3 DEF Linked, AllMoved
        <5> QED
          BY <5>4, <5>5, LinkedAll
      <4>5. AtHome(k.seen, FALSE)'
        BY <1>4, <3>1 DEF SeenKnown
      <4> QED
        BY <4>1, <4>3, <4>4, <4>5 DEF SeenKnown
    <3> QED
      BY <3>2, <3>3
  <2>4. ASSUME k.op = "commit", k.seen = None PROVE NewKnown(k)'
    BY <2>1, <2>4 DEF JobKnown, NewKnown
  <2>5. ASSUME k.op = "commit", k.seen # None PROVE ChangeKnown(k)'
    <3>1. ChangeKnown(k) /\ k.txn \in Txn
      BY <2>1, <2>5 DEF JobKnown, JobSound, CommitSound
    <3>2. txn'[k.txn] = txn[k.txn]
      BY <1>3, <2>2, <2>5, <3>1
    <3>3. AtHome(k.row, WillMove(k))'
      BY <1>4, <3>1 DEF ChangeKnown, AtHome, WillMove
    <3>4. k.row.qty # 0 => WillMove(k)' \/ Linked(k.seen, k.row)'
      BY <1>4, <3>1 DEF ChangeKnown, WillMove
    <3>5. BasisKnown(k) => BasisKnown(k)'
      BY DEF BasisKnown
    <3> QED
      BY <3>1, <3>2, <3>3, <3>4, <3>5 DEF ChangeKnown
  <2> QED
    BY <2>3, <2>4, <2>5 DEF JobKnown
<1> QED
  BY <1>8, <1>9

\* A commit changes none of the trades of an account and leaves its holding alone ...
KeepsTrades(j, row, a, held, next) ==
    /\ j.change.of # a
    /\ next = held
    /\ Trades(txn', a) = Trades(txn, a)
    /\ j.txn \in Trades(txn, a) =>
         /\ j.seen # None /\ j.change.of = None
         /\ row.qty # 0
         /\ SameBooks(row, txn[j.txn]) /\ SameReplay(txn[j.txn], row)

\* ... or adds one and changes the holding by it ...
AddsTrade(j, row, a, held, next) ==
    /\ j.change.of = a /\ j.seen = None
    /\ j.txn \notin Trades(txn, a)
    /\ Trades(txn', a) = Trades(txn, a) \cup {j.txn}
    /\ Opening(j.change.was) = held
    /\ EnoughToSell(row, held)
    /\ next = AfterTrade(row, held)

\* ... or replays them all.
ReplaysTrades(j, row, a, held, next) ==
    /\ j.change.of = a /\ j.seen # None
    /\ Replay(txn', a).ok
    /\ next = Replay(txn', a).held
    /\ Replay(Based(j.change.basis), a) = Replay(txn', a)
    /\ Trades(txn', a) \ {j.txn} = Trades(txn, a) \ {j.txn}
    /\ j.txn \in Trades(txn', a) <=> j.txn \in DOMAIN j.change.basis

\* So it does with a holding that no other writer disturbs.
LEMMA CommitTrades ==
    ASSUME HInv, NEW w \in Worker, CommitTxn(w), NEW a \in Invest, RowsAreKnown',
           Undisturbed(a)', ~Moved(a)', NEW j, j = job[w], NEW row, row = Stored(j),
           NEW held, held = Held(a), NEW next, next = Held(a)'
    PROVE  /\ Undisturbed(a) /\ ~Moved(a)
           /\ Ordered(txn', Trades(txn', a))
           /\ KeepsTrades(j, row, a, held, next) \/ AddsTrade(j, row, a, held, next) \/ ReplaysTrades(j, row, a, held, next)
<1> DEFINE t == j.txn
           c == j.change
           S == Trades(txn, a)
           T == Trades(txn', a)
<1>1. /\ j.op = "commit" /\ t \in Txn /\ row \in Row /\ row # None
      /\ txn \in Rows /\ txn' \in Rows
      /\ \A s \in Txn : txn'[s] = IF s = t THEN row ELSE txn[s]
      /\ row.qty = j.row.qty /\ row.day = j.row.day /\ row.live = j.row.live /\ SameBooks(row, j.row)
      /\ row.born = IF j.seen = None THEN Cardinality(Existing) ELSE j.row.born
      /\ j.seen = None => txn[t] = None /\ row.live /\ NewKnown(j)
      /\ j.seen # None => txn[t] # None /\ SeenKnown(j) /\ ChangeKnown(j)
      /\ overtaken' = overtaken \cup (IF txn[t] # j.seen THEN {t} ELSE {})
      /\ skewed' = skewed \cup Skews(j)
  BY CommitFacts
<1>2. /\ \A b : Moved(b) => Moved(b)'
      /\ j.seen # None /\ row.qty # 0 =>
           AtHome(row, FALSE)' /\ \A old : old = txn[t] => Linked(old, row)'
  BY CommitMoves
<1>3. /\ holding' = IF c.of = None THEN holding ELSE [holding EXCEPT ![c.of] = c.next]
      /\ crossed \subseteq crossed'
      /\ c.of # None /\ c.of \notin crossed' =>
           /\ c.was = holding[c.of]
           /\ [s \in DOMAIN c.basis \ {t} |-> c.basis[s]] = Basis(c.of, t)
  BY DEF CommitTxn
<1>4. /\ holding \in [Account -> Holding \cup {None}] /\ a \in Account /\ a # None
      /\ c.of # None => c.next \in Holding /\ c.next # None
      /\ overtaken \subseteq Txn
  <2>1. CommitSound(j) /\ TypeOK
    BY <1>1 DEF HInv, IInv, TypeOK, JobsAreSound, JobSound
  <2>2. Invest \subseteq Account
    BY LedgerAssumption
  <2> QED
    BY <2>1, <2>2, NoneAssumption, ValueAssumption DEF CommitSound, TypeOK
<1>5. T \in SUBSET Live(txn') /\ S \in SUBSET Live(txn) /\ Ordered(txn', T)
  <2>1. T \in SUBSET Live(txn') /\ S \in SUBSET Live(txn)
    BY DEF Trades
  <2>2. \A s \in T : s \in Existing'
    BY <2>1 DEF Live, Existing
  <2>3. \A s, u \in T : s # u => txn'[s].born # txn'[u].born
    BY <2>2 DEF RowsAreKnown
  <2> HIDE DEF T, S
  <2> QED
    BY <1>1, <2>1, <2>3, OrderedByBirth
<1>6. /\ \A s \in Txn \ {t} : s \in T <=> s \in S
      /\ \A s \in Txn \ {t} : txn'[s] = txn[s]
      /\ t \in T <=> row.live /\ row.qty # 0 /\ a \in InvestOf(row)
      /\ t \in S <=> txn[t] # None /\ txn[t].live /\ txn[t].qty # 0 /\ a \in InvestOf(txn[t])
      /\ S \subseteq Txn /\ T \subseteq Txn
      /\ txn'[t] = row
  BY <1>1 DEF Trades, Live, InvestOf
<1>7. InvestOf(row) = InvestOf(j.row) /\ HoldingOf(row) = HoldingOf(j.row) /\ Place(row) = Place(j.row)
  BY <1>1 DEF SameBooks, InvestOf, HoldingOf, Place
<1> HIDE DEF t, c, S, T
<1>8. a \notin crossed' /\ \A s \in overtaken' : a # HoldingOf(txn'[s])
  BY DEF Undisturbed
<1>9. ASSUME j.seen # None, row.qty # 0
       PROVE  /\ a \in InvestOf(txn[t]) <=> a \in InvestOf(row)
              /\ a \in InvestOf(row) =>
                   Place(txn[t]) = Place(row) /\ HoldingOf(txn[t]) = a /\ HoldingOf(row) = a
  <2>1. PICK old : old = txn[t] /\ Linked(old, row)' /\ AtHome(row, FALSE)'
    BY <1>2, <1>9
  <2>2. a \in InvestOf(old) \cup InvestOf(row) => Place(old) = Place(row)
    BY <2>1 DEF Linked, AllMoved
  <2>3. a \in InvestOf(row) => HoldingOf(row) = a
    BY <1>9, <2>1 DEF AtHome
  <2>4. Place(old) = Place(row) => InvestOf(old) = InvestOf(row) /\ HoldingOf(old) = HoldingOf(row)
    BY DEF Place
  <2> QED
    BY <2>1, <2>2, <2>3, <2>4
<1>10. Undisturbed(a) /\ ~Moved(a)
  <2>2. ~Moved(a)
    BY <1>2
  <2>3. ASSUME NEW s \in overtaken PROVE a # HoldingOf(txn[s])
    <3>1. CASE s # t
      BY <1>1, <1>4, <1>6, <1>8, <2>3, <3>1
    <3>2. CASE s = t
      <4>1. txn[t] # None
        BY <2>3, <3>2 DEF HInv, RowsAreKnown, Existing
      <4>2. j.seen # None
        BY <1>1, <4>1
      <4>3. HoldingOf(row) # a
        BY <1>1, <1>6, <1>8, <2>3, <3>2
      <4>4. SUFFICES ASSUME a = HoldingOf(txn[t]) PROVE FALSE
        BY <3>2
      <4>5. row.qty = txn[t].qty
        BY <1>1, <4>2 DEF SeenKnown, ChangeKnown, SameTrade, t
      <4>6. row.qty # 0 /\ a \in InvestOf(txn[t])
        BY <1>4, <4>4, <4>5 DEF HoldingOf, InvestOf
      <4> QED
        BY <1>9, <4>2, <4>3, <4>6
    <3> QED
      BY <3>1, <3>2
  <2>4. Undisturbed(a)
    BY <1>3, <1>8, <2>3 DEF Undisturbed
  <2> QED
    BY <2>2, <2>4
<1> SUFFICES \/ KeepsTrades(j, row, a, held, next) \/ AddsTrade(j, row, a, held, next)
            \/ ReplaysTrades(j, row, a, held, next)
  BY <1>5, <1>10 DEF T
<1>11. c.of = a => next = c.next
  BY <1>3, <1>4 DEF Held
<1>12. c.of # a => next = held
  BY <1>3, <1>4 DEF Held
<1>13. ASSUME c.of # a, t \in S <=> t \in T,
              t \in T => /\ j.seen # None /\ c.of = None /\ row.qty # 0
                         /\ SameBooks(row, txn[t]) /\ SameReplay(txn[t], row)
       PROVE  KeepsTrades(j, row, a, held, next)
  <2>1. S = T
    BY <1>6, <1>13
  <2> QED
    BY <1>12, <1>13, <2>1 DEF KeepsTrades, S, T, c, t
<1>14. CASE j.seen = None /\ c.of # a
  <2>1. t \notin S
    BY <1>1, <1>6, <1>14
  <2>2. t \notin T
    BY <1>1, <1>6, <1>7, <1>14 DEF NewKnown, c
  <2> QED
    BY <1>13, <1>14, <2>1, <2>2
<1>15. CASE j.seen = None /\ c.of = a
  <2>1. /\ HoldingOf(row) = a /\ row.qty # 0 /\ InvestOf(row) = {a}
        /\ EnoughToSell(row, Opening(c.was))
        /\ c.next = AfterTrade(row, Opening(c.was))
    BY <1>1, <1>4, <1>7, <1>15 DEF NewKnown, AfterTrade, SameBooks, EnoughToSell, HoldingOf, c
  <2>2. Opening(c.was) = held
    BY <1>3, <1>4, <1>8, <1>15 DEF Opening, Held
  <2>3. t \notin S /\ T = S \cup {t}
    BY <1>1, <1>6, <1>15, <2>1
  <2> QED
    BY <1>11, <1>15, <2>1, <2>2, <2>3 DEF AddsTrade, S, T, c, t
<1>16. CASE j.seen # None /\ c.of = a
  <2>1. ChangeKnown(j) /\ row.qty # 0 /\ BasisKnown(j)
    BY <1>1, <1>4, <1>16 DEF ChangeKnown, c
  <2>2. PICK rows : rows = Based(c.basis)
    OBVIOUS
  <2>3. /\ rows \in Rows
        /\ DOMAIN c.basis = Trades(rows, a)
        /\ t \in DOMAIN c.basis <=> j.row.live /\ a \in {j.row.from, j.row.to}
        /\ t \in DOMAIN c.basis => c.basis[t] = j.row
        /\ Replay(rows, a).ok
        /\ c.next = Replay(rows, a).held
    BY <1>16, <2>1, <2>2 DEF BasisKnown, c, t
  <2>4. DOMAIN c.basis \ {t} = S \ {t} /\ \A s \in S \ {t} : c.basis[s] = txn[s]
    <3>1. PICK f : f = [s \in DOMAIN c.basis \ {t} |-> c.basis[s]]
      OBVIOUS
    <3>2. f = [s \in S \ {t} |-> txn[s]]
      BY <1>3, <1>4, <1>8, <1>16, <3>1 DEF Basis, S
    <3>3. DOMAIN f = DOMAIN c.basis \ {t} /\ \A s \in DOMAIN c.basis \ {t} : f[s] = c.basis[s]
      BY <3>1
    <3>4. DOMAIN f = S \ {t} /\ \A s \in S \ {t} : f[s] = txn[s]
      BY <3>2
    <3> QED
      BY <3>3, <3>4
  <2>5. t \in DOMAIN c.basis <=> t \in T
    BY <1>1, <1>6, <1>7, <2>1, <2>3 DEF InvestOf
  <2>6. Trades(rows, a) = T
    BY <1>6, <2>3, <2>4, <2>5
  <2>7. \A s \in T : SameReplay(rows[s], txn'[s])
    <3>1. SUFFICES ASSUME NEW s \in T PROVE SameReplay(rows[s], txn'[s])
      OBVIOUS
    <3>2. s \in Txn /\ rows[s] = c.basis[s]
      BY <1>6, <2>2, <2>3, <2>6 DEF Based
    <3>3. CASE s # t
      BY <1>6, <2>4, <3>1, <3>2, <3>3 DEF SameReplay
    <3>4. CASE s = t
      BY <1>1, <1>6, <1>16, <2>3, <2>5, <3>1, <3>2, <3>4 DEF SameReplay, SameBooks
    <3> QED
      BY <3>3, <3>4
  <2>8. Replay(rows, a) = Replay(txn', a)
    BY <1>1, <1>5, <2>3, <2>6, <2>7, ReplayAgrees DEF T
  <2>9. Replay(txn', a).ok /\ next = Replay(txn', a).held
    BY <1>11, <1>16, <2>3, <2>8
  <2>10. T \ {t} = S \ {t}
    BY <2>4, <2>3, <2>6
  <2> QED
    BY <1>16, <2>2, <2>5, <2>8, <2>9, <2>10 DEF ReplaysTrades, S, T, c, t
<1>17. CASE j.seen # None /\ c.of # a
  <2>1. /\ SeenKnown(j) /\ ChangeKnown(j) /\ txn[t] # None
        /\ SameTrade(j.seen, txn[t]) /\ SameTrade(j.row, j.seen)
    BY <1>1, <1>17 DEF SeenKnown, ChangeKnown, t
  <2>2. row.qty = txn[t].qty /\ row.type = txn[t].type /\ row.born = txn[t].born
    BY <1>1, <1>17, <2>1 DEF SameTrade, SameBooks
  <2>3. CASE row.qty = 0
    BY <1>6, <1>13, <1>17, <2>2, <2>3
  <2>4. CASE row.qty # 0 /\ a \notin InvestOf(row)
    BY <1>6, <1>9, <1>13, <1>17, <2>2, <2>4
  <2>5. CASE row.qty # 0 /\ a \in InvestOf(row)
    <3>1. HoldingOf(row) = a /\ HoldingOf(txn[t]) = a /\ a \in InvestOf(txn[t])
      BY <1>9, <1>17, <2>5
    <3>2. CASE c.of = None
      <4>1. txn[t] = j.seen
        BY <1>1, <1>6, <1>8, <3>1
      <4>2. SameBooks(j.row, j.seen) /\ j.row.day = j.seen.day /\ j.row.live = txn[t].live
        BY <1>1, <2>1, <2>5, <3>2 DEF ChangeKnown, c, t
      <4>3. SameReplay(txn[t], row) /\ SameBooks(row, txn[t]) /\ row.live = txn[t].live
        BY <1>1, <2>2, <4>1, <4>2 DEF SameReplay, SameBooks
      <4>4. t \in S <=> t \in T
        BY <1>6, <2>1, <2>2, <2>5, <3>1, <4>3
      <4> QED
        BY <1>13, <1>17, <2>5, <3>2, <4>3, <4>4
    <3>3. CASE c.of # None
      <4>1. c.of = HoldingOf(j.seen) /\ c.of # HoldingOf(j.row)
        BY <1>1, <1>7, <1>17, <2>1, <2>5, <3>1, <3>3 DEF ChangeKnown, c
      <4>2. WillMove(j)
        BY <3>3, <4>1 DEF WillMove, Place, c
      <4>3. {"moved"} \X (InvestOf(j.seen) \cup InvestOf(j.row)) \subseteq Skews(j)
        BY <1>17, <4>2 DEF Skews, WillMove
      <4>4. Moved(a)'
        BY <1>1, <1>7, <2>5, <4>3 DEF Moved
      <4> QED
        BY <4>4
    <3> QED
      BY <3>2, <3>3
  <2> QED
    BY <2>3, <2>4, <2>5
<1> QED
  BY <1>14, <1>15, <1>16, <1>17

LEMMA CommitHoldingKnown ==
    ASSUME HInv, NEW w \in Worker, CommitTxn(w), NEW a \in Invest, RowsAreKnown'
    PROVE  HoldingFits(a)'
<1> SUFFICES ASSUME Undisturbed(a)', ~Moved(a)'
             PROVE  SharesFit(txn, Held(a), a)' /\ (~Late(a)' => ReplayFits(txn, Held(a), a)')
  BY DEF HoldingFits
<1>1. PICK j : j = job[w]
  OBVIOUS
<1>2. PICK row : row = Stored(j)
  OBVIOUS
<1>3. PICK held : held = Held(a)
  OBVIOUS
<1>4. PICK next : next = Held(a)'
  OBVIOUS
<1>5. /\ row \in Row /\ txn \in Rows /\ txn' \in Rows
      /\ j.txn \in Txn
      /\ \A s \in Txn : txn'[s] = IF s = j.txn THEN row ELSE txn[s]
      /\ row.day = j.row.day
      /\ j.seen = None => row.born = Cardinality(Existing)
      /\ skewed' = skewed \cup Skews(j)
  BY <1>1, <1>2, CommitFacts
<1>6. /\ Undisturbed(a) /\ ~Moved(a)
      /\ Ordered(txn', Trades(txn', a))
      /\ KeepsTrades(j, row, a, held, next) \/ AddsTrade(j, row, a, held, next) \/ ReplaysTrades(j, row, a, held, next)
  BY <1>1, <1>2, <1>3, <1>4, CommitTrades
<1>7. ~Late(a)' => ~Late(a)
  BY <1>5 DEF Late
<1>8. SharesFit(txn, held, a) /\ (~Late(a) => ReplayFits(txn, held, a))
  <2>1. HoldingFits(a)
    BY HoldingRestated DEF HInv
  <2> QED
    BY <1>3, <1>6, <2>1 DEF HoldingFits
<1>9. SUFFICES SharesFit(txn', next, a) /\ (~Late(a)' => ReplayFits(txn', next, a))
  <2>1. /\ SharesFit(txn, next, a)' <=> SharesFit(txn', next, a)
        /\ ReplayFits(txn, next, a)' <=> ReplayFits(txn', next, a)
    BY DEF SharesFit, ReplayFits
  <2> QED
    BY <1>4, <1>9, <2>1
<1> DEFINE t == j.txn
           S == Trades(txn, a)
<1>10. S \in SUBSET Live(txn) /\ S \subseteq Txn
  BY DEF Trades, Live
<1>11. ASSUME NEW s \in S, s = t => SameReplay(txn[t], row)
       PROVE  SameReplay(txn[s], txn'[s])
  BY <1>5, <1>10, <1>11 DEF SameReplay
<1> HIDE DEF t, S
<1>12. CASE KeepsTrades(j, row, a, held, next)
  <2>1. next = held /\ Trades(txn', a) = S /\ \A s \in S : SameReplay(txn[s], txn'[s])
    BY <1>11, <1>12 DEF KeepsTrades, S, t
  <2>2. /\ SharesFit(txn, held, a) => SharesFit(txn', held, a)
        /\ ReplayFits(txn, held, a) => ReplayFits(txn', held, a)
    BY <1>5, <1>6, <2>1, SameTradesFit DEF S
  <2> QED
    BY <1>7, <1>8, <2>1, <2>2
<1>13. CASE AddsTrade(j, row, a, held, next)
  <2>1. /\ j.seen = None /\ j.change.of = a
        /\ t \notin S /\ Trades(txn', a) = S \cup {t}
        /\ EnoughToSell(row, held) /\ next = AfterTrade(row, held)
    BY <1>13 DEF AddsTrade, S, t
  <2>2. a \in Account /\ a # None /\ held \in Holding
    <3>1. a \in Account
      BY LedgerAssumption
    <3> QED
      BY <1>3, <3>1, NoneAssumption DEF HInv, IInv, TypeOK, Held, NoHolding, Holding
  <2>3. \A s \in S : SameReplay(txn[s], txn'[s])
    BY <1>11, <2>1
  <2>4. ASSUME ~Late(a)', NEW s \in S PROVE ~InOrder(txn', t, s)
    <3>1. ~(txn[s].day > row.day)
      <4>1. Skews(j) = {<<"backdated", a>> : u \in {u \in Trades(txn, a) : txn[u].day > j.row.day}}
        BY <2>1, <2>2 DEF Skews
      <4>2. <<"backdated", a>> \notin Skews(j)
        BY <1>5, <2>4 DEF Late
      <4> QED
        BY <1>5, <2>4, <4>1, <4>2 DEF S
    <3>2. s \in Existing /\ txn[s] \in Row /\ txn'[s] = txn[s] /\ txn'[t] = row
      BY <1>5, <1>10, <2>1, <2>4 DEF Existing, Live, Rows, t
    <3>3. txn[s].born < row.born
      BY <1>5, <2>1, <3>2 DEF HInv, RowsAreKnown, RowKnown
    <3>4. Day \subseteq Nat
      BY LedgerAssumption
    <3>5. txn[s].day \in Nat /\ row.day \in Nat /\ txn[s].born \in Nat /\ row.born \in Nat
      <4>1. txn[s].day \in Day /\ row.day \in Day /\ txn[s].born \in Nat /\ row.born \in Nat
        BY <1>5, <3>2 DEF Row
      <4> QED
        BY <3>4, <4>1
    <3> QED
      BY <3>1, <3>2, <3>3, <3>5 DEF InOrder
  <2>5. txn'[t] = row
    BY <1>5 DEF t
  <2>6. /\ SharesFit(txn, held, a) => SharesFit(txn', next, a)
        /\ ReplayFits(txn, held, a) /\ (\A s \in S : ~InOrder(txn', t, s)) => ReplayFits(txn', next, a)
    <3>1. PICK old : old = txn
      OBVIOUS
    <3>2. PICK new : new = txn'
      OBVIOUS
    <3>3. old \in Rows /\ new \in Rows /\ Ordered(new, Trades(new, a))
      BY <1>5, <1>6, <3>1, <3>2
    <3>4. t \notin Trades(old, a) /\ Trades(new, a) = Trades(old, a) \cup {t}
      BY <2>1, <3>1, <3>2 DEF S
    <3>5. \A s \in Trades(old, a) : SameReplay(old[s], new[s])
      BY <2>3, <3>1, <3>2 DEF S
    <3>6. EnoughToSell(new[t], held) /\ next = AfterTrade(new[t], held)
      BY <2>1, <2>5, <3>2
    <3>7. /\ SharesFit(old, held, a) => SharesFit(new, next, a)
          /\ ReplayFits(old, held, a) /\ (\A s \in Trades(old, a) : ~InOrder(new, t, s)) =>
               ReplayFits(new, next, a)
      BY <2>2, <3>3, <3>4, <3>5, <3>6, NewTradeFits
    <3> QED
      BY <3>1, <3>2, <3>7 DEF S
  <2> QED
    BY <1>7, <1>8, <2>4, <2>6
<1>14. CASE ReplaysTrades(j, row, a, held, next)
  <2>1. Replay(txn', a).ok /\ next = Replay(txn', a).held
    BY <1>14 DEF ReplaysTrades
  <2> QED
    BY <1>5, <2>1, ReplayFitsItself
<1> QED
  BY <1>6, <1>12, <1>13, <1>14

-------------------------------------------------------------------------------
(* The theorem                                                             *)

LEMMA KnownStep == HInv /\ [Next]_vars => HInv'
<1> SUFFICES ASSUME HInv, [Next]_vars PROVE HInv'
  OBVIOUS
<1>1. IInv'
  BY Step DEF HInv
<1>2. SUFFICES RowsAreKnown' /\ JobsAreKnown' /\ HoldingIsReplay'
  BY <1>1 DEF HInv
<1>3. ASSUME NEW w \in Worker, Work(w) PROVE RowsAreKnown' /\ JobsAreKnown' /\ HoldingIsReplay'
  <2>1. ASSUME NEW t \in DOMAIN Payload, NEW p \in Payload[t], BeginCreate(w, t, p)
        PROVE  RowsAreKnown' /\ JobsAreKnown' /\ HoldingIsReplay'
    BY <2>1, BeginCreateKnown
  <2>2. ASSUME NEW t \in DOMAIN Edit, NEW edit \in Edit[t], BeginUpdate(w, t, edit)
        PROVE  RowsAreKnown' /\ JobsAreKnown' /\ HoldingIsReplay'
    BY <2>2, BeginUpdateKnown
  <2>3. ASSUME NEW t \in Txn, BeginDelete(w, t)
        PROVE  RowsAreKnown' /\ JobsAreKnown' /\ HoldingIsReplay'
    BY <2>3, BeginDeleteKnown
  <2>4. CASE ApplyUpdate(w)
    BY <2>4, ApplyUpdateKnown
  <2>5. CASE ApplyDelete(w)
    BY <2>5, ApplyDeleteKnown
  <2>6. CASE CommitTxn(w)
    <3>1. RowsAreKnown' /\ JobsAreKnown'
      BY <2>6, CommitRowsKnown, CommitJobsKnown
    <3>2. \A a \in Invest : HoldingFits(a)'
      BY <2>6, <3>1, CommitHoldingKnown
    <3> QED
      BY <3>1, <3>2, HoldingRestated
  <2>7. CASE Abort(w)
    BY <2>7, KnownIdleStep DEF Abort, tables, history
  <2>8. ASSUME NEW a \in Closing, BeginDeleteAccount(w, a)
        PROVE  RowsAreKnown' /\ JobsAreKnown' /\ HoldingIsReplay'
    BY <2>8, BeginDeleteAccountKnown
  <2>9. CASE CommitDeleteAccount(w)
    BY <2>9, CommitDeleteAccountKnown
  <2> QED
    BY <1>3, <2>1, <2>2, <2>3, <2>4, <2>5, <2>6, <2>7, <2>8, <2>9 DEF Work
<1>4. CASE UNCHANGED vars
  <2>1. UNCHANGED <<txn, holding, overtaken, skewed>> /\ crossed' = crossed /\ job' = job
    BY <1>4 DEF vars
  <2>2. RowsAreKnown'
    BY <2>1 DEF HInv, RowsAreKnown, RowKnown, AtHome, SomeMoved, Moved, Existing
  <2>3. JobsAreKnown'
    <3>1. ASSUME NEW w \in Worker PROVE JobKnown(job[w])'
      <4>1. PICK k : k = job[w] /\ JobKnown(k)
        BY DEF HInv, JobsAreKnown
      <4>2. JobKnown(k)'
        BY <2>1, <4>1, JobStaysKnown
      <4> QED
        BY <2>1, <4>1, <4>2
    <3> QED
      BY <3>1 DEF JobsAreKnown
  <2>4. HoldingIsReplay'
    BY <2>1, HoldingsStay DEF HInv
  <2> QED
    BY <2>2, <2>3, <2>4
<1> QED
  BY <1>3, <1>4 DEF Next

LEMMA KnownInvariance == Spec => []HInv
<1>1. Init => HInv
  BY KnownInitially
<1>2. HInv /\ [Next]_vars => HInv'
  BY KnownStep
<1> QED
  BY <1>1, <1>2, PTL DEF Spec

\* A holding has the shares its live trades brought and did not sell, and is their replay
\* (recomputeHolding), however trades are created, edited and deleted at once: unless two
\* writers of the holding crossed, or a trade was taken to another account.
THEOREM HoldingOfTrades == Spec => []HoldingIsReplay
<1>1. HInv => HoldingIsReplay
  BY DEF HInv
<1> QED
  BY <1>1, KnownInvariance, PTL

-------------------------------------------------------------------------------
(* What holdings cost                                                      *)

\* The entry that a request is about to commit carries the cost by which it changes the
\* holding; a trade whose holding is left alone keeps its entry; and an account is only
\* ended when no entry was found for it.
CostBooked(j) ==
    LET c == j.change
        replay == Replay(Based(c.basis), c.of)
    IN /\ j.seen = None /\ c.of # None /\ j.row.type = "invest_sell" =>
            BookedCost(j.row, j.lines) = CostOf(Opening(c.was), j.row.qty)
       /\ j.seen # None /\ c.of = None /\ j.row.qty # 0 => j.lines = Keep
       /\ j.seen # None /\ c.of # None /\ j.txn \in DOMAIN c.basis =>
            /\ j.lines \notin {None, Keep}
            /\ j.row.type = "invest_sell" => BookedCost(j.row, j.lines) = replay.costs[j.txn]
JobCosted(j) ==
    /\ j.op = "commit" => CostBooked(j)
    /\ j.op = "close" => ~j.used

\* A holding costs what its trades were booked with, unless a replay has given another
\* cost to one of them.
CostParts(rows, lines, s) == [t \in s |-> CostPart(rows[t], BookedCost(rows[t], lines[t]))]
Booked(a) == SumFunction(CostParts(txn, entry, Trades(txn, a)))
Rewritten(a) == <<"rewritten", a>> \in skewed
CostFits(a) == Undisturbed(a) /\ ~Moved(a) /\ ~Rewritten(a) => Held(a).cost = Booked(a)

\* Transactions have entries, other accounts have holdings only when a trade was taken
\* from or to an investment account, and ended accounts have no lines.
Entered == \A t \in Live(txn) \ overtaken : entry[t] # None
HoldingsAtHome == (\E a \in Account \ Invest : holding[a] # None) => SomeMoved
EndedUnused == \A a \in Account \ (open \cup crossed) : ~Used(a)

CostInv ==
    /\ \A w \in Worker : JobCosted(job[w])
    /\ \A a \in Invest : CostFits(a)
    /\ Entered
    /\ HoldingsAtHome
    /\ EndedUnused

CInv == HInv /\ CostInv

LEMMA CostedInitially == Init => CInv
<1> SUFFICES ASSUME Init PROVE CInv
  OBVIOUS
<1>1. HInv
  BY KnownInitially
<1>2. \A w \in Worker : JobCosted(job[w])
  BY DEF Init, JobCosted, Idle
<1>3. ASSUME NEW a \in Invest PROVE CostFits(a)
  <2>1. Held(a) = NoHolding /\ Trades(txn, a) = {}
    <3>1. a \in Account
      BY LedgerAssumption
    <3> QED
      BY <3>1 DEF Init, Held, Trades, Live
  <2> DEFINE f == CostParts(txn, entry, Trades(txn, a))
  <2>2. f \in [{} -> Int]
    BY <2>1 DEF CostParts
  <2> HIDE DEF f
  <2>3. SumFunction(f) = 0
    BY <2>2, SumOfNone
  <2> QED
    BY <2>1, <2>3 DEF CostFits, Booked, NoHolding, f
<1>4. Entered /\ HoldingsAtHome /\ EndedUnused
  BY DEF Init, Entered, Live, HoldingsAtHome, EndedUnused
<1> QED
  BY <1>1, <1>2, <1>3, <1>4 DEF CInv, CostInv

\* Holdings, trades and entries that are left alone.
LEMMA CostsStay ==
    ASSUME CostInv, UNCHANGED <<txn, entry, holding, overtaken, skewed>>, crossed \subseteq crossed'
    PROVE  (\A a \in Invest : CostFits(a)') /\ Entered' /\ HoldingsAtHome'
<1>1. (\A a \in Invest : CostFits(a)) /\ Entered /\ HoldingsAtHome
  BY DEF CostInv
<1>2. Entered' /\ HoldingsAtHome'
  BY <1>1 DEF Entered, HoldingsAtHome, SomeMoved, Moved
<1>3. \A a \in Invest : CostFits(a)'
  BY <1>1 DEF CostFits, Undisturbed, Moved, Rewritten, Held, Booked
<1> QED
  BY <1>2, <1>3

LEMMA CostedJobStep ==
    ASSUME CInv, NEW w \in Worker, NEW j, job' = [job EXCEPT ![w] = j], JobCosted(j),
           UNCHANGED <<tables, history>>
    PROVE  CostInv'
<1>1. DOMAIN job = Worker /\ CostInv
  BY DEF CInv, HInv, IInv, TypeOK
<1>2. \A v \in Worker : JobCosted(job'[v])
  <2>1. ASSUME NEW v \in Worker PROVE job'[v] = IF v = w THEN j ELSE job[v]
    BY <1>1
  <2> QED
    BY <1>1, <2>1 DEF CostInv
<1>3. \A v \in Worker : JobCosted(job[v])'
  BY <1>2 DEF JobCosted, CostBooked
<1>4. (\A a \in Invest : CostFits(a)') /\ Entered' /\ HoldingsAtHome'
  BY <1>1, CostsStay DEF tables, history
<1>5. EndedUnused'
  BY <1>1 DEF CostInv, EndedUnused, Used, tables, history
<1> QED
  BY <1>3, <1>4, <1>5 DEF CostInv

LEMMA CostedIdleStep ==
    ASSUME CInv, NEW w \in Worker, Set(w, Idle), UNCHANGED <<tables, history>>
    PROVE  CostInv'
<1>1. PICK j : j = Idle
  OBVIOUS
<1>2. JobCosted(j) /\ job' = [job EXCEPT ![w] = j]
  BY <1>1 DEF JobCosted, Idle, Set
<1> QED
  BY <1>2, CostedJobStep

LEMMA BeginCreateCosted ==
    ASSUME CInv, NEW w \in Worker, NEW t \in DOMAIN Payload, NEW p \in Payload[t],
           BeginCreate(w, t, p)
    PROVE  CostInv'
<1> DEFINE row  == NewRow(p)
           a    == HoldingOf(row)
           held == IF a = None \/ holding[a] = None THEN NoHolding ELSE holding[a]
           cost == IF a # None /\ row.type = "invest_sell" THEN CostOf(held, row.qty) ELSE row.amount
           next == IF row.type = "invest_sell" THEN ApplySell(held, row.qty)
                   ELSE ApplyBuy(held, row.qty, row.amount)
           change == IF a = None THEN NoChange ELSE HoldingChange(txn, a, next)
           lines == BuildPosting(row, cost)
           opened == Opened(row)
<1>1. row \in Row
  BY NewRowSound
<1>2. /\ a # None => EnoughToSell(row, held)
      /\ Postable(row, cost, open \cup opened)
      /\ job' = [job EXCEPT ![w] = [Ready(t, None, row, lines, change) EXCEPT !.opened = opened]]
      /\ UNCHANGED <<tables, history>>
  BY DEF BeginCreate, Set
<1>3. open \cup opened \in SUBSET Account
  <2>1. Equity \in Account
    BY LedgerAssumption
  <2> QED
    BY <2>1 DEF CInv, HInv, IInv, TypeOK, Opened
<1>4. a \in Account \cup {None} /\ row.qty \in Nat /\ row.amount \in Nat /\ (a # None => row.qty # 0)
  BY <1>1 DEF HoldingOf, Row, Amount
<1>5. held \in Holding
  <2>1. NoHolding \in Holding
    BY DEF NoHolding, Holding
  <2>2. a # None => holding[a] \in Holding \cup {None}
    BY <1>4 DEF CInv, HInv, IInv, TypeOK
  <2> QED
    BY <2>1, <2>2
<1>6. a = None => change.of = None
  BY DEF NoChange
<1>7. a # None => held = Opening(change.was)
  BY DEF HoldingChange, Opening
<1> HIDE DEF row, a, held
<1>8. cost \in Int /\ (a # None /\ row.type = "invest_sell" => cost = CostOf(held, row.qty))
  BY <1>2, <1>4, <1>5, TradesSound DEF EnoughToSell, Holding
<1> HIDE DEF cost, opened, change
<1>9. row.type = "invest_sell" => BookedCost(row, lines) = cost
  BY <1>1, <1>2, <1>3, <1>8, PostingSound
<1> HIDE DEF lines
<1>10. PICK j : j = [Ready(t, None, row, lines, change) EXCEPT !.opened = opened]
  OBVIOUS
<1>11. j.op = "commit" /\ j.seen = None /\ j.row = row /\ j.lines = lines /\ j.change = change
  BY <1>10 DEF Ready
<1>12. JobCosted(j)
  BY <1>6, <1>7, <1>8, <1>9, <1>11 DEF JobCosted, CostBooked
<1> QED
  BY <1>2, <1>10, <1>12, CostedJobStep

\* What a sale costs in a replay of rows that a request has read.
LEMMA ReplayedCost ==
    ASSUME NEW rows \in Rows, NEW a, Ordered(rows, Trades(rows, a)), Replay(rows, a).ok,
           NEW t, NEW row, rows[t] = row, NEW held,
           NEW c, c = HoldingChange(rows, a, held)
    PROVE  /\ Replay(Based(c.basis), c.of).costs[t] = Replay(rows, a).costs[t]
           /\ t \in DOMAIN c.basis /\ row.type = "invest_sell" =>
                CostInReplay(Replay(rows, a), t, row) = Replay(rows, a).costs[t]
<1>1. PICK b : b = [s \in Trades(rows, a) |-> rows[s]]
  OBVIOUS
<1>2. c.of = a /\ c.basis = b
  BY <1>1 DEF HoldingChange
<1>3. Replay(Based(b), a) = Replay(rows, a)
  BY <1>1, BasisSound
<1>4. DOMAIN b = Trades(rows, a)
  BY <1>1
<1>5. ASSUME t \in Trades(rows, a), row.type = "invest_sell"
      PROVE  Replay(rows, a).costs[t] # None
  <2>1. Replay(rows, a).costs[t] \in Nat
    BY <1>5, ReplayAddsUp DEF AddsUp
  <2> QED
    BY <2>1, ValueAssumption
<1> QED
  BY <1>2, <1>3, <1>4, <1>5 DEF CostInReplay

LEMMA ApplyUpdateCosted ==
    ASSUME CInv, NEW w \in Worker, ApplyUpdate(w)
    PROVE  CostInv'
<1> DEFINE j    == job[w]
           t    == j.txn
           seen == j.seen
           row  == Updated(j)
           rows == [txn EXCEPT ![t] = row]
           a    == HoldingOf(row)
           replay == Replay(rows, a)
           cost == CostInReplay(replay, t, row)
           change == HoldingChange(rows, a, replay.held)
<1>1. j.op = "update" /\ UNCHANGED <<tables, history>>
  BY DEF ApplyUpdate
<1>2. /\ t \in Txn /\ txn[t] # None /\ seen # None /\ txn \in Rows /\ open \subseteq Account
      /\ RowsAreKnown
      /\ row \in Row /\ SameTrade(row, txn[t]) /\ (row.qty # 0 => row.type \in Trade)
  BY <1>1, UpdateFacts DEF CInv
<1>3. \/ Set(w, Idle)
      \/ Set(w, Ready(t, seen, row, Keep, NoChange))
      \/ /\ a = None /\ Postable(row, row.amount, open)
         /\ Set(w, Ready(t, seen, row, BuildPosting(row, row.amount), NoChange))
      \/ /\ a # None /\ replay.ok /\ Postable(row, cost, open)
         /\ Set(w, Ready(t, seen, row, BuildPosting(row, cost), change))
  BY DEF ApplyUpdate, Updated
<1> HIDE DEF row
<1>4. rows \in Rows /\ rows[t] = row
  BY <1>2 DEF Rows
<1>5. Ordered(rows, Trades(rows, a))
  <2>1. row.born = txn[t].born
    BY <1>2 DEF SameTrade
  <2> QED
    BY <1>2, <2>1, OrderedAfter
<1>6. NoChange.of = None
  BY DEF NoChange
<1>7. ASSUME NEW lines, NEW c, Set(w, Ready(t, seen, row, lines, c)),
             c.of = None /\ row.qty # 0 => lines = Keep,
             c.of # None /\ t \in DOMAIN c.basis =>
               /\ lines \notin {None, Keep}
               /\ row.type = "invest_sell" =>
                    BookedCost(row, lines) = Replay(Based(c.basis), c.of).costs[t]
      PROVE  CostInv'
  <2> HIDE DEF t, seen, j
  <2>1. PICK k : k = Ready(t, seen, row, lines, c)
    OBVIOUS
  <2>2. /\ k.op = "commit" /\ k.txn = t /\ k.seen = seen /\ k.row = row /\ k.lines = lines
        /\ k.change = c
    BY <2>1 DEF Ready
  <2>3. JobCosted(k)
    BY <1>2, <1>7, <2>2 DEF JobCosted, CostBooked
  <2>4. job' = [job EXCEPT ![w] = k]
    BY <1>7, <2>1 DEF Set
  <2> QED
    BY <1>1, <2>3, <2>4, CostedJobStep
<1> HIDE DEF rows, t, seen, j
<1>8. CASE Set(w, Idle)
  BY <1>1, <1>8, CostedIdleStep
<1>9. CASE Set(w, Ready(t, seen, row, Keep, NoChange))
  BY <1>6, <1>7, <1>9
<1>10. CASE a = None /\ Postable(row, row.amount, open)
            /\ Set(w, Ready(t, seen, row, BuildPosting(row, row.amount), NoChange))
  <2>1. row.qty = 0
    BY <1>2, <1>10, PostableHolding, NoneAssumption
  <2> QED
    BY <1>6, <1>7, <1>10, <2>1
<1>11. CASE a # None /\ replay.ok /\ Postable(row, cost, open)
            /\ Set(w, Ready(t, seen, row, BuildPosting(row, cost), change))
  <2>1. PICK c : c = change
    OBVIOUS
  <2>2. PICK k : k = cost
    OBVIOUS
  <2>3. /\ Replay(Based(c.basis), c.of).costs[t] = replay.costs[t]
        /\ t \in DOMAIN c.basis /\ row.type = "invest_sell" => k = replay.costs[t]
    BY <1>4, <1>5, <1>11, <2>1, <2>2, ReplayedCost
  <2>4. replay \in Replayed /\ row.amount \in Int
    BY <1>2, <1>4, ReplaySound DEF Row, Amount
  <2>5. k \in Int
    BY <1>2, <2>2, <2>4 DEF CostInReplay, Replayed
  <2> DEFINE lines == BuildPosting(row, k)
  <2>6. lines \in Lines /\ (row.type = "invest_sell" => BookedCost(row, lines) = k)
    BY <1>2, <1>11, <2>2, <2>5, PostingSound
  <2>7. Set(w, Ready(t, seen, row, lines, c))
    BY <1>11, <2>1, <2>2
  <2> HIDE DEF lines
  <2>8. lines \notin {None, Keep}
    BY <2>6, ValueAssumption
  <2>9. c.of # None
    BY <1>11, <2>1 DEF HoldingChange
  <2>10. t \in DOMAIN c.basis /\ row.type = "invest_sell" =>
           BookedCost(row, lines) = Replay(Based(c.basis), c.of).costs[t]
    BY <2>3, <2>6
  <2> QED
    BY <1>7, <2>7, <2>8, <2>9, <2>10
<1> QED
  BY <1>3, <1>8, <1>9, <1>10, <1>11

LEMMA ApplyDeleteCosted ==
    ASSUME CInv, NEW w \in Worker, ApplyDelete(w)
    PROVE  CostInv'
<1> DEFINE j    == job[w]
           t    == j.txn
           seen == j.seen
           old  == txn[t]
           row  == [old EXCEPT !.live = FALSE, !.version = seen.version + 1]
           rows == [txn EXCEPT ![t] = row]
           a    == HoldingOf(seen)
           change == HoldingChange(rows, a, Replay(rows, a).held)
<1>1. j.op = "delete" /\ UNCHANGED <<tables, history>>
  BY DEF ApplyDelete
<1>2. t \in Txn /\ txn \in Rows /\ old \in Row /\ SeenKnown(j) /\ seen # None
  <2>1. JobKnown(j) /\ EditSound(j) /\ TypeOK
    BY <1>1 DEF CInv, HInv, IInv, JobsAreSound, JobSound, JobsAreKnown
  <2> QED
    BY <1>1, <2>1 DEF TypeOK, EditSound, JobKnown, Rows
<1>3. \/ Set(w, Idle)
      \/ a = None /\ Set(w, Ready(t, seen, row, None, NoChange))
      \/ a # None /\ Set(w, Ready(t, seen, row, None, change))
  BY DEF ApplyDelete
<1>4. ~row.live /\ row.qty = old.qty
  BY <1>2 DEF Row
<1> HIDE DEF row
<1>5. a = None => row.qty = 0
  BY <1>2, <1>4 DEF SeenKnown, SameTrade, AtHome, HoldingOf
<1>6. t \notin DOMAIN change.basis
  <2>1. rows[t] = row
    BY <1>2 DEF Rows
  <2>2. t \notin Trades(rows, a)
    BY <1>4, <2>1 DEF Trades, Live
  <2> QED
    BY <2>2 DEF HoldingChange
<1>7. NoChange.of = None /\ change.of = a
  BY DEF NoChange, HoldingChange
<1> HIDE DEF a, change, rows, seen, old, t, j
<1>8. ASSUME NEW c, Set(w, Ready(t, seen, row, None, c)),
             c.of = None => row.qty = 0, c.of # None => t \notin DOMAIN c.basis
      PROVE  CostInv'
  <2>1. PICK k : k = Ready(t, seen, row, None, c)
    OBVIOUS
  <2>2. k.op = "commit" /\ k.txn = t /\ k.seen = seen /\ k.row = row /\ k.change = c
    BY <2>1 DEF Ready
  <2>3. JobCosted(k)
    BY <1>2, <1>8, <2>2 DEF JobCosted, CostBooked
  <2>4. job' = [job EXCEPT ![w] = k]
    BY <1>8, <2>1 DEF Set
  <2> QED
    BY <1>1, <2>3, <2>4, CostedJobStep
<1>9. CASE Set(w, Idle)
  BY <1>1, <1>9, CostedIdleStep
<1>10. CASE a = None /\ Set(w, Ready(t, seen, row, None, NoChange))
  BY <1>5, <1>7, <1>8, <1>10
<1>11. CASE a # None /\ Set(w, Ready(t, seen, row, None, change))
  BY <1>6, <1>7, <1>8, <1>11
<1> QED
  BY <1>3, <1>9, <1>10, <1>11

\* Requests that only read have nothing to book.
LEMMA ReadCosted ==
    ASSUME CInv, NEW w \in Worker, NEW j, Set(w, j), j.op \notin {"commit", "close"},
           UNCHANGED <<tables, history>>
    PROVE  CostInv'
BY CostedJobStep DEF Set, JobCosted

LEMMA BeginDeleteAccountCosted ==
    ASSUME CInv, NEW w \in Worker, NEW a \in Closing, BeginDeleteAccount(w, a)
    PROVE  CostInv'
<1>1. PICK j : j = [op |-> "close", account |-> a, used |-> Used(a)]
  OBVIOUS
<1>2. job' = [job EXCEPT ![w] = j] /\ UNCHANGED <<tables, history>> /\ ~Used(a)
  BY <1>1 DEF BeginDeleteAccount, Set, Deletable
<1>3. JobCosted(j)
  BY <1>1, <1>2 DEF JobCosted
<1> QED
  BY <1>2, <1>3, CostedJobStep

LEMMA CommitDeleteAccountCosted ==
    ASSUME CInv, NEW w \in Worker, CommitDeleteAccount(w)
    PROVE  CostInv'
<1> DEFINE a == job[w].account
<1>1. /\ job[w].op = "close" /\ open' = open \ {a} /\ job' = [job EXCEPT ![w] = Idle]
      /\ crossed' = crossed \cup (IF Used(a) /\ ~job[w].used THEN {a} ELSE {})
      /\ UNCHANGED <<txn, entry, holding, overtaken, skewed>>
  BY DEF CommitDeleteAccount, Set
<1>2. DOMAIN job = Worker /\ CostInv /\ ~job[w].used
  BY <1>1 DEF CInv, HInv, IInv, TypeOK, CostInv, JobCosted
<1>3. \A v \in Worker : JobCosted(job[v])'
  <2>1. SUFFICES ASSUME NEW v \in Worker PROVE JobCosted(job[v])'
    OBVIOUS
  <2>2. PICK k : k = job'[v]
    OBVIOUS
  <2>3. JobCosted(k)
    <3>1. k = IF v = w THEN Idle ELSE job[v]
      BY <1>1, <1>2, <2>2
    <3>2. JobCosted(Idle)
      BY DEF JobCosted, Idle
    <3> QED
      BY <1>2, <3>1, <3>2 DEF CostInv
  <2> QED
    BY <2>2, <2>3 DEF JobCosted, CostBooked
<1>4. (\A b \in Invest : CostFits(b)') /\ Entered' /\ HoldingsAtHome'
  BY <1>1, <1>2, CostsStay
<1>5. EndedUnused'
  BY <1>1, <1>2 DEF CostInv, EndedUnused, Used
<1> QED
  BY <1>3, <1>4, <1>5 DEF CostInv

\* A trade of an account that nothing has disturbed has an entry of its own.
LEMMA TradesAtHome ==
    ASSUME CInv, NEW a \in Invest, Undisturbed(a), ~Moved(a), NEW t \in Trades(txn, a)
    PROVE  /\ t \in Txn /\ txn[t] \in Row /\ txn[t].type \in Trade /\ txn[t].qty # 0
           /\ HoldingOf(txn[t]) = a
           /\ entry[t] \in Lines /\ Books(txn[t], entry[t])
           /\ CostPart(txn[t], BookedCost(txn[t], entry[t])) \in Int
<1>1. /\ txn \in [Txn -> Row \cup {None}] /\ entry \in [Txn -> Lines \cup {None}]
      /\ EntryMatchesRow /\ Entered
      /\ \A s \in Existing : RowKnown(txn[s])
  BY DEF CInv, HInv, IInv, TypeOK, CostInv, RowsAreKnown
<1>2. /\ t \in Live(txn) /\ t \in Txn /\ txn[t] # None /\ txn[t] \in Row /\ txn[t].qty # 0
      /\ a \in InvestOf(txn[t]) /\ RowKnown(txn[t])
  BY <1>1 DEF Trades, Live, Existing, InvestOf
<1>3. txn[t].type \in Trade /\ HoldingOf(txn[t]) = a
  BY <1>2 DEF RowKnown, AtHome
<1>4. t \notin overtaken
  BY <1>3 DEF Undisturbed
<1>5. entry[t] \in Lines /\ Books(txn[t], entry[t])
  BY <1>1, <1>2, <1>4 DEF Entered, EntryMatchesRow
<1>6. BookedCost(txn[t], entry[t]) \in Int
  <2>1. a \in Account /\ txn[t].amount \in Int
    BY <1>2, LedgerAssumption DEF Row, Amount
  <2>2. txn[t].type = "invest_sell" => txn[t].from = a
    BY <1>2, <1>3 DEF HoldingOf
  <2> QED
    BY <1>5, <2>1, <2>2 DEF BookedCost, At, Lines
<1>7. CostPart(txn[t], BookedCost(txn[t], entry[t])) \in Int
  BY <1>2, <1>6 DEF CostPart, Row, Amount
<1> QED
  BY <1>2, <1>3, <1>5, <1>7

LEMMA CommitEntries ==
    ASSUME CInv, NEW w \in Worker, CommitTxn(w), NEW j, j = job[w]
    PROVE  /\ \A s \in Txn : entry'[s] = IF s = j.txn /\ j.lines # Keep THEN j.lines ELSE entry[s]
           /\ Fitting(j) /\ CostBooked(j)
           /\ open' = open \cup j.opened
           /\ crossed \subseteq crossed' /\ Touches(j.lines) \ open' \subseteq crossed'
           /\ holding' = IF j.change.of = None THEN holding
                         ELSE [holding EXCEPT ![j.change.of] = j.change.next]
<1>1. /\ j.op = "commit"
      /\ entry' = [entry EXCEPT ![j.txn] = IF j.lines = Keep THEN @ ELSE j.lines]
      /\ open' = open \cup j.opened
      /\ crossed \subseteq crossed' /\ Touches(j.lines) \ open' \subseteq crossed'
      /\ holding' = IF j.change.of = None THEN holding
                    ELSE [holding EXCEPT ![j.change.of] = j.change.next]
  BY DEF CommitTxn
<1>2. DOMAIN entry = Txn /\ Fitting(j) /\ JobCosted(j)
  BY <1>1 DEF CInv, HInv, IInv, TypeOK, LinesFit, CostInv
<1> QED
  BY <1>1, <1>2 DEF JobCosted

LEMMA CommitCostFits ==
    ASSUME CInv, NEW w \in Worker, CommitTxn(w), NEW a \in Invest, RowsAreKnown'
    PROVE  CostFits(a)'
<1> SUFFICES ASSUME Undisturbed(a)', ~Moved(a)', ~Rewritten(a)'
             PROVE  (Held(a).cost = Booked(a))'
  BY DEF CostFits
<1>1. PICK j : j = job[w]
  OBVIOUS
<1>2. PICK row : row = Stored(j)
  OBVIOUS
<1>3. PICK held : held = Held(a)
  OBVIOUS
<1>4. PICK next : next = Held(a)'
  OBVIOUS
<1>5. /\ j.txn \in Txn /\ row \in Row /\ txn \in Rows /\ txn' \in Rows
      /\ \A s \in Txn : txn'[s] = IF s = j.txn THEN row ELSE txn[s]
      /\ SameBooks(row, j.row) /\ row.qty = j.row.qty
      /\ skewed' = skewed \cup Skews(j)
      /\ HInv
  <2>1. HInv
    BY DEF CInv
  <2> QED
    BY <1>1, <1>2, <2>1, CommitFacts
<1>6. /\ Undisturbed(a) /\ ~Moved(a)
      /\ KeepsTrades(j, row, a, held, next) \/ AddsTrade(j, row, a, held, next)
         \/ ReplaysTrades(j, row, a, held, next)
  BY <1>1, <1>2, <1>3, <1>4, <1>5, CommitTrades
<1>7. /\ \A s \in Txn : entry'[s] = IF s = j.txn /\ j.lines # Keep THEN j.lines ELSE entry[s]
      /\ Fitting(j) /\ CostBooked(j)
  BY <1>1, CommitEntries
<1> DEFINE t == j.txn
           S == Trades(txn, a)
           T == Trades(txn', a)
           f == CostParts(txn, entry, S)
           g == CostParts(txn', entry', T)
<1>8. held.cost = SumFunction(f)
  <2>1. ~Rewritten(a)
    BY <1>5 DEF Rewritten
  <2>2. CostFits(a)
    BY DEF CInv, CostInv
  <2> QED
    BY <1>3, <1>6, <2>1, <2>2 DEF CostFits, Booked
<1>9. SUFFICES next.cost = SumFunction(g)
  BY <1>4, <1>9 DEF Booked
<1>10. S \subseteq Txn /\ T \subseteq Txn /\ IsFiniteSet(S)
  <2>1. S \subseteq Txn /\ T \subseteq Txn
    BY DEF Trades, Live
  <2> QED
    BY <2>1, FS_Subset, LedgerAssumption
<1>11. \A s \in S : s # t /\ s \in T => g[s] = f[s]
  BY <1>5, <1>7, <1>10 DEF CostParts
<1>12. BookedCost(row, j.lines) = BookedCost(j.row, j.lines) /\ row.type = j.row.type /\ row.amount = j.row.amount
  BY <1>5 DEF BookedCost, SameBooks
<1>13. CASE KeepsTrades(j, row, a, held, next)
  <2>1. next = held /\ T = S
    BY <1>13 DEF KeepsTrades
  <2>2. t \in S => j.lines = Keep /\ SameBooks(row, txn[t])
    BY <1>5, <1>7, <1>13 DEF KeepsTrades, CostBooked
  <2>3. t \in S => g[t] = f[t]
    <3>1. SUFFICES ASSUME t \in S PROVE g[t] = f[t]
      OBVIOUS
    <3>2. txn'[t] = row /\ entry'[t] = entry[t]
      BY <1>5, <1>7, <2>2, <3>1
    <3>3. CostPart(row, BookedCost(row, entry[t])) = CostPart(txn[t], BookedCost(txn[t], entry[t]))
      BY <2>2, <3>1 DEF CostPart, BookedCost, SameBooks
    <3> QED
      BY <2>1, <3>1, <3>2, <3>3 DEF CostParts
  <2>4. g = f
    BY <1>11, <2>1, <2>3 DEF CostParts
  <2> QED
    BY <1>8, <2>1, <2>4
<1>14. CASE AddsTrade(j, row, a, held, next)
  <2>1. /\ j.seen = None /\ j.change.of = a
        /\ t \notin S /\ T = S \cup {t}
        /\ Opening(j.change.was) = held
        /\ EnoughToSell(row, held) /\ next = AfterTrade(row, held)
    BY <1>14 DEF AddsTrade
  <2>2. a # None /\ a \in Account /\ held \in Holding
    <3>1. a \in Account
      BY LedgerAssumption
    <3> QED
      BY <1>3, <1>5, <3>1, NoneAssumption DEF HInv, IInv, TypeOK, Held, NoHolding, Holding
  <2>3. txn'[t] = row /\ entry'[t] = j.lines
    BY <1>5, <1>7, <2>1 DEF Fitting
  <2>4. row.qty \in Nat /\ row.qty # 0 /\ row.amount \in Nat /\ held.cost \in Nat /\ held.qty \in Nat
    <3>1. t \in T
      BY <2>1
    <3>2. row.qty # 0
      BY <2>3, <3>1 DEF Trades
    <3> QED
      BY <1>5, <2>2, <3>2 DEF Row, Amount, Holding
  <2>5. row.type = "invest_sell" => BookedCost(row, j.lines) = CostOf(held, row.qty)
    BY <1>5, <1>7, <1>12, <2>1, <2>2 DEF CostBooked
  <2>6. g[t] = IF row.type = "invest_sell" THEN -CostOf(held, row.qty) ELSE row.amount
    BY <2>1, <2>3, <2>5 DEF CostParts, CostPart
  <2>7. g[t] \in Int /\ next.cost = held.cost + g[t]
    <3>1. CASE row.type = "invest_sell"
      <4>1. row.qty <= held.qty /\ next = ApplySell(held, row.qty)
        BY <2>1, <3>1 DEF EnoughToSell, AfterTrade
      <4>2. 0 < row.qty
        BY <2>4
      <4>3. CostOf(held, row.qty) \in Nat
        BY <2>2, <2>4, <4>1, <4>2, TradesSound
      <4>4. next.cost = held.cost - CostOf(held, row.qty)
        BY <4>1 DEF ApplySell
      <4> QED
        BY <2>4, <2>6, <3>1, <4>3, <4>4
    <3>2. CASE row.type # "invest_sell"
      <4>1. next.cost = held.cost + row.amount
        BY <2>1, <3>2 DEF AfterTrade, ApplyBuy
      <4> QED
        BY <2>4, <2>6, <3>2, <4>1
    <3> QED
      BY <3>1, <3>2
  <2>8. f \in [S -> Int]
    <3>1. \A s \in S : CostPart(txn[s], BookedCost(txn[s], entry[s])) \in Int
      BY <1>6, TradesAtHome
    <3> QED
      BY <3>1 DEF CostParts
  <2>9. g \in [S \cup {t} -> Int] /\ \A s \in S : g[s] = f[s]
    <3>1. \A s \in S : g[s] = f[s]
      BY <1>11, <2>1
    <3>2. \A s \in S \cup {t} : g[s] \in Int
      BY <2>7, <2>8, <3>1
    <3>3. g = [s \in S \cup {t} |-> g[s]]
      BY <2>1 DEF CostParts
    <3> HIDE DEF g, f, S, t
    <3> QED
      BY <3>1, <3>2, <3>3
  <2> HIDE DEF f, g, S, T, t
  <2>10. SumFunction(g) = SumFunction(f) + g[t]
    BY <1>10, <2>1, <2>8, <2>9, SumOfOneMore
  <2> QED
    BY <1>8, <2>7, <2>10
<1>15. CASE ReplaysTrades(j, row, a, held, next)
  <2> DEFINE replay == Replay(txn', a)
  <2>1. /\ j.change.of = a /\ j.seen # None /\ a # None
        /\ replay.ok /\ next = replay.held
        /\ Replay(Based(j.change.basis), a) = replay
        /\ T \ {t} = S \ {t}
        /\ t \in T <=> t \in DOMAIN j.change.basis
    <3>1. a # None
      BY LedgerAssumption, NoneAssumption
    <3> QED
      BY <1>15, <3>1 DEF ReplaysTrades
  <2>2. next.cost = SumFunction([s \in T |-> CostPart(txn'[s], replay.costs[s])])
    <3>1. AddsUp(txn', T, replay)
      BY <1>5, <2>1, ReplayAddsUp
    <3> QED
      BY <2>1, <3>1 DEF AddsUp
  <2>3. [txn EXCEPT ![j.txn] = j.row] = txn'
    <3>1. j.row = row
      <4>1. j.row \in Row
        BY <1>1, <1>5 DEF HInv, IInv, JobsAreSound, JobSound, CommitSound, CommitTxn
      <4>2. row = [j.row EXCEPT !.born = j.row.born]
        BY <1>2, <2>1 DEF Stored, BornAt
      <4> QED
        BY <4>1, <4>2 DEF Row
    <3> QED
      BY <1>5, <3>1 DEF Rows
  <2>4. ASSUME NEW s \in T, txn'[s].type = "invest_sell"
        PROVE  BookedCost(txn'[s], entry'[s]) = replay.costs[s]
    <3>1. CASE s # t
      <4>1. s \in S \ {t} /\ txn'[s] = txn[s] /\ entry'[s] = entry[s]
        BY <1>5, <1>7, <1>10, <2>1, <2>4, <3>1
      <4>2. PICK r : r = Replay([txn EXCEPT ![j.txn] = j.row], a)
        OBVIOUS
      <4>3. r.costs[s] # BookedCost(txn[s], entry[s]) => <<"rewritten", a>> \in Skews(j)
        BY <2>1, <2>4, <4>1, <4>2 DEF Skews
      <4>4. <<"rewritten", a>> \notin Skews(j)
        BY <1>5 DEF Rewritten
      <4>5. r = replay
        BY <2>3, <4>2
      <4> QED
        BY <4>1, <4>3, <4>4, <4>5
    <3>2. CASE s = t
      <4>1. txn'[t] = row /\ t \in DOMAIN j.change.basis
        BY <1>5, <2>1, <2>4, <3>2
      <4>2. j.lines # Keep /\ BookedCost(j.row, j.lines) = replay.costs[t]
        BY <1>7, <1>12, <2>1, <2>4, <3>2, <4>1 DEF CostBooked
      <4>3. entry'[t] = j.lines
        BY <1>5, <1>7, <4>2
      <4> QED
        BY <1>12, <3>2, <4>1, <4>2, <4>3
    <3> QED
      BY <3>1, <3>2
  <2>5. \A s \in T : CostPart(txn'[s], replay.costs[s]) = CostPart(txn'[s], BookedCost(txn'[s], entry'[s]))
    BY <2>4 DEF CostPart
  <2>6. [s \in T |-> CostPart(txn'[s], replay.costs[s])] = g
    BY <2>5 DEF CostParts
  <2> QED
    BY <2>2, <2>6
<1> QED
  BY <1>6, <1>13, <1>14, <1>15

LEMMA CommitCosted ==
    ASSUME CInv, NEW w \in Worker, CommitTxn(w), RowsAreKnown'
    PROVE  CostInv'
<1>1. PICK j : j = job[w]
  OBVIOUS
<1>2. PICK row : row = Stored(j)
  OBVIOUS
<1> DEFINE t == j.txn
           c == j.change
<1>3. HInv /\ CostInv
  BY DEF CInv
<1>4. /\ t \in Txn /\ row # None /\ txn \in Rows
      /\ \A s \in Txn : txn'[s] = IF s = t THEN row ELSE txn[s]
      /\ \A v \in Worker : job'[v] = IF v = w THEN Idle ELSE job[v]
      /\ SameBooks(row, j.row) /\ row.qty = j.row.qty /\ row.live = j.row.live
      /\ j.seen = None => NewKnown(j)
      /\ j.seen # None => txn[t] # None /\ SeenKnown(j) /\ ChangeKnown(j)
      /\ overtaken' = overtaken \cup (IF txn[t] # j.seen THEN {t} ELSE {})
  BY <1>1, <1>2, <1>3, CommitFacts
<1>5. SomeMoved => SomeMoved'
  BY <1>1, <1>2, <1>3, CommitMoves
<1>6. /\ \A s \in Txn : entry'[s] = IF s = t /\ j.lines # Keep THEN j.lines ELSE entry[s]
      /\ Fitting(j)
      /\ open' = open \cup j.opened
      /\ crossed \subseteq crossed' /\ Touches(j.lines) \ open' \subseteq crossed'
      /\ holding' = IF c.of = None THEN holding ELSE [holding EXCEPT ![c.of] = c.next]
  BY <1>1, CommitEntries
<1> HIDE DEF t, c
<1>7. \A v \in Worker : JobCosted(job[v])'
  <2>1. SUFFICES ASSUME NEW v \in Worker PROVE JobCosted(job[v])'
    OBVIOUS
  <2>2. PICK k : k = job'[v]
    OBVIOUS
  <2>3. JobCosted(k)
    <3>1. JobCosted(Idle)
      BY DEF JobCosted, Idle
    <3> QED
      BY <1>3, <1>4, <2>2, <3>1 DEF CostInv
  <2> QED
    BY <2>2, <2>3 DEF JobCosted, CostBooked
<1>8. \A a \in Invest : CostFits(a)'
  BY CommitCostFits
<1>9. Entered'
  <2>1. SUFFICES ASSUME NEW s \in Live(txn'), s \notin overtaken' PROVE entry'[s] # None
    BY DEF Entered
  <2>2. /\ s \in Txn /\ txn'[s].live /\ s \notin overtaken /\ (s = t => txn[t] = j.seen)
        /\ \A u \in Live(txn) \ overtaken : entry[u] # None
    BY <1>3, <1>4, <2>1 DEF Live, CostInv, Entered
  <2>3. CASE s # t
    BY <1>4, <1>6, <2>1, <2>2, <2>3 DEF Live
  <2>4. CASE s = t
    <3>1. j.lines # None
      BY <1>4, <1>6, <2>2, <2>4 DEF Fitting
    <3>2. j.lines = Keep => t \in Live(txn)
      <4>1. j.lines = Keep => j.seen # None /\ j.seen.live
        BY <1>6 DEF Fitting
      <4> QED
        BY <1>4, <2>2, <2>4, <4>1 DEF Live
    <3> QED
      BY <1>6, <2>2, <2>4, <3>1, <3>2
  <2> QED
    BY <2>3, <2>4
<1>10. HoldingsAtHome'
  <2>1. SUFFICES ASSUME NEW b \in Account \ Invest, holding'[b] # None PROVE SomeMoved'
    BY DEF HoldingsAtHome
  <2>2. CASE b = c.of /\ c.of # None
    <3>1. c.of = HoldingOf(row) => SomeMoved'
      <4>1. t \in Existing' /\ txn'[t] = row
        BY <1>4 DEF Existing
      <4>2. AtHome(row, FALSE)'
        BY <4>1 DEF RowsAreKnown, RowKnown
      <4> QED
        BY <2>1, <2>2, <4>2 DEF AtHome, HoldingOf
    <3>2. HoldingOf(row) = HoldingOf(j.row)
      BY <1>4 DEF HoldingOf, SameBooks
    <3>3. CASE j.seen = None
      BY <1>4, <3>1, <3>2, <3>3 DEF NewKnown, c
    <3>4. CASE j.seen # None
      <4>1. c.of = HoldingOf(j.row) \/ c.of = HoldingOf(j.seen)
        BY <1>4, <2>2, <3>4 DEF ChangeKnown, c
      <4>2. c.of = HoldingOf(j.seen) => SomeMoved
        BY <1>4, <2>1, <2>2, <3>4 DEF SeenKnown, AtHome, HoldingOf
      <4> QED
        BY <1>5, <3>1, <3>2, <4>1, <4>2
    <3> QED
      BY <3>3, <3>4
  <2>3. CASE ~(b = c.of /\ c.of # None)
    <3>1. holding[b] # None
      BY <1>6, <2>1, <2>3
    <3> QED
      BY <1>3, <1>5, <2>1, <3>1 DEF CostInv, HoldingsAtHome
  <2> QED
    BY <2>2, <2>3
<1>11. EndedUnused'
  <2>1. SUFFICES ASSUME NEW a \in Account, a \notin open', a \notin crossed',
                        NEW s \in Txn, a \in Touches(entry'[s])
                 PROVE  FALSE
    BY DEF EndedUnused, Used, Touches
  <2>2. a \notin Touches(entry[s])
    BY <1>3, <1>6, <2>1 DEF CostInv, EndedUnused, Used
  <2>3. entry'[s] = j.lines
    BY <1>6, <2>1, <2>2
  <2> QED
    BY <1>6, <2>1, <2>3
<1> QED
  BY <1>7, <1>8, <1>9, <1>10, <1>11 DEF CostInv

LEMMA CostStep == CInv /\ [Next]_vars => CInv'
<1> SUFFICES ASSUME CInv, [Next]_vars PROVE CInv'
  OBVIOUS
<1>1. HInv'
  BY KnownStep DEF CInv
<1>2. ASSUME NEW w \in Worker, Work(w) PROVE CostInv'
  <2>1. ASSUME NEW t \in DOMAIN Payload, NEW p \in Payload[t], BeginCreate(w, t, p) PROVE CostInv'
    BY <2>1, BeginCreateCosted
  <2>2. ASSUME NEW t \in DOMAIN Edit, NEW edit \in Edit[t], BeginUpdate(w, t, edit) PROVE CostInv'
    <3>1. PICK j : j = [op |-> "update", txn |-> t, seen |-> txn[t], edit |-> edit]
      OBVIOUS
    <3>2. Set(w, j) /\ UNCHANGED <<tables, history>> /\ j.op \notin {"commit", "close"}
      BY <2>2, <3>1 DEF BeginUpdate
    <3> QED
      BY <3>2, ReadCosted
  <2>3. ASSUME NEW t \in Txn, BeginDelete(w, t) PROVE CostInv'
    <3>1. PICK j : j = [op |-> "delete", txn |-> t, seen |-> txn[t]]
      OBVIOUS
    <3>2. Set(w, j) /\ UNCHANGED <<tables, history>> /\ j.op \notin {"commit", "close"}
      BY <2>3, <3>1 DEF BeginDelete
    <3> QED
      BY <3>2, ReadCosted
  <2>4. CASE ApplyUpdate(w)
    BY <2>4, ApplyUpdateCosted
  <2>5. CASE ApplyDelete(w)
    BY <2>5, ApplyDeleteCosted
  <2>6. CASE CommitTxn(w)
    BY <1>1, <2>6, CommitCosted DEF HInv
  <2>7. CASE Abort(w)
    BY <2>7, CostedIdleStep DEF Abort
  <2>8. ASSUME NEW a \in Closing, BeginDeleteAccount(w, a) PROVE CostInv'
    BY <2>8, BeginDeleteAccountCosted
  <2>9. CASE CommitDeleteAccount(w)
    BY <2>9, CommitDeleteAccountCosted
  <2> QED
    BY <1>2, <2>1, <2>2, <2>3, <2>4, <2>5, <2>6, <2>7, <2>8, <2>9 DEF Work
<1>3. ASSUME UNCHANGED vars PROVE CostInv'
  <2>1. UNCHANGED <<txn, entry, holding, overtaken, skewed>> /\ crossed' = crossed /\ job' = job /\ open' = open
    BY <1>3 DEF vars
  <2>2. CostInv
    BY DEF CInv
  <2>3. \A v \in Worker : JobCosted(job[v])'
    BY <2>1, <2>2 DEF CostInv, JobCosted, CostBooked
  <2>4. (\A a \in Invest : CostFits(a)') /\ Entered' /\ HoldingsAtHome'
    BY <2>1, <2>2, CostsStay
  <2>5. EndedUnused'
    BY <2>1, <2>2 DEF CostInv, EndedUnused, Used
  <2> QED
    BY <2>3, <2>4, <2>5 DEF CostInv
<1>4. CostInv'
  BY <1>2, <1>3 DEF Next
<1> QED
  BY <1>1, <1>4 DEF CInv

LEMMA CostInvariance == Spec => []CInv
<1>1. Init => CInv
  BY CostedInitially
<1>2. CInv /\ [Next]_vars => CInv'
  BY CostStep
<1> QED
  BY <1>1, <1>2, PTL DEF Spec

-------------------------------------------------------------------------------
(* What investments add up to                                              *)

\* What the entry of a trade puts into the account of its holding.
LEMMA TradeEntry ==
    ASSUME NEW row \in Row, row.type \in Trade, row.qty # 0, row.from # row.to,
           NEW lines \in Lines, Books(row, lines), NEW a \in Account, a = HoldingOf(row)
    PROVE  lines[a] = CostPart(row, BookedCost(row, lines))
<1>1. row.amount \in Int /\ lines[a] \in Int
  BY DEF Row, Amount, Lines
<1>2. CASE row.type = "invest_sell"
  <2>1. row.from = a /\ row.to # a
    BY <1>2 DEF HoldingOf
  <2>2. BookedCost(row, lines) = 0 - lines[a]
    BY <1>2, <2>1 DEF BookedCost, At
  <2> QED
    BY <1>1, <1>2, <2>2 DEF CostPart
<1>3. CASE row.type # "invest_sell"
  <2>1. row.to = a /\ row.from # a
    BY <1>3 DEF HoldingOf
  <2>2. lines = BuildPosting(row, row.amount)
    BY <1>3 DEF Books, BookedCost
  <2>3. PostingRule(row.type).debit = "to" /\ PostingRule(row.type).credit = "from"
    <3>1. row.type \in {"invest_buy", "adjustment"}
      BY <1>3 DEF Trade
    <3> QED
      BY <3>1 DEF PostingRule, Rule
  <2>4. lines = Transfer(row.from, row.to, row.amount)
    BY <1>3, <2>2, <2>3 DEF BuildPosting
  <2>5. lines[a] = row.amount
    BY <1>1, <2>1, <2>4 DEF Transfer, Plus, At
  <2> QED
    BY <1>3, <2>5 DEF CostPart
<1> QED
  BY <1>2, <1>3

\* The account of a holding whose trades nothing has disturbed and on which nothing else
\* is booked has the cost of the holding.
LEMMA CostOnLedger ==
    ASSUME CInv, NEW a \in Invest, AsBooked(a)
    PROVE  LedgerCost(a) = Held(a).cost /\ Balance(a) = Held(a).cost
<1> DEFINE S == Trades(txn, a)
           E == {t \in Txn : entry[t] # None}
           f == [t \in E |-> entry[t][a]]
           g == [t \in S |-> entry[t][a]]
<1>1. Undisturbed(a) /\ ~Moved(a) /\ ~Rewritten(a) /\ OnlyItsTrades(a)
  BY DEF AsBooked, Moved, Rewritten
<1>2. a \in Account /\ a # None /\ entry \in [Txn -> Lines \cup {None}] /\ EntryMatchesRow
  <2>1. a \in Account
    BY LedgerAssumption
  <2> QED
    BY <2>1, NoneAssumption DEF CInv, HInv, IInv, TypeOK
<1>3. ASSUME NEW t \in S
      PROVE  t \in E /\ entry[t][a] = CostPart(txn[t], BookedCost(txn[t], entry[t]))
  <2>1. /\ t \in Txn /\ txn[t] \in Row /\ txn[t].type \in Trade /\ txn[t].qty # 0
        /\ HoldingOf(txn[t]) = a
        /\ entry[t] \in Lines /\ Books(txn[t], entry[t])
    BY <1>1, <1>3, TradesAtHome
  <2>2. entry[t] # None
    BY <2>1, ValueAssumption
  <2>3. txn[t].from # txn[t].to
    BY <1>1, <2>1, <2>2 DEF OnlyItsTrades
  <2> QED
    BY <1>2, <2>1, <2>2, <2>3, TradeEntry
<1>4. g = CostParts(txn, entry, S)
  BY <1>3 DEF CostParts
<1>5. LedgerCost(a) = Held(a).cost
  <2>1. CostFits(a)
    BY DEF CInv, CostInv
  <2>2. Held(a).cost = SumFunction(CostParts(txn, entry, S))
    BY <1>1, <2>1 DEF CostFits, Booked
  <2> QED
    BY <1>4, <2>2 DEF LedgerCost
<1>6. f \in [E -> Int]
  BY <1>2 DEF Lines
<1>7. S \in SUBSET E
  BY <1>3
<1>8. g \in [S -> Int] /\ \A t \in S : g[t] = f[t]
  BY <1>6, <1>7
<1>9. ASSUME NEW t \in E \ S PROVE f[t] = 0
  <2>1. SUFFICES ASSUME entry[t][a] # 0 PROVE FALSE
    OBVIOUS
  <2>2. HoldingOf(txn[t]) = a
    BY <1>1, <2>1 DEF OnlyItsTrades
  <2>3. t \notin overtaken
    BY <1>1, <2>2 DEF Undisturbed
  <2>4. t \in Live(txn)
    BY <1>2, <2>3 DEF EntryMatchesRow
  <2>5. t \in S
    BY <1>2, <2>2, <2>4 DEF Trades, HoldingOf
  <2> QED
    BY <2>5
<1>10. IsFiniteSet(E)
  BY FS_Subset, LedgerAssumption
<1>11. SumFunction(f) = SumFunction(g)
  <2> HIDE DEF f, g, E, S
  <2> QED
    BY <1>6, <1>7, <1>8, <1>9, <1>10, SumOfPart
<1> QED
  BY <1>5, <1>11 DEF LedgerCost, Balance

\* The balances of all accounts are those of entries that balance.
LEMMA BalancesAddUp ==
    ASSUME CInv, NEW b, b = [a \in Account |-> Balance(a)]
    PROVE  b \in [Account -> Int] /\ SumFunction(b) = 0
<1> DEFINE E == {t \in Txn : entry[t] # None}
           F == [t \in E |-> entry[t]]
           r == [t \in E |-> 0]
           col(a) == [t \in E |-> entry[t][a]]
<1>1. entry \in [Txn -> Lines \cup {None}] /\ EntriesBalance
  BY DEF CInv, HInv, IInv, TypeOK
<1>2. IsFiniteSet(E) /\ IsFiniteSet(Account)
  BY FS_Subset, LedgerAssumption
<1>3. F \in [E -> [Account -> Int]]
  BY <1>1 DEF Lines
<1>4. r \in [E -> Int] /\ \A t \in E : r[t] = SumFunction(F[t])
  BY <1>1 DEF EntriesBalance, Balanced
<1>5. ASSUME NEW a \in Account
      PROVE  b[a] \in Int /\ b[a] = SumFunction([t \in E |-> F[t][a]])
  <2>1. col(a) \in [E -> Int] /\ col(a) = [t \in E |-> F[t][a]]
    BY <1>1 DEF Lines
  <2>2. b[a] = SumFunction(col(a))
    BY DEF Balance
  <2>3. SumFunction(col(a)) \in Int
    <3>1. DOMAIN col(a) = E /\ E \in SUBSET E
      OBVIOUS
    <3> HIDE DEF col, E
    <3> QED
      BY <1>2, <2>1, <3>1, SumRecursion DEF SumFunction
  <2> QED
    BY <2>1, <2>2, <2>3
<1>6. b \in [Account -> Int]
  <2>1. b = [a \in Account |-> b[a]]
    OBVIOUS
  <2> QED
    BY <1>5, <2>1
<1>7. SumFunction(b) = SumFunction(r)
  <2>1. PICK S : S = E
    OBVIOUS
  <2>2. PICK lines \in [S -> [Account -> Int]] : lines = F
    BY <1>3, <2>1
  <2>3. PICK sums \in [S -> Int] : sums = r
    BY <1>4, <2>1
  <2>4. \A t \in S : sums[t] = SumFunction(lines[t])
    BY <1>4, <2>1, <2>2, <2>3
  <2>5. \A a \in Account : b[a] = SumFunction([t \in S |-> lines[t][a]])
    BY <1>5, <2>1, <2>2
  <2>6. IsFiniteSet(S)
    BY <1>2, <2>1
  <2> HIDE DEF E, F, r
  <2>7. SumFunction(b) = SumFunction(sums)
    BY <1>2, <1>6, <2>4, <2>5, <2>6, SumsOfSums
  <2> QED
    BY <2>3, <2>7
<1>8. SumFunction(r) = 0
  <2>1. \A t \in E : r[t] = 0
    OBVIOUS
  <2>2. DOMAIN r = E /\ E \in SUBSET E
    OBVIOUS
  <2> HIDE DEF E, r
  <2> QED
    BY <1>2, <1>4, <2>1, <2>2, SumOfZeros DEF SumFunction
<1> QED
  BY <1>6, <1>7, <1>8

LEMMA NetWorthAddsUp ==
    ASSUME CInv, \A a \in Account : a \notin crossed, \A a \in Invest : AsBooked(a)
    PROVE  NetWorth = -SumFunction([a \in {a \in Account : Kind[a] \notin Asset /\ ~CountsAsDebt(a)}
                                     |-> Balance(a)])
<1> DEFINE cash == {a \in open : CountsAsCash(a) \/ CountsAsDebt(a)}
           rest == {a \in Account : Kind[a] \notin Asset /\ ~CountsAsDebt(a)}
           x == [a \in cash |-> Balance(a)]
           y == [a \in rest |-> Balance(a)]
           v == [a \in Account |-> Valuation(a)]
           c == [a \in Account |-> IF a \in cash THEN Balance(a) ELSE 0]
           r == [a \in Account |-> IF a \in rest THEN Balance(a) ELSE 0]
           cv == [a \in Account |-> c[a] + v[a]]
<1>1. PICK b : b = [a \in Account |-> Balance(a)]
  OBVIOUS
<1>2. b \in [Account -> Int] /\ SumFunction(b) = 0
  BY <1>1, BalancesAddUp
<1>3. /\ IsFiniteSet(Account) /\ Invest \subseteq Account /\ open \subseteq Account
      /\ entry \in [Txn -> Lines \cup {None}] /\ holding \in [Account -> Holding \cup {None}]
      /\ HoldingsAtHome /\ EndedUnused
  BY LedgerAssumption DEF CInv, HInv, IInv, TypeOK, CostInv
<1>4. \A a \in Account : b[a] = Balance(a)
  BY <1>1
<1>5. ASSUME NEW a \in Account \ open PROVE b[a] = 0
  <2>1. ~Used(a)
    BY <1>3, <1>5 DEF EndedUnused
  <2> DEFINE E == {t \in Txn : entry[t] # None}
             f == [t \in E |-> entry[t][a]]
  <2>2. \A t \in E : entry[t] \in Lines /\ entry[t][a] = 0
    <3>1. SUFFICES ASSUME NEW t \in E PROVE entry[t] \in Lines /\ entry[t][a] = 0
      OBVIOUS
    <3>2. entry[t] \in Lines /\ entry[t] \notin {None, Keep}
      BY <1>3, ValueAssumption
    <3> QED
      BY <2>1, <3>2 DEF Used, Touches
  <2>3. f \in [E -> Int] /\ IsFiniteSet(E) /\ E \in SUBSET E /\ DOMAIN f = E /\ \A t \in E : f[t] = 0
    BY <2>2, FS_Subset, LedgerAssumption
  <2>4. SumFunction(f) = 0
    <3> HIDE DEF f, E
    <3> QED
      BY <2>3, SumOfZeros DEF SumFunction
  <2> QED
    BY <1>4, <2>4 DEF Balance
<1>6. ASSUME NEW a \in Account PROVE v[a] = IF a \in Invest THEN b[a] ELSE 0
  <2>1. CASE a \in Invest
    <3>1. Balance(a) = Held(a).cost
      BY <2>1, CostOnLedger
    <3>2. Valuation(a) = Held(a).cost
      BY DEF Valuation, Held, NoHolding
    <3> QED
      BY <1>4, <2>1, <3>1, <3>2
  <2>2. CASE a \notin Invest
    <3>1. ~SomeMoved
      BY DEF SomeMoved, Moved, AsBooked
    <3>2. holding[a] = None
      BY <1>3, <2>2, <3>1 DEF HoldingsAtHome
    <3> QED
      BY <2>2, <3>2 DEF Valuation
  <2> QED
    BY <2>1, <2>2
<1>7. ASSUME NEW a \in Account PROVE b[a] = cv[a] + r[a] /\ c[a] \in Int /\ v[a] \in Int /\ r[a] \in Int
  <2>1. b[a] \in Int /\ b[a] = Balance(a)
    BY <1>2, <1>4
  <2>2. Kind[a] = "investment_asset" <=> a \in Invest
    BY LedgerAssumption
  <2>3. /\ a \in rest => a \notin cash /\ a \notin Invest
        /\ a \in Invest => a \notin cash
        /\ a \in open => a \in cash \/ a \in rest \/ a \in Invest
    BY <2>2 DEF CountsAsCash, CountsAsDebt, Asset
  <2>4. a \notin open => b[a] = 0
    BY <1>5
  <2> HIDE DEF cash, rest
  <2>5. c[a] = IF a \in cash THEN b[a] ELSE 0
    BY <2>1
  <2>6. r[a] = IF a \in rest THEN b[a] ELSE 0
    BY <2>1
  <2>7. v[a] = IF a \in Invest THEN b[a] ELSE 0
    BY <1>6
  <2>8. cv[a] = c[a] + v[a]
    OBVIOUS
  <2> HIDE DEF cv, c, v, r
  <2> QED
    BY <2>1, <2>3, <2>4, <2>5, <2>6, <2>7, <2>8
<1>8. c \in [Account -> Int] /\ v \in [Account -> Int] /\ r \in [Account -> Int] /\ cv \in [Account -> Int]
  <2>1. \A a \in Account : c[a] \in Int /\ v[a] \in Int /\ r[a] \in Int /\ cv[a] \in Int
    BY <1>7
  <2>2. \A a \in Account : cv[a] = c[a] + v[a]
    OBVIOUS
  <2>3. /\ c = [a \in Account |-> c[a]] /\ v = [a \in Account |-> v[a]]
        /\ r = [a \in Account |-> r[a]] /\ cv = [a \in Account |-> cv[a]]
    OBVIOUS
  <2> HIDE DEF c, v, r, cv
  <2> QED
    BY <2>1, <2>3
<1>9. \A a \in Account : cv[a] = c[a] + v[a]
  OBVIOUS
<1>10. \A a \in Account : b[a] = cv[a] + r[a]
  BY <1>7
<1>11. cash \in SUBSET Account /\ rest \in SUBSET Account
  BY <1>3
<1>12. x \in [cash -> Int] /\ \A a \in cash : x[a] = c[a]
  BY <1>2, <1>4, <1>11
<1>13. y \in [rest -> Int] /\ \A a \in rest : y[a] = r[a]
  BY <1>2, <1>4, <1>11
<1>14. (\A a \in Account \ cash : c[a] = 0) /\ (\A a \in Account \ rest : r[a] = 0)
  OBVIOUS
<1>15. NetWorth = SumFunction(x) + SumFunction(v)
  BY DEF NetWorth
<1> HIDE DEF cash, rest, x, y, v, c, r, cv
<1>16. SumFunction(c) = SumFunction(x)
  BY <1>3, <1>8, <1>11, <1>12, <1>14, SumOfPart
<1>17. SumFunction(r) = SumFunction(y)
  BY <1>3, <1>8, <1>11, <1>13, <1>14, SumOfPart
<1>18. SumFunction(cv) = SumFunction(c) + SumFunction(v) /\ SumFunction(b) = SumFunction(cv) + SumFunction(r)
  <2>1. /\ Account \in SUBSET Account
        /\ DOMAIN cv = Account /\ DOMAIN c = Account /\ DOMAIN v = Account /\ DOMAIN b = Account /\ DOMAIN r = Account
    BY <1>2, <1>8
  <2>2. SumFunctionOnSet(cv, Account) = SumFunctionOnSet(c, Account) + SumFunctionOnSet(v, Account)
    BY <1>3, <1>8, <1>9, <2>1, SumOfBoth
  <2>3. SumFunctionOnSet(b, Account) = SumFunctionOnSet(cv, Account) + SumFunctionOnSet(r, Account)
    BY <1>2, <1>3, <1>8, <1>10, <2>1, SumOfBoth
  <2> QED
    BY <2>1, <2>2, <2>3 DEF SumFunction
<1>19. SumFunction(c) \in Int /\ SumFunction(v) \in Int /\ SumFunction(r) \in Int
  <2>1. Account \in SUBSET Account /\ DOMAIN c = Account /\ DOMAIN v = Account /\ DOMAIN r = Account
    BY <1>8
  <2> QED
    BY <1>3, <1>8, <2>1, SumRecursion DEF SumFunction
<1>20. NetWorth = -SumFunction(y)
  BY <1>2, <1>15, <1>16, <1>17, <1>18, <1>19
<1> QED
  BY <1>20 DEF y, rest

\* The account of an investment carries what its holding cost, and the net worth is what
\* was earned, spent and brought in (netWorthSummary counts nothing twice between
\* holdings and accounts, and deleteAccount leaves no balance behind), however trades are
\* created, edited and deleted at once: unless writers crossed, a trade was taken to
\* another account, a replay gave an earlier sale another cost than was booked, or
\* something else was booked on the account of a holding.
THEOREM InvestmentsOnTheLedger == Spec => []InvestmentsAddUp
<1>1. ASSUME CInv PROVE InvestmentsAddUp
  <2>1. CostIsOnTheLedger
    BY <1>1, CostOnLedger DEF CostIsOnTheLedger
  <2>2. NetWorthIsEarned
    BY <1>1, NetWorthAddsUp DEF NetWorthIsEarned
  <2> QED
    BY <2>1, <2>2 DEF InvestmentsAddUp
<1> QED
  BY <1>1, CostInvariance, PTL

===============================================================================
