------------------------------ MODULE BookkeepingProofs ------------------------------
(***************************************************************************)
(* Proofs about recurring rules and their expected transactions, about the *)
(* accounts and other records, about civil dates, billing periods and the  *)
(* dates of rules, and about the matching of bills.                        *)
(***************************************************************************)
EXTENDS Bookkeeping, FiniteFacts, Sequences

-------------------------------------------------------------------------------
(* The invariant of recurring rules.                                       *)

\* A row is there once its rule is; one that waits has no transaction.
ExpectedIsKnown ==
    /\ rule = None => \A s \in U!Slot : expected[s] = None
    /\ \A s \in U!Slot : expected[s] # None =>
        /\ expected[s].status \in {"scheduled", "confirmed", "skipped"}
        /\ expected[s].status = "scheduled" => expected[s].paid = None

\* What a request has read is there.
ReadIsThere(j) ==
    /\ j.op \in {"update", "delete"} => rule # None /\ j.seen.live
    /\ j.op \in {"settle", "pay"} => expected[j.row] # None
    /\ j.op = "settle" =>
        /\ j.seen.live /\ j.seen.status \in {"scheduled", "matched", "missed"}
        /\ j.rule # None => rule # None /\ j.rule.live
AllReadIsThere == \A w \in Worker : ReadIsThere(call[w])

\* Who has written has the lock of what it has written first, and nobody else has.
HasWritten(w) == call[w].phase = "wrote"
HoldsRule(w) == HasWritten(w) /\ call[w].op \in {"update", "delete"}
WrittenFirst(j) == IF j.op = "settle" THEN j.row ELSE U!TheRule
LocksExclude ==
    /\ \A w \in Worker : HasWritten(w) => call[w].locks = WrittenFirst(call[w])
    /\ \A v, w \in Worker : v # w /\ HasWritten(v) /\ HasWritten(w) => call[v].locks # call[w].locks

\* No row opens while somebody holds the rule: where none was open, none is, and the one
\* that was read is the only one, and still open.
OpenIsAsRead ==
    \A w \in Worker : HoldsRule(w) =>
        /\ call[w].open = None => \A s \in U!Slot : ~U!IsOpen(s)
        /\ call[w].open # None => expected[call[w].open] # None
        /\ raced = {} /\ call[w].open # None =>
            U!IsOpen(call[w].open) /\ \A s \in U!Slot : U!IsOpen(s) => s = call[w].open

\* Who settles an open row has read a rule that is on, and so waits for the rule's lock.
RuleIsRead ==
    \A w \in Worker :
        /\ HasWritten(w) /\ call[w].op = "settle" /\ raced = {} /\ U!IsOpen(call[w].row)
        => call[w].rule # None /\ call[w].rule.active

\* A payment is of one request, for one row.
Pays(j) == j.op \in {"pay", "settle"} /\ j.payment # None
PaymentsAreKnown ==
    /\ \A p \in payments : p.by <= calls /\ expected[p.row] # None
    /\ \A w \in Worker : Pays(call[w]) =>
        /\ call[w].payment \in 1..calls
        /\ \A p \in payments : p.by = call[w].payment => p.row = call[w].row
        /\ \A v \in Worker : v # w /\ Pays(call[v]) => call[v].payment # call[w].payment

RuleInv ==
    /\ U!TypeOK
    /\ ExpectedIsKnown
    /\ AllReadIsThere
    /\ LocksExclude
    /\ OpenIsAsRead
    /\ RuleIsRead
    /\ PaymentsAreKnown
    /\ U!OpenRowFollowsRule
    /\ U!EveryPaymentIsAccounted
    /\ U!DerivedRowsAreReported

-------------------------------------------------------------------------------
(* Facts about rows and requests.                                          *)

LEMMA Parameters ==
    /\ LastDate \in Nat \ {0} /\ MaxCalls \in Nat
    /\ None \notin Nat /\ None \notin U!Rule /\ None \notin U!Row
BY BookAssumption DEF U!RecurringAssumption

LEMMA CallsAreNumbers == \A n \in 0..MaxCalls : n \in Nat
OBVIOUS

LEMMA NoneIsNoSlot == None \notin U!Slot
BY Parameters DEF U!Slot

\* What a request of each kind has.
LEMMA CallShapes ==
    ASSUME NEW j \in U!Job
    PROVE  /\ j.op \in {"idle", "update", "delete", "settle", "pay"}
           /\ j.phase \in {"read", "wrote"}
           /\ j.op \in {"idle", "pay"} => j.phase = "read"
           /\ j.op = "idle" => j = U!Idle
           /\ j.op \in {"update", "delete"} =>
                j.seen \in U!Rule /\ j.open \in U!Slot \cup {None} /\ j.openVersion \in Nat
           /\ j.op = "update" => j.cols \in U!Form
           /\ j.op \in {"pay", "settle"} => j.row \in U!Slot
           /\ j.op = "settle" =>
                /\ j.seen \in U!Row /\ j.status \in {"confirmed", "skipped"}
                /\ j.payment \in Nat \cup {None} /\ j.rule \in U!Rule \cup {None}
           /\ j.op = "pay" => j.base \in Nat /\ j.payment \in Nat
BY DEF U!Job, U!Idle

\* A request of each kind.
Phase == {"read", "wrote"}
UpdateCall ==
    [op : {"update"}, phase : Phase, seen : U!Rule, cols : U!Form, locks : {U!TheRule, None},
     open : U!Slot \cup {None}, openVersion : Nat]
DeleteCall ==
    [op : {"delete"}, phase : Phase, seen : U!Rule, locks : {U!TheRule, None},
     open : U!Slot \cup {None}, openVersion : Nat]
SettleCall ==
    [op : {"settle"}, phase : Phase, row : U!Slot, seen : U!Row,
     status : {"confirmed", "skipped"}, payment : Nat \cup {None},
     locks : U!Slot \cup {None}, rule : U!Rule \cup {None}]
PayCall == [op : {"pay"}, phase : {"read"}, row : U!Slot, base : Nat, payment : Nat]

LEMMA CallKinds == U!Job = {U!Idle} \cup UpdateCall \cup DeleteCall \cup SettleCall \cup PayCall
BY DEF U!Job, Phase, UpdateCall, DeleteCall, SettleCall, PayCall

\* A request that has written, and what it has read.
LEMMA RuleWritten ==
    ASSUME NEW j \in U!Job, j.op \in {"update", "delete"},
           NEW s \in U!Slot \cup {None}, NEW n \in Nat
    PROVE  [j EXCEPT !.phase = "wrote", !.locks = U!TheRule, !.open = s, !.openVersion = n] \in U!Job
<1>1. CASE j.op = "update"
  <2>1. j \in UpdateCall
    BY <1>1, CallKinds DEF U!Idle, DeleteCall, SettleCall, PayCall
  <2>2. [j EXCEPT !.phase = "wrote", !.locks = U!TheRule, !.open = s, !.openVersion = n] \in UpdateCall
    BY <2>1 DEF UpdateCall, Phase
  <2> QED
    BY <2>2, CallKinds
<1>2. CASE j.op = "delete"
  <2>1. j \in DeleteCall
    BY <1>2, CallKinds DEF U!Idle, UpdateCall, SettleCall, PayCall
  <2>2. [j EXCEPT !.phase = "wrote", !.locks = U!TheRule, !.open = s, !.openVersion = n] \in DeleteCall
    BY <2>1 DEF DeleteCall, Phase
  <2> QED
    BY <2>2, CallKinds
<1> QED
  BY <1>1, <1>2

LEMMA RowWritten ==
    ASSUME NEW j \in U!Job, j.op = "settle", NEW r \in U!Rule \cup {None}
    PROVE  [j EXCEPT !.phase = "wrote", !.locks = j.row, !.rule = r] \in U!Job
<1>1. j \in SettleCall
  BY CallKinds DEF U!Idle, UpdateCall, DeleteCall, PayCall
<1>2. [j EXCEPT !.phase = "wrote", !.locks = j.row, !.rule = r] \in SettleCall
  BY <1>1 DEF SettleCall, Phase
<1> QED
  BY <1>2, CallKinds

\* Rows of a rule: none are of one date.
Rows == {rs \in [U!Slot -> U!Row \cup {None}] :
            \A r, s \in U!Slot : r # s /\ rs[r] # None /\ rs[s] # None => rs[r].date # rs[s].date}

\* The least of some ids.
LEMMA LeastSlot ==
    ASSUME NEW S \in SUBSET U!Slot, S # {}
    PROVE  U!Min(S) \in S
<1> DEFINE f == [s \in S |-> -s]
<1>1. IsFiniteSet(S) /\ S \subseteq Int
  <2>1. 1 \in Int /\ LastDate \in Int
    BY Parameters
  <2>2. IsFiniteSet(1..LastDate)
    BY <2>1, FS_Interval
  <2>3. S \subseteq 1..LastDate
    BY DEF U!Slot
  <2>4. 1..LastDate \subseteq Int
    OBVIOUS
  <2>5. IsFiniteSet(S)
    BY <2>2, <2>3, FS_Subset
  <2> QED
    BY <2>3, <2>4, <2>5
<1>2. f \in [S -> Int]
  BY <1>1
<1>3. PICK m \in S : \A k \in S : f[k] <= f[m]
  <2> HIDE DEF f
  <2> QED
    BY <1>1, <1>2, Greatest
<1>4. \A k \in S : m <= k
  BY <1>1, <1>3
<1> QED
  BY <1>4 DEF U!Min

\* There is room for a row of a date that no row has.
LEMMA RoomForDate ==
    ASSUME NEW rs \in Rows, NEW d \in U!Date, U!Occupied(rs, d) = {}
    PROVE  \E s \in U!Slot : rs[s] = None
<1> SUFFICES ASSUME \A s \in U!Slot : rs[s] # None PROVE FALSE
  OBVIOUS
<1> DEFINE f == [s \in U!Slot |-> rs[s].date]
<1>1. f \in Injection(U!Slot, U!Date)
  BY DEF Rows, U!Row, Injection, IsInjective
<1>2. IsFiniteSet(U!Date) /\ Cardinality(U!Slot) = Cardinality(U!Date)
  BY Parameters, FS_Interval DEF U!Slot, U!Date
<1>3. f \in Surjection(U!Slot, U!Date)
  <2> HIDE DEF f
  <2> QED
    BY <1>1, <1>2, FS_Injection
<1> QED
  BY <1>3 DEF Surjection, U!Occupied

NewRow(d, terms) ==
    [date |-> d, terms |-> terms, status |-> "scheduled", live |-> TRUE, version |-> 1, paid |-> None]

\* A row of the date is there already, or is inserted in a free place.
LEMMA MaterializedRows ==
    ASSUME NEW rs \in Rows, NEW d \in U!Date, NEW terms \in Terms, U!Insertable(rs, d)
    PROVE  /\ U!Materialized(rs, d, terms) \in Rows
           /\ \/ U!Materialized(rs, d, terms) = rs
              \/ \E s \in U!Slot :
                    rs[s] = None /\ U!Materialized(rs, d, terms) = [rs EXCEPT ![s] = NewRow(d, terms)]
<1>1. CASE U!AlreadyThere(rs, d)
  BY <1>1 DEF U!Materialized
<1>2. CASE ~U!AlreadyThere(rs, d)
  <2>1. U!Occupied(rs, d) = {}
    BY <1>2 DEF U!Insertable
  <2> DEFINE n == U!Min({s \in U!Slot : rs[s] = None})
  <2>2. n \in U!Slot /\ rs[n] = None
    BY <2>1, RoomForDate, LeastSlot
  <2>3. U!Materialized(rs, d, terms) = [rs EXCEPT ![n] = NewRow(d, terms)]
    BY <1>2 DEF U!Materialized, NewRow
  <2> HIDE DEF n
  <2>4. NewRow(d, terms) \in U!Row
    BY DEF NewRow, U!Row, U!Status
  <2>5. [rs EXCEPT ![n] = NewRow(d, terms)] \in Rows
    BY <2>1, <2>2, <2>4 DEF Rows, U!Occupied, NewRow
  <2> QED
    BY <2>2, <2>3, <2>5
<1> QED
  BY <1>1, <1>2

\* What is written is reported with its version.
LEMMA ReportFits ==
    ASSUME U!TypeOK, U!DerivedRowsAreReported,
           NEW rs \in Rows, \A s \in U!Slot : expected[s] # None => rs[s] # None
    PROVE  /\ U!Report(rs) \in [U!Slot -> Nat]
           /\ \A s \in U!Slot : rs[s] # None => U!Report(rs)[s] = rs[s].version
<1>1. ASSUME NEW s \in U!Slot, rs[s] # expected[s]
      PROVE  rs[s] # None /\ rs[s].version \in Nat
  BY <1>1, Parameters DEF Rows, U!TypeOK, U!Row
<1> QED
  BY <1>1 DEF U!Report, U!TypeOK, U!DerivedRowsAreReported

\* Who has read a row that may be settled.
LEMMA Settling ==
    ASSUME NEW s \in U!Status, "confirmed" \in U!Transitions[s] \/ "skipped" \in U!Transitions[s]
    PROVE  s \in {"scheduled", "matched", "missed"}
BY DEF U!Status, U!Transitions

\* The invariant, with the types of its parts.
LEMMA RuleShapes ==
    ASSUME RuleInv
    PROVE  /\ rule \in U!Rule \cup {None}
           /\ expected \in Rows /\ \A s \in U!Slot : expected[s] \in U!Row \cup {None}
           /\ ruleTold \in Nat /\ told \in [U!Slot -> Nat]
           /\ call \in [Worker -> U!Job]
           /\ calls \in 0..MaxCalls /\ calls \in Nat
BY Parameters DEF RuleInv, U!TypeOK, Rows

-------------------------------------------------------------------------------
(* What a step leaves in place, whatever it is.                            *)

RowsKept == UNCHANGED <<rule, expected, ruleTold, told, raced>>

\* A request that only reads disturbs nothing.
LEMMA Reading ==
    ASSUME RuleInv, RowsKept, NEW w \in Worker, NEW j \in U!Job, j.phase = "read",
           ReadIsThere(j), call' = [call EXCEPT ![w] = j]
    PROVE  /\ ExpectedIsKnown' /\ AllReadIsThere' /\ LocksExclude' /\ OpenIsAsRead' /\ RuleIsRead'
           /\ U!OpenRowFollowsRule' /\ U!DerivedRowsAreReported'
           /\ U!SettledIsLeft /\ U!NextDateMoves
<1>1. call \in [Worker -> U!Job]
  BY RuleShapes
<1>2. call'[w] = j /\ \A v \in Worker \ {w} : call'[v] = call[v]
  BY <1>1
<1>3. ExpectedIsKnown' /\ U!OpenRowFollowsRule' /\ U!DerivedRowsAreReported'
  BY DEF RuleInv, RowsKept, ExpectedIsKnown, U!OpenRowFollowsRule, U!IsOpen, U!IsLive,
     U!RuleIsLive, U!DerivedRowsAreReported
<1>4. AllReadIsThere'
  BY <1>2 DEF RuleInv, RowsKept, AllReadIsThere, ReadIsThere
<1>5. LocksExclude'
  BY <1>2 DEF RuleInv, LocksExclude, HasWritten, WrittenFirst
<1>6. OpenIsAsRead'
  BY <1>2 DEF RuleInv, RowsKept, OpenIsAsRead, HasWritten, HoldsRule, U!IsOpen, U!IsLive
<1>7. RuleIsRead'
  BY <1>2 DEF RuleInv, RowsKept, RuleIsRead, HasWritten, U!IsOpen, U!IsLive
<1>8. U!SettledIsLeft
  BY DEF RowsKept, U!SettledIsLeft
<1>9. U!NextDateMoves
  <2>1. SUFFICES ASSUME rule # None PROVE ~(rule'.next < rule.next)
    BY DEF U!NextDateMoves
  <2>2. rule'.next = rule.next /\ rule.next \in Int
    BY <2>1, RuleShapes DEF RowsKept, U!Rule, U!Date
  <2> QED
    BY <2>2
<1> QED
  BY <1>3, <1>4, <1>5, <1>6, <1>7, <1>8, <1>9

\* What a payment's request leaves behind accounts for it.
LEMMA PaymentsFollow ==
    ASSUME RuleInv, NEW w \in Worker, NEW j \in U!Job, call' = [call EXCEPT ![w] = j],
           payments' = payments, unpaid \subseteq unpaid', raced \subseteq raced',
           calls' \in Nat, calls <= calls',
           \A s \in U!Slot : expected[s] # None =>
                /\ expected'[s] # None
                /\ s \in raced' \/ expected[s].paid = None \/ expected'[s].paid = expected[s].paid,
           Pays(call[w]) =>
                \/ Pays(j) /\ j.payment = call[w].payment /\ j.row = call[w].row
                \/ \E e \in unpaid' : e.by = call[w].payment
                \/ expected'[call[w].row].paid = call[w].payment
                \/ call[w].row \in raced',
           Pays(j) =>
                \/ Pays(call[w]) /\ j.payment = call[w].payment /\ j.row = call[w].row
                \/ calls < calls' /\ j.payment = calls'
    PROVE  PaymentsAreKnown' /\ U!EveryPaymentIsAccounted'
<1>1. /\ call \in [Worker -> U!Job] /\ calls \in Nat
      /\ \A p \in payments : p.row \in U!Slot /\ p.by \in Nat /\ p.by # None
  BY RuleShapes, Parameters DEF RuleInv, U!TypeOK
<1>2. call'[w] = j /\ \A v \in Worker \ {w} : call'[v] = call[v]
  BY <1>1
<1>3. PaymentsAreKnown /\ U!EveryPaymentIsAccounted
  BY DEF RuleInv
<1>4. PaymentsAreKnown'
  <2>1. \A p \in payments : p.by <= calls' /\ expected'[p.row] # None
    BY <1>1, <1>3 DEF PaymentsAreKnown
  <2>2. ASSUME NEW v \in Worker, Pays(call'[v])
        PROVE  /\ call'[v].payment \in 1..calls'
               /\ \A p \in payments : p.by = call'[v].payment => p.row = call'[v].row
    <3>1. CASE v # w
      BY <1>1, <1>2, <1>3, <2>2, <3>1 DEF PaymentsAreKnown
    <3>2. CASE v = w /\ Pays(call[w]) /\ j.payment = call[w].payment /\ j.row = call[w].row
      BY <1>1, <1>2, <1>3, <3>2 DEF PaymentsAreKnown
    <3>3. CASE v = w /\ calls < calls' /\ j.payment = calls'
      <4>1. \A p \in payments : p.by # j.payment
        BY <1>1, <1>3, <3>3 DEF PaymentsAreKnown
      <4> QED
        BY <1>1, <1>2, <3>3, <4>1
    <3> QED
      BY <1>2, <2>2, <3>1, <3>2, <3>3
  <2>3. ASSUME NEW u \in Worker, NEW v \in Worker, v # u, Pays(call'[u]), Pays(call'[v])
        PROVE  call'[v].payment # call'[u].payment
    <3>1. ASSUME NEW x \in Worker, x # w, Pays(call[x]), Pays(j) PROVE call[x].payment # j.payment
      BY <1>1, <1>3, <3>1 DEF PaymentsAreKnown
    <3> QED
      BY <1>2, <1>3, <2>3, <3>1 DEF PaymentsAreKnown
  <2> QED
    BY <2>1, <2>2, <2>3 DEF PaymentsAreKnown
<1>5. U!EveryPaymentIsAccounted'
  <2>1. SUFFICES ASSUME NEW p \in payments
                 PROVE  \/ expected'[p.row].paid = p.by
                        \/ \E e \in unpaid' : e.by = p.by
                        \/ \E v \in Worker : call'[v].op \in {"pay", "settle"} /\ call'[v].payment = p.by
                        \/ p.row \in raced'
    BY DEF U!EveryPaymentIsAccounted
  <2>2. CASE expected[p.row].paid = p.by
    BY <1>1, <1>3, <2>2 DEF PaymentsAreKnown
  <2>3. CASE (\E e \in unpaid : e.by = p.by) \/ p.row \in raced
    BY <2>3
  <2>4. CASE \E v \in Worker : call[v].op \in {"pay", "settle"} /\ call[v].payment = p.by
    <3>1. PICK v \in Worker : call[v].op \in {"pay", "settle"} /\ call[v].payment = p.by
      BY <2>4
    <3>2. CASE v # w
      BY <1>2, <3>1, <3>2
    <3>3. CASE v = w
      <4>1. Pays(call[w]) /\ p.row = call[w].row
        BY <1>1, <1>3, <3>1, <3>3 DEF Pays, PaymentsAreKnown
      <4> QED
        BY <1>2, <3>1, <3>3, <4>1 DEF Pays
    <3> QED
      BY <3>2, <3>3
  <2> QED
    BY <1>3, <2>2, <2>3, <2>4 DEF U!EveryPaymentIsAccounted
<1> QED
  BY <1>4, <1>5

\* What others have read stays as it is under a request that is done.
LEMMA OthersKept ==
    ASSUME RuleInv, NEW w \in Worker, HasWritten(w), call' = [call EXCEPT ![w] = U!Idle],
           rule # None => rule' # None, raced \subseteq raced',
           \A s \in U!Slot : expected[s] # None =>
                expected'[s] # None /\ (U!IsOpen(s)' => U!IsOpen(s)),
           \A v \in Worker \ {w} : HoldsRule(v) =>
                /\ \A s \in U!Slot : U!IsOpen(s)' => U!IsOpen(s)
                /\ \A s \in U!Slot : raced' = {} /\ s = call[v].open => U!IsOpen(s)'
    PROVE  AllReadIsThere' /\ LocksExclude' /\ OpenIsAsRead' /\ RuleIsRead'
<1>1. call \in [Worker -> U!Job]
  BY RuleShapes
<1>2. call'[w] = U!Idle /\ \A v \in Worker \ {w} : call'[v] = call[v]
  BY <1>1
<1>3. U!Idle.op = "idle" /\ U!Idle.phase = "read"
  BY DEF U!Idle
<1>4. \A v \in Worker : call[v].op \in {"pay", "settle"} => call[v].row \in U!Slot
  BY <1>1, CallShapes
<1>5. \A v \in Worker : call[v].op \in {"update", "delete"} => call[v].open \in U!Slot \cup {None}
  BY <1>1, CallShapes
<1>6. AllReadIsThere'
  BY <1>2, <1>3, <1>4 DEF RuleInv, AllReadIsThere, ReadIsThere
<1>7. LocksExclude'
  BY <1>2, <1>3 DEF RuleInv, LocksExclude, HasWritten, WrittenFirst
<1>8. OpenIsAsRead'
  <2>1. SUFFICES ASSUME NEW v \in Worker, HoldsRule(v)'
                 PROVE  /\ call'[v].open = None => \A s \in U!Slot : ~U!IsOpen(s)'
                        /\ call'[v].open # None => expected'[call'[v].open] # None
                        /\ raced' = {} /\ call'[v].open # None =>
                            /\ U!IsOpen(call[v].open)'
                            /\ \A s \in U!Slot : U!IsOpen(s)' => s = call'[v].open
    BY DEF OpenIsAsRead
  <2>2. v # w /\ HoldsRule(v) /\ call'[v] = call[v]
    BY <1>2, <1>3, <2>1 DEF HoldsRule, HasWritten
  <2>3. /\ call[v].open = None => \A s \in U!Slot : ~U!IsOpen(s)
        /\ call[v].open # None => expected[call[v].open] # None
        /\ raced = {} /\ call[v].open # None =>
            \A s \in U!Slot : U!IsOpen(s) => s = call[v].open
    BY <2>2 DEF RuleInv, OpenIsAsRead
  <2>4. call[v].open \in U!Slot \cup {None}
    BY <1>5, <2>2 DEF HoldsRule
  <2>5. ASSUME NEW s \in U!Slot, s = call[v].open, U!IsOpen(s)' PROVE U!IsOpen(call[v].open)'
    BY <2>2, <2>5 DEF U!IsOpen, U!IsLive
  <2> QED
    BY <2>2, <2>3, <2>4, <2>5
<1>9. RuleIsRead'
  <2>1. SUFFICES ASSUME NEW v \in Worker, HasWritten(v)', call'[v].op = "settle", raced' = {},
                        U!IsOpen(call[v].row)'
                 PROVE  call'[v].rule # None /\ call'[v].rule.active
    BY DEF RuleIsRead
  <2>2. v # w /\ HasWritten(v) /\ call'[v] = call[v]
    BY <1>2, <1>3, <2>1 DEF HasWritten
  <2>3. call[v].row \in U!Slot /\ expected[call[v].row] # None
    BY <1>4, <2>1, <2>2 DEF RuleInv, AllReadIsThere, ReadIsThere
  <2>4. U!IsOpen(call[v].row) /\ raced = {}
    <3>1. \A s \in U!Slot : s = call[v].row => U!IsOpen(s)'
      BY <2>1, <2>2 DEF U!IsOpen, U!IsLive
    <3> QED
      BY <2>1, <2>3, <3>1
  <2> QED
    BY <2>1, <2>2, <2>4 DEF RuleInv, RuleIsRead
<1> QED
  BY <1>6, <1>7, <1>8, <1>9

RuleStep == RuleInv' /\ U!SettledIsLeft /\ U!NextDateMoves

-------------------------------------------------------------------------------
(* Each request, step by step.                                             *)

\* What the transaction was booked for is not confirmed, whether the user knows or not.
LeftUnpaid(w) ==
    /\ Pays(call[w])
    /\ \E known \in BOOLEAN :
        unpaid' = unpaid \cup {[by |-> call[w].payment, known |-> known]}

\* A request that starts, gives up or is refused.
LEMMA ReadingStep ==
    ASSUME RuleInv, RowsKept, NEW w \in Worker, NEW j \in U!Job, j.phase = "read",
           ReadIsThere(j), call' = [call EXCEPT ![w] = j], payments' = payments,
           calls' \in 0..MaxCalls, calls <= calls',
           unpaid' = unpaid \/ LeftUnpaid(w),
           Pays(call[w]) =>
                \/ Pays(j) /\ j.payment = call[w].payment /\ j.row = call[w].row
                \/ LeftUnpaid(w),
           Pays(j) =>
                \/ Pays(call[w]) /\ j.payment = call[w].payment /\ j.row = call[w].row
                \/ calls < calls' /\ j.payment = calls'
    PROVE  RuleStep
<1>1. /\ ExpectedIsKnown' /\ AllReadIsThere' /\ LocksExclude' /\ OpenIsAsRead' /\ RuleIsRead'
      /\ U!OpenRowFollowsRule' /\ U!DerivedRowsAreReported'
      /\ U!SettledIsLeft /\ U!NextDateMoves
  BY Reading
<1>2. PaymentsAreKnown' /\ U!EveryPaymentIsAccounted'
  <2>1. calls' \in Nat /\ raced \subseteq raced'
    BY CallsAreNumbers, Zenon DEF RowsKept
  <2>2. \A s \in U!Slot : expected[s] # None =>
            /\ expected'[s] # None
            /\ s \in raced' \/ expected[s].paid = None \/ expected'[s].paid = expected[s].paid
    BY DEF RowsKept
  <2>3. LeftUnpaid(w) => unpaid \subseteq unpaid' /\ \E e \in unpaid' : e.by = call[w].payment
    <3>1. SUFFICES ASSUME LeftUnpaid(w)
                   PROVE  unpaid \subseteq unpaid' /\ \E e \in unpaid' : e.by = call[w].payment
      OBVIOUS
    <3>2. PICK known \in BOOLEAN :
            unpaid' = unpaid \cup {[by |-> call[w].payment, known |-> known]}
      BY <3>1 DEF LeftUnpaid
    <3> DEFINE e == [by |-> call[w].payment, known |-> known]
    <3>3. e.by = call[w].payment
      OBVIOUS
    <3>4. unpaid \subseteq unpaid' /\ e \in unpaid'
      BY <3>2, Zenon
    <3> HIDE DEF e
    <3> QED
      BY <3>3, <3>4
  <2>4. unpaid \subseteq unpaid'
    BY <2>3
  <2> QED
    BY <2>1, <2>2, <2>3, <2>4, PaymentsFollow
<1>3. U!TypeOK'
  <2>1. U!TypeOK /\ call' \in [Worker -> U!Job]
    BY DEF RuleInv, U!TypeOK
  <2>2. unpaid' \subseteq [by : 1..MaxCalls, known : BOOLEAN]
    <3>1. Pays(call[w]) => call[w].payment \in 1..MaxCalls
      <4>1. Pays(call[w]) => call[w].payment \in 1..calls
        BY DEF RuleInv, PaymentsAreKnown
      <4> QED
        BY <4>1, RuleShapes, Parameters
    <3> QED
      BY <2>1, <3>1 DEF U!TypeOK, LeftUnpaid
  <2> QED
    BY <2>1, <2>2 DEF U!TypeOK, RowsKept
<1> QED
  BY <1>1, <1>2, <1>3 DEF RuleStep, RuleInv

\* The requests' starts.
LEMMA Starting ==
    ASSUME RuleInv, NEW w \in Worker, U!Start(w)
    PROVE  /\ call[w] = U!Idle /\ ~Pays(call[w])
           /\ calls' = calls + 1 /\ calls' \in 0..MaxCalls /\ calls <= calls' /\ calls < calls'
           /\ calls' \in 1..MaxCalls
BY RuleShapes, Parameters DEF U!Start, Pays, U!Idle

LEMMA BeginUpdateStep ==
    ASSUME RuleInv, NEW w \in Worker, NEW cols \in U!Form, U!BeginUpdate(w, cols)
    PROVE  RuleStep
<1> DEFINE j == [op |-> "update", phase |-> "read", seen |-> rule, cols |-> cols,
                 locks |-> None, open |-> None, openVersion |-> 0]
<1>1. rule \in U!Rule /\ rule.live /\ rule # None
  BY RuleShapes DEF U!BeginUpdate, U!RuleIsLive
<1>2. j \in U!Job
  <2>1. j \in UpdateCall
    BY <1>1 DEF UpdateCall, Phase
  <2> QED
    BY <2>1, CallKinds
<1>3. call' = [call EXCEPT ![w] = j] /\ payments' = payments /\ unpaid' = unpaid /\ RowsKept
  BY DEF U!BeginUpdate, U!Set, U!tables, RowsKept
<1>4. ReadIsThere(j) /\ j.phase = "read" /\ ~Pays(j)
  BY <1>1 DEF ReadIsThere, Pays
<1>5. ~Pays(call[w]) /\ calls' \in 0..MaxCalls /\ calls <= calls'
  BY Starting DEF U!BeginUpdate
<1> HIDE DEF j
<1> QED
  BY <1>2, <1>3, <1>4, <1>5, ReadingStep

LEMMA BeginDeleteStep ==
    ASSUME RuleInv, NEW w \in Worker, U!BeginDelete(w)
    PROVE  RuleStep
<1> DEFINE j == [op |-> "delete", phase |-> "read", seen |-> rule,
                 locks |-> None, open |-> None, openVersion |-> 0]
<1>1. rule \in U!Rule /\ rule.live /\ rule # None
  BY RuleShapes DEF U!BeginDelete, U!RuleIsLive
<1>2. j \in U!Job
  <2>1. j \in DeleteCall
    BY <1>1 DEF DeleteCall, Phase
  <2> QED
    BY <2>1, CallKinds
<1>3. call' = [call EXCEPT ![w] = j] /\ payments' = payments /\ unpaid' = unpaid /\ RowsKept
  BY DEF U!BeginDelete, U!Set, U!tables, RowsKept
<1>4. ReadIsThere(j) /\ j.phase = "read" /\ ~Pays(j)
  BY <1>1 DEF ReadIsThere, Pays
<1>5. ~Pays(call[w]) /\ calls' \in 0..MaxCalls /\ calls <= calls'
  BY Starting DEF U!BeginDelete
<1> HIDE DEF j
<1> QED
  BY <1>2, <1>3, <1>4, <1>5, ReadingStep

LEMMA BeginSkipStep ==
    ASSUME RuleInv, NEW w \in Worker, NEW s \in U!Slot, U!BeginSkip(w, s)
    PROVE  RuleStep
<1> DEFINE j == [op |-> "settle", phase |-> "read", row |-> s, seen |-> expected[s],
                 status |-> "skipped", payment |-> None, locks |-> None, rule |-> None]
<1>1. expected[s] \in U!Row /\ expected[s].live /\ expected[s] # None
  BY RuleShapes DEF U!BeginSkip, U!IsLive
<1>2. expected[s].status \in {"scheduled", "matched", "missed"}
  <2>1. expected[s].status \in U!Status
    BY <1>1 DEF U!Row
  <2> QED
    BY <2>1, Settling DEF U!BeginSkip
<1>3. j \in U!Job
  <2>1. j \in SettleCall
    BY <1>1 DEF SettleCall, Phase
  <2> QED
    BY <2>1, CallKinds
<1>4. call' = [call EXCEPT ![w] = j] /\ payments' = payments /\ unpaid' = unpaid /\ RowsKept
  BY DEF U!BeginSkip, U!Set, U!tables, RowsKept
<1>5. ReadIsThere(j) /\ j.phase = "read" /\ ~Pays(j)
  BY <1>1, <1>2 DEF ReadIsThere, Pays
<1>6. ~Pays(call[w]) /\ calls' \in 0..MaxCalls /\ calls <= calls'
  BY Starting DEF U!BeginSkip
<1> HIDE DEF j
<1> QED
  BY <1>3, <1>4, <1>5, <1>6, ReadingStep

LEMMA LoadStep ==
    ASSUME RuleInv, NEW w \in Worker, NEW s \in U!Slot, U!Load(w, s)
    PROVE  RuleStep
<1> DEFINE j == [op |-> "pay", phase |-> "read", row |-> s, base |-> expected[s].version,
                 payment |-> calls']
<1>1. expected[s] \in U!Row /\ expected[s].version \in Nat /\ expected[s] # None
  BY RuleShapes DEF U!Load, U!Offered, U!IsLive, U!Row
<1>2. ~Pays(call[w]) /\ calls' \in 0..MaxCalls /\ calls <= calls' /\ calls < calls' /\ calls' \in Nat
  BY Starting DEF U!Load
<1>3. j \in U!Job
  <2>1. j \in PayCall
    BY <1>1, <1>2 DEF PayCall
  <2> QED
    BY <2>1, CallKinds
<1>4. call' = [call EXCEPT ![w] = j] /\ payments' = payments /\ unpaid' = unpaid /\ RowsKept
  BY DEF U!Load, U!Set, U!tables, RowsKept
<1>5. ReadIsThere(j) /\ j.phase = "read" /\ j.payment = calls'
  BY <1>1 DEF ReadIsThere
<1> HIDE DEF j
<1> QED
  BY <1>2, <1>3, <1>4, <1>5, ReadingStep

LEMMA BookStep ==
    ASSUME RuleInv, NEW w \in Worker, U!Book(w)
    PROVE  RuleStep
<1> DEFINE j == call[w]
           p == [row |-> j.row, by |-> j.payment]
<1>1. /\ payments' = payments \cup {p} /\ RowsKept /\ j.op = "pay"
      /\ call' = call /\ calls' = calls /\ unpaid' = unpaid
  BY DEF U!Book, RowsKept
<1>2. /\ j \in U!Job /\ j.phase = "read" /\ call' = [call EXCEPT ![w] = j]
      /\ j.row \in U!Slot /\ j.payment \in Nat /\ j.payment # None
  BY <1>1, RuleShapes, CallShapes, Parameters
<1>3. ReadIsThere(j) /\ Pays(j)
  BY <1>1, <1>2 DEF RuleInv, AllReadIsThere, Pays
<1>4. j.payment \in 1..calls /\ j.payment \in 1..MaxCalls
  <2>1. j.payment \in 1..calls
    BY <1>3 DEF RuleInv, PaymentsAreKnown
  <2> QED
    BY <2>1, RuleShapes, Parameters
<1>5. /\ ExpectedIsKnown' /\ AllReadIsThere' /\ LocksExclude' /\ OpenIsAsRead' /\ RuleIsRead'
      /\ U!OpenRowFollowsRule' /\ U!DerivedRowsAreReported'
      /\ U!SettledIsLeft /\ U!NextDateMoves
  <2> HIDE DEF j
  <2> QED
    BY <1>1, <1>2, <1>3, Reading
<1>6. PaymentsAreKnown'
  <2>1. p.by <= calls /\ expected[p.row] # None
    BY <1>1, <1>3, <1>4, RuleShapes DEF ReadIsThere
  <2>2. \A v \in Worker : Pays(call[v]) /\ p.by = call[v].payment => v = w
    BY <1>3 DEF RuleInv, PaymentsAreKnown
  <2> HIDE DEF p
  <2>3. \A q \in payments' : q.by <= calls' /\ expected'[q.row] # None
    BY <1>1, <2>1 DEF RuleInv, PaymentsAreKnown, RowsKept
  <2>4. ASSUME NEW v \in Worker, Pays(call'[v]), NEW q \in payments', q.by = call'[v].payment
        PROVE  q.row = call'[v].row
    <3>1. CASE q = p
      BY <1>1, <2>2, <2>4, <3>1 DEF p
    <3>2. CASE q \in payments
      BY <1>1, <2>4, <3>2 DEF RuleInv, PaymentsAreKnown
    <3> QED
      BY <1>1, <3>1, <3>2
  <2> QED
    BY <1>1, <2>3, <2>4 DEF RuleInv, PaymentsAreKnown
<1>7. U!EveryPaymentIsAccounted'
  <2>1. call[w].op \in {"pay", "settle"} /\ call[w].payment = p.by
    BY <1>1
  <2> HIDE DEF p
  <2> QED
    BY <1>1, <2>1 DEF RuleInv, U!EveryPaymentIsAccounted, RowsKept
<1>8. U!TypeOK'
  <2>1. p.row \in U!Slot /\ p.by \in 1..MaxCalls
    BY <1>2, <1>4
  <2> HIDE DEF p, j
  <2> QED
    BY <1>1, <2>1 DEF RuleInv, RowsKept, U!TypeOK
<1> QED
  BY <1>5, <1>6, <1>7, <1>8 DEF RuleStep, RuleInv

LEMMA BeginConfirmStep ==
    ASSUME RuleInv, NEW w \in Worker, U!BeginConfirm(w)
    PROVE  RuleStep
<1>1. /\ RowsKept /\ calls' = calls /\ payments' = payments
      /\ call[w].op = "pay" /\ call[w].payment \in Nat /\ call[w].payment # None
      /\ call[w].row \in U!Slot
  BY RuleShapes, CallShapes, Parameters DEF U!BeginConfirm, RowsKept
<1>2. Pays(call[w]) /\ calls' \in 0..MaxCalls /\ calls <= calls'
  BY <1>1, RuleShapes DEF Pays
<1>3. CASE U!Settleable(call[w])
  <2> DEFINE r == expected[call[w].row]
             j == [op |-> "settle", phase |-> "read", row |-> call[w].row, seen |-> r,
                   status |-> "confirmed", payment |-> call[w].payment, locks |-> None,
                   rule |-> None]
  <2>1. call' = [call EXCEPT ![w] = j] /\ unpaid' = unpaid
    BY <1>3 DEF U!BeginConfirm, U!Set
  <2>2. r \in U!Row /\ r # None /\ r.live /\ "confirmed" \in U!Transitions[r.status]
    BY <1>1, <1>3, RuleShapes DEF U!Settleable, U!IsLive
  <2>3. r.status \in {"scheduled", "matched", "missed"}
    <3>1. r.status \in U!Status
      BY <2>2 DEF U!Row
    <3> QED
      BY <2>2, <3>1, Settling
  <2>4. j \in U!Job
    <3>1. j \in SettleCall
      BY <1>1, <2>2 DEF SettleCall, Phase
    <3> QED
      BY <3>1, CallKinds
  <2>5. /\ ReadIsThere(j) /\ j.phase = "read" /\ Pays(j)
        /\ j.payment = call[w].payment /\ j.row = call[w].row
    BY <1>1, <2>2, <2>3 DEF ReadIsThere, Pays
  <2> HIDE DEF j
  <2> QED
    BY <1>1, <1>2, <2>1, <2>4, <2>5, ReadingStep
<1>4. CASE ~U!Settleable(call[w])
  <2>1. call' = [call EXCEPT ![w] = U!Idle] /\ LeftUnpaid(w)
    BY <1>2, <1>4 DEF U!BeginConfirm, U!Set, U!GivenUp, LeftUnpaid
  <2>2. U!Idle \in U!Job /\ ReadIsThere(U!Idle) /\ U!Idle.phase = "read" /\ ~Pays(U!Idle)
    BY DEF U!Job, U!Idle, ReadIsThere, Pays
  <2> QED
    BY <1>1, <1>2, <2>1, <2>2, ReadingStep
<1> QED
  BY <1>3, <1>4

LEMMA GiveUpStep ==
    ASSUME RuleInv, NEW w \in Worker, U!ConfirmFails(w) \/ U!Vanish(w)
    PROVE  RuleStep
<1>1. /\ RowsKept /\ calls' = calls /\ payments' = payments
      /\ call[w].op = "pay"
  BY DEF U!ConfirmFails, U!Vanish, RowsKept
<1>2. Pays(call[w]) /\ calls' \in 0..MaxCalls /\ calls <= calls'
  <2>1. call[w].payment \in Nat /\ call[w].payment # None
    BY <1>1, RuleShapes, CallShapes, Parameters
  <2> QED
    BY <1>1, <2>1, RuleShapes DEF Pays
<1>3. call' = [call EXCEPT ![w] = U!Idle] /\ LeftUnpaid(w)
  BY <1>2 DEF U!ConfirmFails, U!Vanish, U!Set, U!GivenUp, LeftUnpaid
<1>4. U!Idle \in U!Job /\ ReadIsThere(U!Idle) /\ U!Idle.phase = "read" /\ ~Pays(U!Idle)
  BY DEF U!Job, U!Idle, ReadIsThere, Pays
<1> QED
  BY <1>1, <1>2, <1>3, <1>4, ReadingStep

LEMMA FailStep ==
    ASSUME RuleInv, NEW w \in Worker, U!Fail(w)
    PROVE  RuleStep
<1>1. /\ RowsKept /\ calls' = calls /\ payments' = payments
      /\ call[w].op \in {"update", "delete", "settle"}
      /\ call' = [call EXCEPT ![w] = U!Idle]
  BY DEF U!Fail, U!Set, RowsKept
<1>2. calls' \in 0..MaxCalls /\ calls <= calls'
  BY <1>1, RuleShapes
<1>3. U!Idle \in U!Job /\ ReadIsThere(U!Idle) /\ U!Idle.phase = "read" /\ ~Pays(U!Idle)
  BY DEF U!Job, U!Idle, ReadIsThere, Pays
<1>4. CASE call[w].op = "settle" /\ call[w].payment # None
  <2>1. LeftUnpaid(w)
    BY <1>4 DEF U!Fail, U!GivenUp, Pays, LeftUnpaid
  <2> QED
    BY <1>1, <1>2, <1>3, <2>1, ReadingStep
<1>5. CASE ~(call[w].op = "settle" /\ call[w].payment # None)
  <2>1. unpaid' = unpaid /\ ~Pays(call[w])
    BY <1>1, <1>5 DEF U!Fail, Pays
  <2> QED
    BY <1>1, <1>2, <1>3, <2>1, ReadingStep
<1> QED
  BY <1>4, <1>5

\* A request that writes its first row, has its lock and reads the other row.
LEMMA WritingStep ==
    ASSUME RuleInv, RowsKept, NEW w \in Worker, NEW j \in U!Job, j.phase = "wrote",
           j.locks = WrittenFirst(j), ~U!Locked(j.locks, w),
           call' = [call EXCEPT ![w] = j],
           payments' = payments, unpaid' = unpaid, calls' = calls,
           ReadIsThere(j),
           Pays(j) <=> Pays(call[w]),
           Pays(j) => j.payment = call[w].payment /\ j.row = call[w].row,
           j.op \in {"update", "delete"} =>
                /\ j.open = None => \A s \in U!Slot : ~U!IsOpen(s)
                /\ j.open # None => expected[j.open] # None
                /\ raced = {} /\ j.open # None =>
                    U!IsOpen(j.open) /\ \A s \in U!Slot : U!IsOpen(s) => s = j.open,
           j.op = "settle" /\ raced = {} /\ U!IsOpen(j.row) => j.rule # None /\ j.rule.active
    PROVE  RuleStep
<1>1. call \in [Worker -> U!Job] /\ calls \in 0..MaxCalls /\ calls \in Nat
  BY RuleShapes
<1>2. call'[w] = j /\ \A v \in Worker \ {w} : call'[v] = call[v]
  BY <1>1
<1>3. U!TypeOK'
  <2>1. call' \in [Worker -> U!Job]
    BY <1>1
  <2> QED
    BY <2>1 DEF RuleInv, U!TypeOK, RowsKept
<1>4. ExpectedIsKnown' /\ U!OpenRowFollowsRule' /\ U!DerivedRowsAreReported'
  BY DEF RuleInv, RowsKept, ExpectedIsKnown, U!OpenRowFollowsRule, U!IsOpen, U!IsLive,
     U!RuleIsLive, U!DerivedRowsAreReported
<1>5. AllReadIsThere'
  BY <1>2 DEF RuleInv, RowsKept, AllReadIsThere, ReadIsThere
<1>6. LocksExclude'
  <2>1. \A v \in Worker \ {w} : HasWritten(v) => call[v].locks # j.locks
    BY DEF U!Locked, HasWritten
  <2> QED
    BY <1>2, <2>1 DEF RuleInv, LocksExclude, HasWritten, WrittenFirst
<1>7. OpenIsAsRead'
  <2>1. SUFFICES ASSUME NEW v \in Worker, HoldsRule(v)'
                 PROVE  /\ call'[v].open = None => \A s \in U!Slot : ~U!IsOpen(s)
                        /\ call'[v].open # None => expected[call'[v].open] # None
                        /\ raced = {} /\ call'[v].open # None =>
                            /\ expected[call'[v].open] # None /\ expected[call'[v].open].live
                            /\ expected[call'[v].open].status = "scheduled"
                            /\ \A s \in U!Slot : U!IsOpen(s) => s = call'[v].open
    BY DEF OpenIsAsRead, RowsKept, U!IsOpen, U!IsLive
  <2>2. CASE v = w
    BY <1>2, <2>1, <2>2 DEF HoldsRule, U!IsOpen, U!IsLive
  <2>3. CASE v # w
    <3>1. call'[v] = call[v] /\ HoldsRule(v)
      BY <1>2, <2>1, <2>3 DEF HoldsRule, HasWritten
    <3> QED
      BY <3>1 DEF RuleInv, OpenIsAsRead, U!IsOpen, U!IsLive
  <2> QED
    BY <2>2, <2>3
<1>8. RuleIsRead'
  <2>1. SUFFICES ASSUME NEW v \in Worker, HasWritten(v)', call'[v].op = "settle", raced = {},
                        expected[call'[v].row] # None, expected[call'[v].row].live,
                        expected[call'[v].row].status = "scheduled"
                 PROVE  call'[v].rule # None /\ call'[v].rule.active
    BY DEF RuleIsRead, RowsKept, U!IsOpen, U!IsLive
  <2>2. CASE v = w
    BY <1>2, <2>1, <2>2 DEF U!IsOpen, U!IsLive
  <2>3. CASE v # w
    <3>1. call'[v] = call[v] /\ HasWritten(v)
      BY <1>2, <2>1, <2>3 DEF HasWritten
    <3> QED
      BY <2>1, <3>1 DEF RuleInv, RuleIsRead, U!IsOpen, U!IsLive
  <2> QED
    BY <2>2, <2>3
<1>9. PaymentsAreKnown' /\ U!EveryPaymentIsAccounted'
  <2>1. /\ calls' \in Nat /\ calls <= calls'
        /\ unpaid \subseteq unpaid' /\ raced \subseteq raced'
    BY <1>1 DEF RowsKept
  <2>2. \A s \in U!Slot : expected[s] # None =>
            /\ expected'[s] # None
            /\ s \in raced' \/ expected[s].paid = None \/ expected'[s].paid = expected[s].paid
    BY DEF RowsKept
  <2> QED
    BY <2>1, <2>2, PaymentsFollow
<1>10. U!SettledIsLeft
  BY DEF RowsKept, U!SettledIsLeft
<1>11. U!NextDateMoves
  <2>1. SUFFICES ASSUME rule # None PROVE ~(rule'.next < rule.next)
    BY DEF U!NextDateMoves
  <2>2. rule'.next = rule.next /\ rule.next \in Int
    BY <2>1, RuleShapes DEF RowsKept, U!Rule, U!Date
  <2> QED
    BY <2>2
<1> QED
  BY <1>3, <1>4, <1>5, <1>6, <1>7, <1>8, <1>9, <1>10, <1>11 DEF RuleStep, RuleInv

\* At most one row is open, in a history without races.
LEMMA OneIsOpen ==
    ASSUME RuleInv, raced = {}, NEW r \in U!Slot, U!IsOpen(r), NEW s \in U!Slot, U!IsOpen(s)
    PROVE  r = s
BY DEF RuleInv, U!OpenRowFollowsRule, U!TypeOK, U!IsOpen, U!IsLive

LEMMA WriteRuleStep ==
    ASSUME RuleInv, NEW w \in Worker, U!WriteRule(w)
    PROVE  RuleStep
<1>1. /\ RowsKept /\ payments' = payments /\ unpaid' = unpaid /\ calls' = calls
      /\ call[w] \in U!Job /\ call[w].op \in {"update", "delete"}
      /\ ~U!Locked(U!TheRule, w)
  BY RuleShapes DEF U!WriteRule, U!tables, RowsKept
<1>2. PICK s \in U!Slot \cup {None} :
        /\ IF \E r \in U!Slot : U!IsOpen(r) THEN s # None /\ U!IsOpen(s) ELSE s = None
        /\ call' = [call EXCEPT ![w] = [call[w] EXCEPT
                        !.phase = "wrote", !.locks = U!TheRule, !.open = s,
                        !.openVersion = IF s = None THEN 0 ELSE expected[s].version]]
  BY DEF U!WriteRule, U!Set
<1> DEFINE n == IF s = None THEN 0 ELSE expected[s].version
           j == [call[w] EXCEPT !.phase = "wrote", !.locks = U!TheRule, !.open = s, !.openVersion = n]
<1>3. s # None => s \in U!Slot /\ U!IsOpen(s) /\ expected[s] # None
  BY <1>2 DEF U!IsOpen, U!IsLive
<1>4. n \in Nat
  <2>1. CASE s # None
    BY <1>3, <2>1, RuleShapes DEF U!Row
  <2> QED
    BY <2>1
<1>5. j \in U!Job
  <2> HIDE DEF n
  <2> QED
    BY <1>1, <1>4, RuleWritten
<1>6. call[w] \in UpdateCall \cup DeleteCall
  BY <1>1, CallKinds DEF U!Idle, SettleCall, PayCall
<1>7. /\ j.phase = "wrote" /\ j.op = call[w].op /\ j.locks = U!TheRule /\ j.open = s
      /\ j.seen = call[w].seen
  BY <1>6 DEF UpdateCall, DeleteCall
<1>8. call' = [call EXCEPT ![w] = j]
  BY <1>2
<1> HIDE DEF j
<1>9. j.locks = WrittenFirst(j) /\ ~Pays(j) /\ ~Pays(call[w])
  BY <1>1, <1>7 DEF WrittenFirst, Pays
<1>10. ReadIsThere(j)
  BY <1>1, <1>7 DEF RuleInv, AllReadIsThere, ReadIsThere
<1>11. s = None => \A r \in U!Slot : ~U!IsOpen(r)
  BY <1>2
<1>12. raced = {} /\ s # None => \A r \in U!Slot : U!IsOpen(r) => r = s
  BY <1>3, OneIsOpen
<1>13. j.op # "settle"
  BY <1>1, <1>7
<1> QED
  BY <1>1, <1>3, <1>5, <1>7, <1>8, <1>9, <1>10, <1>11, <1>12, <1>13, WritingStep

LEMMA WriteRowStep ==
    ASSUME RuleInv, NEW w \in Worker, U!WriteRow(w)
    PROVE  RuleStep
<1> DEFINE r == IF U!RuleIsLive THEN rule ELSE None
           j == [call[w] EXCEPT !.phase = "wrote", !.locks = call[w].row, !.rule = r]
<1>1. /\ RowsKept /\ payments' = payments /\ unpaid' = unpaid /\ calls' = calls
      /\ call[w] \in U!Job /\ call[w].op = "settle"
      /\ ~U!Locked(call[w].row, w)
      /\ call' = [call EXCEPT ![w] = j]
  BY RuleShapes DEF U!WriteRow, U!tables, U!Set, RowsKept
<1>2. r \in U!Rule \cup {None} /\ (r # None => r = rule /\ rule # None /\ rule.live)
  BY RuleShapes DEF U!RuleIsLive
<1>3. j \in U!Job
  <2> HIDE DEF r
  <2> QED
    BY <1>1, <1>2, RowWritten
<1>4. call[w] \in SettleCall
  BY <1>1, CallKinds DEF U!Idle, UpdateCall, DeleteCall, PayCall
<1>5. /\ j.phase = "wrote" /\ j.op = "settle" /\ j.locks = call[w].row /\ j.row = call[w].row
      /\ j.seen = call[w].seen /\ j.payment = call[w].payment /\ j.rule = r
  BY <1>4 DEF SettleCall
<1> HIDE DEF j
<1>6. /\ j.locks = WrittenFirst(j) /\ (Pays(j) <=> Pays(call[w]))
      /\ ~U!Locked(j.locks, w)
  BY <1>1, <1>5 DEF WrittenFirst, Pays
<1>7. ReadIsThere(j)
  BY <1>1, <1>2, <1>5 DEF RuleInv, AllReadIsThere, ReadIsThere
<1>8. raced = {} /\ U!IsOpen(j.row) => r # None /\ r.active
  <2>1. ASSUME raced = {}, U!IsOpen(j.row) PROVE U!RuleIsLive /\ rule.active
    <3>1. j.row \in U!Slot
      BY <1>4, <1>5 DEF SettleCall
    <3> QED
      BY <2>1, <3>1 DEF RuleInv, U!OpenRowFollowsRule
  <2> QED
    BY <2>1 DEF U!RuleIsLive
<1> QED
  BY <1>1, <1>3, <1>5, <1>6, <1>7, <1>8, WritingStep

\* createRecurringRule: there was nothing before.
LEMMA CreateStep ==
    ASSUME RuleInv, NEW w \in Worker, NEW active \in BOOLEAN, NEW d \in U!Date, NEW t \in Terms,
           U!Create(w, active, d, t)
    PROVE  RuleStep
<1>1. /\ rule = None /\ \A s \in U!Slot : expected[s] = None
      /\ call' = call /\ payments' = payments /\ unpaid' = unpaid /\ raced' = raced
      /\ rule' = [live |-> TRUE, active |-> active, next |-> d, terms |-> t, version |-> 1]
      /\ ruleTold' = 1
  BY DEF RuleInv, ExpectedIsKnown, U!Create
<1>2. calls' \in 0..MaxCalls /\ calls <= calls' /\ calls' \in Nat
  BY Starting DEF U!Create
<1>3. rule' \in U!Rule /\ rule' # None
  <2>1. rule' \in U!Rule
    BY <1>1 DEF U!Rule
  <2> QED
    BY <2>1, Parameters
<1>4. U!Insertable(expected, d) /\ ~U!AlreadyThere(expected, d)
  BY <1>1 DEF U!Insertable, U!AlreadyThere, U!Occupied
<1> DEFINE rs == IF active THEN U!Materialized(expected, d, t) ELSE expected
<1>5. /\ rs \in Rows
      /\ \/ rs = expected
         \/ active /\ \E s \in U!Slot : rs = [expected EXCEPT ![s] = NewRow(d, t)]
  <2>1. expected \in Rows
    BY RuleShapes
  <2>2. /\ U!Materialized(expected, d, t) \in Rows
        /\ \/ U!Materialized(expected, d, t) = expected
           \/ \E s \in U!Slot : /\ expected[s] = None
                                 /\ U!Materialized(expected, d, t) = [expected EXCEPT ![s] = NewRow(d, t)]
    BY <1>4, <2>1, MaterializedRows, Zenon
  <2> DEFINE m == U!Materialized(expected, d, t)
  <2>3. m \in Rows /\ (m = expected \/ \E s \in U!Slot : m = [expected EXCEPT ![s] = NewRow(d, t)])
    BY <2>2, Zenon
  <2>4. rs = IF active THEN m ELSE expected
    OBVIOUS
  <2> HIDE DEF m, rs
  <2> QED
    BY <2>1, <2>3, <2>4, Zenon
<1>6. expected' = rs /\ told' = IF active THEN U!Report(rs) ELSE told
  BY DEF U!Create
<1> HIDE DEF rs
<1>7. told' \in [U!Slot -> Nat] /\ \A s \in U!Slot : rs[s] # None => told'[s] = rs[s].version
  <2>1. CASE active
    BY <1>1, <1>5, <1>6, <2>1, ReportFits DEF RuleInv
  <2>2. CASE ~active
    BY <1>1, <1>5, <1>6, <2>2, RuleShapes
  <2> QED
    BY <2>1, <2>2
<1>8. expected \in [U!Slot -> U!Row \cup {None}]
  BY RuleShapes DEF Rows
<1>9. \A s \in U!Slot : rs[s] # None => rs[s] = NewRow(d, t) /\ active
  BY <1>1, <1>5, <1>8
<1>10. \A v \in Worker : call[v] = U!Idle
  <2>1. ASSUME NEW v \in Worker PROVE call[v].op = "idle"
    <3>1. call[v] \in U!Job
      BY RuleShapes
    <3>2. call[v].op \in {"idle", "update", "delete", "settle", "pay"}
          /\ (call[v].op \in {"pay", "settle"} => call[v].row \in U!Slot)
      BY <3>1, CallShapes
    <3> QED
      BY <1>1, <3>2 DEF RuleInv, AllReadIsThere, ReadIsThere
  <2> QED
    BY <2>1, RuleShapes, CallShapes
<1>11. payments = {}
  BY <1>1 DEF RuleInv, PaymentsAreKnown, U!TypeOK
<1>12. U!TypeOK'
  BY <1>1, <1>2, <1>3, <1>5, <1>6, <1>7 DEF RuleInv, U!TypeOK, Rows
<1>13. ExpectedIsKnown'
  BY <1>3, <1>6, <1>9 DEF ExpectedIsKnown, NewRow
<1>14. AllReadIsThere' /\ LocksExclude' /\ OpenIsAsRead' /\ RuleIsRead'
  BY <1>1, <1>10 DEF AllReadIsThere, ReadIsThere, LocksExclude, OpenIsAsRead, RuleIsRead,
     HoldsRule, HasWritten, U!Idle
<1>15. PaymentsAreKnown' /\ U!EveryPaymentIsAccounted'
  BY <1>1, <1>10, <1>11 DEF PaymentsAreKnown, U!EveryPaymentIsAccounted, Pays, U!Idle
<1>16. U!OpenRowFollowsRule'
  BY <1>1, <1>3, <1>6, <1>9 DEF U!OpenRowFollowsRule, U!IsOpen, U!IsLive, U!RuleIsLive, NewRow
<1>17. U!DerivedRowsAreReported'
  BY <1>1, <1>6, <1>7 DEF U!DerivedRowsAreReported
<1>18. U!SettledIsLeft /\ U!NextDateMoves
  BY <1>1 DEF U!SettledIsLeft, U!NextDateMoves
<1> QED
  BY <1>12, <1>13, <1>14, <1>15, <1>16, <1>17, <1>18 DEF RuleStep, RuleInv

\* Who has written has found a rule.
LEMMA RuleIsThere ==
    ASSUME RuleInv, NEW w \in Worker, HasWritten(w)
    PROVE  rule # None /\ rule \in U!Rule
<1>1. call[w] \in U!Job
  BY RuleShapes
<1>2. call[w].op \in {"update", "delete", "settle"} /\ (call[w].op = "settle" => call[w].row \in U!Slot)
  BY <1>1, CallShapes DEF HasWritten
<1> QED
  BY <1>2, RuleShapes DEF RuleInv, AllReadIsThere, ReadIsThere, ExpectedIsKnown

\* A request that commits.
LEMMA CommitStep ==
    ASSUME RuleInv, NEW w \in Worker, HasWritten(w), call' = [call EXCEPT ![w] = U!Idle],
           calls' = calls, payments' = payments, unpaid' = unpaid,
           raced \subseteq raced', raced' \subseteq 0..LastDate,
           rule' \in U!Rule, ruleTold' = rule'.version,
           NEW rs \in Rows, expected' = rs, told' = U!Report(rs),
           \A s \in U!Slot : rs[s] # None =>
                /\ rs[s].status \in {"scheduled", "confirmed", "skipped"}
                /\ rs[s].status = "scheduled" => rs[s].paid = None,
           \A s \in U!Slot : expected[s] # None =>
                /\ rs[s] # None
                /\ s \in raced' \/ expected[s].paid = None \/ rs[s].paid = expected[s].paid
                /\ U!IsOpen(s)' => U!IsOpen(s),
           \A v \in Worker \ {w} : HoldsRule(v) =>
                /\ \A s \in U!Slot : U!IsOpen(s)' => U!IsOpen(s)
                /\ \A s \in U!Slot : raced' = {} /\ s = call[v].open => U!IsOpen(s)',
           Pays(call[w]) =>
                call[w].row \in raced' \/ rs[call[w].row].paid = call[w].payment,
           U!OpenRowFollowsRule'
    PROVE  RuleInv'
<1>1. rule' # None /\ rule # None
  BY Parameters, RuleIsThere
<1>2. /\ U!Report(rs) \in [U!Slot -> Nat]
      /\ \A s \in U!Slot : rs[s] # None => U!Report(rs)[s] = rs[s].version
  BY ReportFits DEF RuleInv
<1>3. U!Idle \in U!Job /\ ~Pays(U!Idle)
  BY DEF U!Job, U!Idle, Pays
<1>4. U!TypeOK'
  <2>1. call' \in [Worker -> U!Job]
    BY <1>3, RuleShapes
  <2>2. ruleTold' \in Nat
    BY DEF U!Rule
  <2> QED
    BY <1>2, <2>1, <2>2 DEF RuleInv, U!TypeOK, Rows
<1>5. ExpectedIsKnown'
  BY <1>1 DEF ExpectedIsKnown
<1>6. AllReadIsThere' /\ LocksExclude' /\ OpenIsAsRead' /\ RuleIsRead'
  BY <1>1, OthersKept
<1>7. PaymentsAreKnown' /\ U!EveryPaymentIsAccounted'
  <2>1. calls' \in Nat /\ calls <= calls' /\ unpaid \subseteq unpaid'
    BY RuleShapes
  <2> QED
    BY <1>3, <2>1, PaymentsFollow
<1>8. U!DerivedRowsAreReported'
  BY <1>2 DEF U!DerivedRowsAreReported
<1> QED
  BY <1>4, <1>5, <1>6, <1>7, <1>8 DEF RuleInv

\* What is written where nothing is read open: the row of the rule's date, or nothing.
LEMMA MaterializedKept ==
    ASSUME NEW rs \in Rows, NEW d \in U!Date, NEW terms \in Terms, U!Insertable(rs, d),
           NEW ms, ms = U!Materialized(rs, d, terms)
    PROVE  /\ ms \in Rows
           /\ \A s \in U!Slot : rs[s] # None => ms[s] = rs[s]
           /\ \A s \in U!Slot : rs[s] = None => ms[s] = None \/ ms[s] = NewRow(d, terms)
<1>1. rs \in [U!Slot -> U!Row \cup {None}]
  BY DEF Rows
<1> QED
  BY <1>1, MaterializedRows

\* updateRecurringRule.
LEMMA CommitUpdateStep ==
    ASSUME RuleInv, NEW w \in Worker, U!CommitUpdate(w)
    PROVE  RuleStep
<1> DEFINE j == call[w]
           new == [live |-> rule.live, active |-> j.cols.active, next |-> j.cols.next,
                   terms |-> j.cols.terms, version |-> j.seen.version + 1]
<1>1. /\ j.op = "update" /\ j.phase = "wrote" /\ HasWritten(w) /\ HoldsRule(w)
      /\ call' = [call EXCEPT ![w] = U!Idle]
      /\ calls' = calls /\ payments' = payments /\ unpaid' = unpaid
      /\ raced' = raced \cup U!RacedRule(j)
  BY DEF U!CommitUpdate, U!Set, HasWritten, HoldsRule
<1>2. j \in U!Job /\ j.seen \in U!Rule /\ j.cols \in U!Form /\ j.open \in U!Slot \cup {None}
      /\ j.openVersion \in Nat
  BY <1>1, RuleShapes, CallShapes
<1>3. rule # None /\ rule \in U!Rule /\ j.seen.live
  BY <1>1, RuleIsThere DEF RuleInv, AllReadIsThere, ReadIsThere
<1>4. raced \subseteq raced' /\ raced' \subseteq 0..LastDate
  BY <1>1, Parameters DEF RuleInv, U!TypeOK, U!RacedRule, U!TheRule
<1>5. \A v \in Worker \ {w} : ~HoldsRule(v)
  BY <1>1 DEF RuleInv, LocksExclude, HoldsRule, WrittenFirst
<1>6. ~Pays(call[w])
  BY <1>1 DEF Pays
<1>7. U!NextDateMoves
  <2>1. call'[w] = U!Idle
    BY <1>1, RuleShapes
  <2> QED
    BY <1>1, <2>1 DEF U!NextDateMoves
<1>8. /\ j.open = None => \A s \in U!Slot : ~U!IsOpen(s)
      /\ j.open # None => expected[j.open] # None
      /\ raced = {} /\ j.open # None =>
          U!IsOpen(j.open) /\ \A s \in U!Slot : U!IsOpen(s) => s = j.open
  BY <1>1 DEF RuleInv, OpenIsAsRead
<1>9. CASE U!Collides(j, new)
  <2>1. rule' = rule /\ expected' = expected /\ ruleTold' = ruleTold /\ told' = told
    BY <1>9 DEF U!CommitUpdate
  <2>2. expected \in Rows /\ told' = U!Report(expected) /\ ruleTold' = rule'.version
    <3>1. told \in [U!Slot -> Nat] /\ U!Report(expected) = [s \in U!Slot |-> told[s]]
      BY RuleShapes DEF U!Report
    <3> QED
      BY <1>3, <2>1, <3>1, RuleShapes DEF RuleInv, U!DerivedRowsAreReported
  <2>3. \A s \in U!Slot : U!IsOpen(s)' => U!IsOpen(s)
    BY <2>1 DEF U!IsOpen, U!IsLive
  <2>4. U!OpenRowFollowsRule'
    BY <1>4, <2>1 DEF RuleInv, U!OpenRowFollowsRule, U!IsOpen, U!IsLive, U!RuleIsLive
  <2>5. U!SettledIsLeft
    BY <2>1 DEF U!SettledIsLeft
  <2>6. \A s \in U!Slot : expected[s] # None =>
            /\ expected[s].status \in {"scheduled", "confirmed", "skipped"}
            /\ expected[s].status = "scheduled" => expected[s].paid = None
    BY DEF RuleInv, ExpectedIsKnown
  <2> HIDE DEF j
  <2>7. RuleInv'
    BY <1>1, <1>3, <1>4, <1>5, <1>6, <2>1, <2>2, <2>3, <2>4, <2>6, CommitStep
  <2> QED
    BY <1>7, <2>5, <2>7 DEF RuleStep
<1>10. CASE ~U!Collides(j, new)
  <2> DEFINE rs == U!Follow(j, new)
  <2>1. rule' = new /\ expected' = rs /\ ruleTold' = new.version /\ told' = U!Report(rs)
    BY <1>10 DEF U!CommitUpdate
  <2>2. /\ new \in U!Rule /\ new.next \in U!Date /\ new.terms \in Terms /\ new.active \in BOOLEAN
        /\ new.live = rule.live
    <3>1. /\ rule.live \in BOOLEAN /\ j.cols.active \in BOOLEAN /\ j.cols.next \in U!Date
          /\ j.cols.terms \in Terms /\ j.seen.version \in Nat
      BY <1>2, <1>3 DEF U!Rule, U!Form
    <3> HIDE DEF j
    <3> QED
      BY <3>1 DEF U!Rule
  <2>3. rule' \in U!Rule /\ ruleTold' = rule'.version
    BY <2>1, <2>2
  <2> HIDE DEF new, j
  <2>4. expected \in Rows /\ \A s \in U!Slot : expected[s] \in U!Row \cup {None}
    BY RuleShapes
  <2>5. \A s \in U!Slot : expected[s] # None =>
            /\ expected[s].status \in {"scheduled", "confirmed", "skipped"}
            /\ expected[s].status = "scheduled" => expected[s].paid = None
    BY DEF RuleInv, ExpectedIsKnown
  \* What becomes of each row.
  <2>6. /\ rs \in Rows
        /\ \A s \in U!Slot : rs[s] # None =>
            /\ rs[s].status \in {"scheduled", "confirmed", "skipped"}
            /\ rs[s].status = "scheduled" => rs[s].paid = None
        /\ \A s \in U!Slot : expected[s] # None =>
            /\ rs[s] # None /\ rs[s].live = expected[s].live /\ rs[s].paid = expected[s].paid
            /\ rs[s].status = expected[s].status \/ rs[s].status = "skipped"
            /\ s # j.open => rs[s] = expected[s]
        /\ \A s \in U!Slot : s = j.open =>
            IF new.active THEN rs[s].date = new.next /\ rs[s].terms = new.terms
            ELSE rs[s].status = "skipped"
        /\ \A s \in U!Slot : expected[s] = None =>
            rs[s] = None \/ (j.open = None /\ new.active /\ rs[s] = NewRow(new.next, new.terms))
    <3>1. CASE j.open = None /\ ~new.active
      <4>1. rs = expected
        BY <3>1 DEF U!Follow
      <4> QED
        BY <2>4, <2>5, <3>1, <4>1, NoneIsNoSlot
    <3>2. CASE j.open = None /\ new.active
      <4>1. rs = U!Materialized(expected, new.next, new.terms) /\ U!Insertable(expected, new.next)
        BY <1>10, <3>2 DEF U!Follow, U!Collides
      <4> HIDE DEF rs
      <4>2. /\ rs \in Rows
            /\ \A s \in U!Slot : expected[s] # None => rs[s] = expected[s]
            /\ \A s \in U!Slot : expected[s] = None => rs[s] = None \/ rs[s] = NewRow(new.next, new.terms)
        BY <2>2, <2>4, <4>1, MaterializedKept
      <4>3. NewRow(new.next, new.terms).status = "scheduled" /\ NewRow(new.next, new.terms).paid = None
        BY DEF NewRow
      <4> QED
        BY <2>5, <3>2, <4>2, <4>3, NoneIsNoSlot
    <3>3. CASE j.open # None
      <4> DEFINE o == j.open
                 e == expected[o]
                 f == IF new.active THEN [e EXCEPT !.date = new.next, !.terms = new.terms,
                                                   !.version = j.openVersion + 1]
                      ELSE [e EXCEPT !.status = "skipped", !.version = j.openVersion + 1]
      <4>1. o \in U!Slot /\ e \in U!Row /\ e # None
        BY <1>2, <1>8, <2>4, <3>3
      <4>2. rs = [expected EXCEPT ![o] = f]
        BY <3>3 DEF U!Follow
      <4>3. /\ f \in U!Row /\ f.live = e.live /\ f.paid = e.paid
            /\ IF new.active THEN f.date = new.next /\ f.terms = new.terms /\ f.status = e.status
               ELSE f.status = "skipped" /\ f.date = e.date
        <5>1. j.openVersion + 1 \in Nat
          BY <1>2
        <5> HIDE DEF o, e
        <5>2. CASE new.active
          BY <2>2, <4>1, <5>1, <5>2 DEF U!Row
        <5>3. CASE ~new.active
          BY <2>2, <4>1, <5>1, <5>3 DEF U!Row, U!Status
        <5> QED
          BY <2>2, <5>2, <5>3
      <4>4. new.active => \A s \in U!Slot : s # o /\ expected[s] # None => expected[s].date # new.next
        BY <1>10, <3>3 DEF U!Collides, U!Occupied
      <4>5. f # None
        BY <4>3, Parameters
      <4> HIDE DEF f
      <4>6. /\ rs[o] = f /\ \A s \in U!Slot : s # o => rs[s] = expected[s]
            /\ rs \in [U!Slot -> U!Row \cup {None}]
        BY <2>4, <4>1, <4>2, <4>3 DEF Rows
      <4>7. rs \in Rows
        <5> HIDE DEF rs
        <5>1. SUFFICES ASSUME NEW r \in U!Slot, NEW s \in U!Slot, r # s, rs[r] # None, rs[s] # None
                       PROVE  rs[r].date # rs[s].date
          BY <4>6 DEF Rows
        <5>2. CASE r # o /\ s # o
          BY <2>4, <4>6, <5>1, <5>2 DEF Rows
        <5>3. \A x \in U!Slot : x # o /\ expected[x] # None => expected[x].date # f.date
          BY <2>4, <4>1, <4>3, <4>4 DEF Rows
        <5> QED
          BY <4>6, <5>1, <5>2, <5>3
      <4> HIDE DEF rs
      <4> QED
        BY <2>5, <3>3, <4>1, <4>3, <4>5, <4>6, <4>7
    <3> QED
      BY <3>1, <3>2, <3>3
  <2> HIDE DEF rs
  <2>7. \A s \in U!Slot : expected[s] # None => (U!IsOpen(s)' => U!IsOpen(s))
    BY <2>1, <2>6 DEF U!IsOpen, U!IsLive
  <2>8. U!OpenRowFollowsRule'
    <3>1. SUFFICES ASSUME raced' = {}, NEW s \in U!Slot, rs[s] # None, rs[s].live,
                          rs[s].status = "scheduled"
                   PROVE  /\ rule'.live /\ rule'.active
                          /\ rs[s].date = rule'.next /\ rs[s].terms = rule'.terms
      BY <2>1, <2>3, Parameters DEF U!OpenRowFollowsRule, U!IsOpen, U!IsLive, U!RuleIsLive
    <3>2. raced = {} /\ rule = j.seen /\ new.live
      BY <1>1, <1>3, <2>2, <3>1 DEF U!RacedRule
    <3>3. CASE expected[s] = None
      BY <2>1, <2>6, <3>1, <3>2, <3>3 DEF NewRow
    <3>4. CASE expected[s] # None
      <4>1. U!IsOpen(s)
        BY <2>1, <2>7, <3>1, <3>4 DEF U!IsOpen, U!IsLive
      <4>2. s = j.open
        BY <1>8, <3>2, <4>1
      <4> QED
        BY <2>1, <2>6, <3>1, <3>2, <4>2
    <3> QED
      BY <3>3, <3>4
  <2>9. U!SettledIsLeft
    <3>1. SUFFICES ASSUME NEW s \in U!Slot, expected[s] # None, expected[s].status # "scheduled",
                          raced = {}
                   PROVE  expected'[s] = expected[s]
      BY DEF U!SettledIsLeft
    <3>2. s # j.open
      BY <1>8, <3>1, NoneIsNoSlot DEF U!IsOpen
    <3> QED
      BY <2>1, <2>6, <3>1, <3>2
  <2>10. RuleInv'
    BY <1>1, <1>4, <1>5, <1>6, <2>1, <2>3, <2>6, <2>7, <2>8, CommitStep, ZenonT(60)
  <2> QED
    BY <1>7, <2>9, <2>10 DEF RuleStep
<1> QED
  BY <1>9, <1>10

\* deleteRecurringRule.
LEMMA CommitDeleteStep ==
    ASSUME RuleInv, NEW w \in Worker, U!CommitDelete(w)
    PROVE  RuleStep
<1> DEFINE j == call[w]
           gone(s) == [expected[s] EXCEPT !.live = FALSE, !.version = @ + 1]
           rs == [s \in U!Slot |-> IF U!IsOpen(s) THEN gone(s) ELSE expected[s]]
<1>1. /\ j.op = "delete" /\ j.phase = "wrote" /\ HasWritten(w) /\ HoldsRule(w)
      /\ call' = [call EXCEPT ![w] = U!Idle]
      /\ calls' = calls /\ payments' = payments /\ unpaid' = unpaid
      /\ raced' = raced \cup U!RacedRule(j)
      /\ rule' = [rule EXCEPT !.live = FALSE, !.active = FALSE, !.version = j.seen.version + 1]
      /\ ruleTold' = j.seen.version + 1
      /\ expected' = rs /\ told' = U!Report(rs)
  BY DEF U!CommitDelete, U!Set, HasWritten, HoldsRule
<1>2. j.seen \in U!Rule
  BY <1>1, RuleShapes, CallShapes
<1>3. rule # None /\ rule \in U!Rule
  BY <1>1, RuleIsThere
<1>4. raced \subseteq raced' /\ raced' \subseteq 0..LastDate
  <2>1. raced' = raced \cup U!RacedRule(j)
    BY <1>1
  <2>2. raced \subseteq 0..LastDate /\ 0 \in 0..LastDate
    BY Parameters DEF RuleInv, U!TypeOK
  <2> QED
    BY <2>1, <2>2 DEF U!RacedRule, U!TheRule
<1>5. \A v \in Worker \ {w} : ~HoldsRule(v)
  BY <1>1 DEF RuleInv, LocksExclude, HoldsRule, WrittenFirst
<1>6. ~Pays(call[w])
  BY <1>1 DEF Pays
<1>7. /\ rule' \in U!Rule /\ ruleTold' = rule'.version
      /\ rule'.next = rule.next /\ rule.next \in Int
  <2> DEFINE n == j.seen.version + 1
             new == [rule EXCEPT !.live = FALSE, !.active = FALSE, !.version = n]
  <2>1. rule' = new /\ ruleTold' = n
    BY <1>1
  <2>2. n \in Nat
    BY <1>2 DEF U!Rule
  <2> HIDE DEF n
  <2>3. new \in U!Rule /\ new.version = n /\ new.next = rule.next
    BY <1>3, <2>2 DEF U!Rule
  <2>4. rule.next \in Int
    BY <1>3 DEF U!Rule, U!Date
  <2> HIDE DEF new
  <2> QED
    BY <2>1, <2>3, <2>4
<1>8. expected \in Rows /\ \A s \in U!Slot : expected[s] \in U!Row \cup {None}
  BY RuleShapes
<1>9. ASSUME NEW s \in U!Slot, U!IsOpen(s)
      PROVE  /\ rs[s] = gone(s) /\ gone(s) \in U!Row /\ ~gone(s).live /\ gone(s) # None
             /\ expected[s] # None /\ expected[s].status = "scheduled"
             /\ gone(s).date = expected[s].date /\ gone(s).status = expected[s].status
             /\ gone(s).paid = expected[s].paid
  <2>1. expected[s] \in U!Row /\ expected[s] # None /\ expected[s].status = "scheduled"
    BY <1>8, <1>9 DEF U!IsOpen, U!IsLive
  <2>2. /\ gone(s) \in U!Row /\ ~gone(s).live /\ gone(s).date = expected[s].date
        /\ gone(s).status = expected[s].status /\ gone(s).paid = expected[s].paid
    <3> DEFINE e == expected[s]
    <3>1. e \in U!Row /\ e.version + 1 \in Nat
      BY <2>1 DEF U!Row
    <3>2. gone(s) = [e EXCEPT !.live = FALSE, !.version = e.version + 1]
      BY <3>1 DEF U!Row
    <3> HIDE DEF e, gone
    <3>3. /\ gone(s) \in U!Row /\ ~gone(s).live /\ gone(s).date = e.date
          /\ gone(s).status = e.status /\ gone(s).paid = e.paid
      BY <3>1, <3>2 DEF U!Row
    <3> QED
      BY <3>3 DEF e
  <2>3. gone(s) # None
    BY <2>2, Parameters
  <2> QED
    BY <1>9, <2>1, <2>2, <2>3
<1>10. \A s \in U!Slot : ~U!IsOpen(s) => rs[s] = expected[s]
  OBVIOUS
<1>11. rs \in [U!Slot -> U!Row \cup {None}]
  BY <1>8, <1>9
<1> HIDE DEF rs, gone
<1>12. rs \in Rows
  <2>1. \A s \in U!Slot : rs[s] # None => expected[s] # None /\ rs[s].date = expected[s].date
    BY <1>9, <1>10
  <2> QED
    BY <1>8, <1>11, <2>1 DEF Rows
<1>13. \A s \in U!Slot : rs[s] # None =>
          /\ rs[s].status \in {"scheduled", "confirmed", "skipped"}
          /\ rs[s].status = "scheduled" => rs[s].paid = None
  BY <1>9, <1>10 DEF RuleInv, ExpectedIsKnown
<1>14. \A s \in U!Slot : ~U!IsOpen(s)'
  <2>1. SUFFICES ASSUME NEW s \in U!Slot, rs[s] # None, rs[s].live, rs[s].status = "scheduled"
                 PROVE  FALSE
    BY <1>1 DEF U!IsOpen, U!IsLive
  <2>2. CASE U!IsOpen(s)
    BY <1>9, <2>1, <2>2
  <2>3. CASE ~U!IsOpen(s)
    BY <1>10, <2>1, <2>3 DEF U!IsOpen, U!IsLive
  <2> QED
    BY <2>2, <2>3
<1>15. \A s \in U!Slot : expected[s] # None => rs[s] # None /\ rs[s].paid = expected[s].paid
  BY <1>9, <1>10
<1>16. U!OpenRowFollowsRule'
  BY <1>14 DEF U!OpenRowFollowsRule
<1>17. U!SettledIsLeft
  BY <1>1, <1>9, <1>10 DEF U!SettledIsLeft
<1>18. U!NextDateMoves
  BY <1>7 DEF U!NextDateMoves
<1> HIDE DEF j
<1>19. RuleInv'
  BY <1>1, <1>4, <1>5, <1>6, <1>7, <1>12, <1>13, <1>14, <1>15, <1>16, CommitStep, ZenonT(60)
<1> QED
  BY <1>17, <1>18, <1>19 DEF RuleStep

\* updateExpectedTransaction.
LEMMA CommitSettleStep ==
    ASSUME RuleInv, NEW w \in Worker, U!CommitSettle(w)
    PROVE  RuleStep
<1> DEFINE j == call[w]
           o == j.row
           e == expected[o]
           advances == j.status \in {"confirmed", "skipped"} /\ j.rule # None /\ j.rule.active
           rows1 == [expected EXCEPT ![o].status = j.status, ![o].paid = U!Matched(j),
                                     ![o].version = j.seen.version + 1]
           rs == IF advances THEN U!Materialized(rows1, U!NextDate(j), j.rule.terms) ELSE rows1
<1>1. /\ j.op = "settle" /\ j.phase = "wrote" /\ HasWritten(w)
      /\ call' = [call EXCEPT ![w] = U!Idle]
      /\ calls' = calls /\ payments' = payments /\ unpaid' = unpaid
      /\ expected' = rs /\ told' = U!Report(rs)
      /\ raced' = raced \cup (IF expected[j.row] = j.seen THEN {} ELSE {j.row})
                        \cup (IF advances /\ rule # j.rule THEN {U!TheRule} ELSE {})
  BY SMTT(60) DEF U!CommitSettle, U!Set, HasWritten
<1>2. /\ advances => ~U!Locked(U!TheRule, w) /\ U!Insertable(rows1, U!NextDate(j))
                     /\ U!NextDate(j) \in U!Date
      /\ IF advances
         THEN /\ rule' = [rule EXCEPT !.next = U!NextDate(j), !.version = j.rule.version + 1]
              /\ ruleTold' = j.rule.version + 1
         ELSE rule' = rule /\ ruleTold' = ruleTold
  BY SMTT(60) DEF U!CommitSettle
<1>3. /\ j \in U!Job /\ o \in U!Slot /\ j.seen \in U!Row /\ j.status \in {"confirmed", "skipped"}
      /\ j.payment \in Nat \cup {None} /\ j.rule \in U!Rule \cup {None}
  BY <1>1, RuleShapes, CallShapes, SMTT(60)
<1>4. /\ rule # None /\ rule \in U!Rule
      /\ e # None /\ j.seen.live /\ j.seen.status \in {"scheduled", "matched", "missed"}
      /\ j.rule # None => j.rule.live
  BY <1>1, RuleIsThere, ZenonT(60) DEF RuleInv, AllReadIsThere, ReadIsThere
<1>5. advances <=> (j.rule # None /\ j.rule.active)
  BY <1>3
<1>6. expected \in Rows /\ \A s \in U!Slot : expected[s] \in U!Row \cup {None}
  BY RuleShapes
<1>7. e \in U!Row
  BY <1>3, <1>4, <1>6
<1>8. U!Matched(j) \in Nat \cup {None} /\ (j.payment # None => U!Matched(j) = j.payment)
  BY <1>3 DEF U!Matched, U!Row
\* The row that is settled, and the others.
<1>9. /\ rows1 \in Rows /\ rows1[o] # None
      /\ rows1[o].status = j.status /\ rows1[o].paid = U!Matched(j) /\ rows1[o].live = e.live
      /\ rows1[o].date = e.date
      /\ \A s \in U!Slot : s # o => rows1[s] = expected[s]
  <2> DEFINE f == [e EXCEPT !.status = j.status, !.paid = U!Matched(j), !.version = j.seen.version + 1]
  <2>1. /\ f \in U!Row /\ f.status = j.status /\ f.paid = U!Matched(j) /\ f.live = e.live
        /\ f.date = e.date
    <3>1. j.status \in U!Status /\ j.seen.version + 1 \in Nat
      BY <1>3 DEF U!Row, U!Status
    <3> HIDE DEF j, o, e
    <3> QED
      BY <1>7, <1>8, <3>1 DEF U!Row
  <2>2. f # None
    BY <2>1, Parameters
  <2>3. rows1 = [expected EXCEPT ![o] = f]
    BY <1>3, <1>6, <1>7 DEF Rows, U!Row
  <2> HIDE DEF f, rows1
  <2>4. rows1[o] = f /\ (\A s \in U!Slot : s # o => rows1[s] = expected[s])
        /\ rows1 \in [U!Slot -> U!Row \cup {None}]
    BY <1>3, <1>6, <2>1, <2>3 DEF Rows
  <2>5. rows1 \in Rows
    <3>1. \A s \in U!Slot : rows1[s] # None => expected[s] # None /\ rows1[s].date = expected[s].date
      BY <1>3, <1>4, <2>1, <2>4
    <3> HIDE DEF e, o, j
    <3> QED
      BY <1>6, <2>4, <3>1 DEF Rows
  <2> QED
    BY <2>1, <2>2, <2>4, <2>5
<1> HIDE DEF rows1
<1>10. advances => j.rule.terms \in Terms /\ j.rule.version \in Nat
  BY <1>3, <1>5 DEF U!Rule
\* What becomes of each row.
<1>11. /\ rs \in Rows
       /\ \A s \in U!Slot : rows1[s] # None => rs[s] = rows1[s]
       /\ \A s \in U!Slot : rows1[s] = None =>
            rs[s] = None \/ (advances /\ rs[s] = NewRow(U!NextDate(j), j.rule.terms))
  <2>1. CASE advances
    <3>1. rs = U!Materialized(rows1, U!NextDate(j), j.rule.terms)
      BY <2>1
    <3> HIDE DEF rs, advances
    <3> QED
      BY <1>2, <1>9, <1>10, <2>1, <3>1, MaterializedKept
  <2>2. CASE ~advances
    BY <1>9, <2>2
  <2> QED
    BY <2>1, <2>2
<1> HIDE DEF rs, advances
<1>12. rule' \in U!Rule /\ ruleTold' = rule'.version
  <2>1. CASE advances
    <3>1. U!NextDate(j) \in U!Date /\ j.rule.version + 1 \in Nat
      BY <1>2, <1>10, <2>1
    <3> HIDE DEF j
    <3> QED
      BY <1>2, <1>4, <2>1, <3>1 DEF U!Rule
  <2>2. CASE ~advances
    BY <1>2, <1>4, <2>2 DEF RuleInv, U!DerivedRowsAreReported
  <2> QED
    BY <2>1, <2>2
<1>13. raced \subseteq raced' /\ raced' \subseteq 0..LastDate
  <2>1. raced \subseteq 0..LastDate /\ 0 \in 0..LastDate
    BY Parameters DEF RuleInv, U!TypeOK
  <2>2. j.row \in 0..LastDate
    BY <1>3, Parameters DEF U!Slot
  <2> HIDE DEF j
  <2> QED
    BY <1>1, <2>1, <2>2 DEF U!TheRule
<1>14. \A s \in U!Slot : expected[s] # None =>
          /\ expected[s].status \in {"scheduled", "confirmed", "skipped"}
          /\ expected[s].status = "scheduled" => expected[s].paid = None
  BY DEF RuleInv, ExpectedIsKnown
<1>15. \A s \in U!Slot : rs[s] # None =>
          /\ rs[s].status \in {"scheduled", "confirmed", "skipped"}
          /\ rs[s].status = "scheduled" => rs[s].paid = None
  <2>1. \A d : NewRow(d, j.rule.terms).status = "scheduled" /\ NewRow(d, j.rule.terms).paid = None
    BY DEF NewRow
  <2> QED
    BY <1>3, <1>9, <1>11, <1>14, <2>1
<1>16. \A s \in U!Slot : U!IsOpen(s)' <=> rs[s] # None /\ rs[s].live /\ rs[s].status = "scheduled"
  BY <1>1 DEF U!IsOpen, U!IsLive
<1>17. \A s \in U!Slot : expected[s] # None => (U!IsOpen(s)' => U!IsOpen(s) /\ s # o)
  BY <1>3, <1>9, <1>11, <1>16 DEF U!IsOpen, U!IsLive
\* Where nobody has changed the row in between, it was open; and then the rule was on.
<1>18. o \notin raced' => e = j.seen /\ U!IsOpen(o)
  <2>1. o \notin raced' => e = j.seen
    BY <1>1
  <2> QED
    BY <1>3, <1>4, <1>14, <2>1 DEF U!IsOpen, U!IsLive
<1>19. raced' = {} => raced = {} /\ advances /\ rule = j.rule /\ rule.live /\ rule.active
  <2>1. SUFFICES ASSUME raced' = {} PROVE raced = {} /\ advances /\ rule = j.rule /\ rule.live /\ rule.active
    OBVIOUS
  <2>2. raced = {}
    BY <1>13, <2>1
  <2>3. j.rule # None /\ j.rule.active
    BY <1>1, <1>18, <2>1, <2>2 DEF RuleInv, RuleIsRead
  <2>4. advances
    BY <1>5, <2>3 DEF advances
  <2>5. rule = j.rule
    BY <1>1, <2>1, <2>4
  <2> QED
    BY <1>4, <2>2, <2>3, <2>4, <2>5
<1>20. \A s \in U!Slot : expected[s] # None =>
          /\ rs[s] # None
          /\ s \in raced' \/ expected[s].paid = None \/ rs[s].paid = expected[s].paid
  <2>1. o \in raced' \/ e.paid = None
    BY <1>3, <1>4, <1>14, <1>18 DEF U!IsOpen
  <2> QED
    BY <1>9, <1>11, <2>1
<1>21. Pays(call[w]) => call[w].row \in raced' \/ rs[call[w].row].paid = call[w].payment
  BY <1>3, <1>8, <1>9, <1>11 DEF Pays
\* Who holds the rule keeps a row that advances nothing from being the one it has read.
<1>22. ASSUME NEW v \in Worker \ {w}, HoldsRule(v)
       PROVE  /\ \A s \in U!Slot : U!IsOpen(s)' => U!IsOpen(s)
              /\ \A s \in U!Slot : raced' = {} /\ s = call[v].open => U!IsOpen(s)'
  <2>1. ~advances
    <3>1. call[v].phase = "wrote" /\ call[v].locks = U!TheRule
      BY <1>22 DEF RuleInv, LocksExclude, HoldsRule, HasWritten, WrittenFirst
    <3> QED
      BY <1>2, <3>1 DEF U!Locked
  <2>2. raced' # {}
    BY <1>19, <2>1
  <2>3. \A s \in U!Slot : expected[s] = None => rs[s] = None
    BY <1>4, <1>9, <1>11, <2>1
  <2> QED
    BY <1>16, <1>17, <2>2, <2>3
<1>23. U!OpenRowFollowsRule'
  <2>1. SUFFICES ASSUME raced' = {}, NEW s \in U!Slot, rs[s] # None, rs[s].live,
                        rs[s].status = "scheduled"
                 PROVE  /\ rule'.live /\ rule'.active
                        /\ rs[s].date = rule'.next /\ rs[s].terms = rule'.terms
    BY <1>1, <1>12, Parameters DEF U!OpenRowFollowsRule, U!IsOpen, U!IsLive, U!RuleIsLive
  <2>2. raced = {} /\ advances /\ rule = j.rule /\ rule.live /\ rule.active /\ U!IsOpen(o)
    BY <1>18, <1>19, <2>1
  <2>3. /\ rule'.live /\ rule'.active /\ rule'.terms = rule.terms /\ rule'.next = U!NextDate(j)
    BY <1>2, <1>4, <2>2 DEF U!Rule
  <2>4. expected[s] = None
    <3>1. ASSUME expected[s] # None PROVE FALSE
      <4>1. U!IsOpen(s) /\ s # o
        BY <1>16, <1>17, <2>1, <3>1
      <4> QED
        BY <1>3, <2>2, <4>1, OneIsOpen
    <3> QED
      BY <3>1
  <2>5. rs[s] = NewRow(U!NextDate(j), j.rule.terms)
    BY <1>4, <1>9, <1>11, <2>1, <2>4
  <2> QED
    BY <2>2, <2>3, <2>5 DEF NewRow
<1>24. U!SettledIsLeft
  <2>1. SUFFICES ASSUME NEW s \in U!Slot, expected[s] # None, expected[s].status # "scheduled",
                        s \notin raced'
                 PROVE  expected'[s] = expected[s]
    BY DEF U!SettledIsLeft
  <2>2. s # o
    BY <1>18, <2>1 DEF U!IsOpen
  <2> QED
    BY <1>1, <1>9, <1>11, <2>1, <2>2
<1>25. U!NextDateMoves
  <2>1. SUFFICES ASSUME raced' = {} PROVE ~(rule'.next < rule.next)
    BY DEF U!NextDateMoves
  <2>2. raced = {} /\ advances /\ U!IsOpen(o) /\ e = j.seen
    BY <1>18, <1>19, <2>1
  <2>3. e.date = rule.next /\ rule.next \in Int
    <3>1. expected[o].date = rule.next
      BY <1>3, <2>2 DEF RuleInv, U!OpenRowFollowsRule
    <3>2. rule.next \in Int
      BY <1>4 DEF U!Rule, U!Date
    <3> QED
      BY <3>1, <3>2
  <2>4. rule'.next = rule.next + 1
    <3>1. rule'.next = U!NextDate(j)
      BY <1>2, <1>4, <2>2 DEF U!Rule
    <3>2. U!NextDate(j) = j.seen.date + 1
      BY DEF U!NextDate, U!Following
    <3> QED
      BY <2>2, <2>3, <3>1, <3>2
  <2> QED
    BY <2>3, <2>4
<1> HIDE DEF o, e
<1>26. RuleInv'
  <2>1. \A s \in U!Slot : expected[s] # None => (U!IsOpen(s)' => U!IsOpen(s))
    BY <1>17
  <2> HIDE DEF j
  <2> QED
    BY <1>1, <1>11, <1>12, <1>13, <1>15, <1>20, <1>21, <1>22, <1>23, <2>1, CommitStep, ZenonT(60)
<1> QED
  BY <1>24, <1>25, <1>26 DEF RuleStep

-------------------------------------------------------------------------------
(* The invariant, and what follows.                                        *)

LEMMA RuleInit ==
    ASSUME U!Init
    PROVE  RuleInv
<1>1. U!Idle \in U!Job /\ U!Idle.op = "idle" /\ U!Idle.phase = "read"
  BY DEF U!Job, U!Idle
<1>2. U!TypeOK
  BY <1>1, Parameters DEF U!Init, U!TypeOK
<1>3. ExpectedIsKnown /\ AllReadIsThere /\ LocksExclude /\ OpenIsAsRead /\ RuleIsRead
  BY <1>1 DEF U!Init, ExpectedIsKnown, AllReadIsThere, ReadIsThere, LocksExclude, HasWritten,
     OpenIsAsRead, HoldsRule, RuleIsRead
<1>4. PaymentsAreKnown
  BY <1>1 DEF U!Init, PaymentsAreKnown, Pays
<1>5. U!OpenRowFollowsRule /\ U!EveryPaymentIsAccounted /\ U!DerivedRowsAreReported
  BY DEF U!Init, U!OpenRowFollowsRule, U!IsOpen, U!IsLive, U!EveryPaymentIsAccounted,
     U!DerivedRowsAreReported
<1> QED
  BY <1>2, <1>3, <1>4, <1>5 DEF RuleInv

LEMMA RuleNext ==
    ASSUME RuleInv, U!Next
    PROVE  RuleStep
<1>1. PICK w \in Worker :
        \/ \E active \in BOOLEAN, d \in U!Date, t \in Terms :
            \/ U!Create(w, active, d, t)
            \/ U!BeginUpdate(w, [active |-> active, next |-> d, terms |-> t])
        \/ U!BeginDelete(w)
        \/ \E s \in U!Slot : U!BeginSkip(w, s) \/ U!Load(w, s)
        \/ U!Book(w) \/ U!BeginConfirm(w) \/ U!ConfirmFails(w) \/ U!Vanish(w)
        \/ U!WriteRule(w) \/ U!CommitUpdate(w) \/ U!CommitDelete(w)
        \/ U!WriteRow(w) \/ U!CommitSettle(w)
        \/ U!Fail(w)
  BY DEF U!Next
<1>2. ASSUME NEW active \in BOOLEAN, NEW d \in U!Date, NEW t \in Terms,
             U!BeginUpdate(w, [active |-> active, next |-> d, terms |-> t])
      PROVE  RuleStep
  <2>1. [active |-> active, next |-> d, terms |-> t] \in U!Form
    BY DEF U!Form
  <2> QED
    BY <1>2, <2>1, BeginUpdateStep
<1> QED
  BY <1>1, <1>2, CreateStep, BeginDeleteStep, BeginSkipStep, LoadStep, BookStep, BeginConfirmStep,
     GiveUpStep, WriteRuleStep, CommitUpdateStep, CommitDeleteStep, WriteRowStep,
     CommitSettleStep, FailStep

RecurringInv == part = "recurring" => RuleInv

LEMMA RecurringStart ==
    ASSUME BookInit
    PROVE  RecurringInv
BY RuleInit DEF BookInit, RecurringInv

\* Nothing happens.
LEMMA RuleStutter ==
    ASSUME RuleInv, UNCHANGED recurring
    PROVE  RuleStep
<1>1. /\ rule' = rule /\ expected' = expected /\ ruleTold' = ruleTold /\ told' = told
      /\ call' = call /\ calls' = calls /\ payments' = payments /\ unpaid' = unpaid
      /\ raced' = raced
  BY DEF recurring
<1>2. U!TypeOK' /\ U!EveryPaymentIsAccounted' /\ U!DerivedRowsAreReported'
  BY <1>1 DEF RuleInv, U!TypeOK, U!EveryPaymentIsAccounted, U!DerivedRowsAreReported
<1>3. ExpectedIsKnown' /\ AllReadIsThere' /\ LocksExclude'
  BY <1>1 DEF RuleInv, ExpectedIsKnown, AllReadIsThere, ReadIsThere, LocksExclude,
     HasWritten, WrittenFirst
<1>4. OpenIsAsRead' /\ RuleIsRead' /\ U!OpenRowFollowsRule'
  BY <1>1 DEF RuleInv, OpenIsAsRead, RuleIsRead, HoldsRule, HasWritten, U!OpenRowFollowsRule,
     U!IsOpen, U!IsLive, U!RuleIsLive
<1>5. PaymentsAreKnown'
  BY <1>1 DEF RuleInv, PaymentsAreKnown, Pays
<1>6. U!SettledIsLeft
  BY <1>1 DEF U!SettledIsLeft
<1>7. U!NextDateMoves
  <2>1. rule # None => rule.next \in Int
    BY RuleShapes DEF U!Rule, U!Date
  <2> QED
    BY <1>1, <2>1 DEF U!NextDateMoves
<1> QED
  BY <1>2, <1>3, <1>4, <1>5, <1>6, <1>7 DEF RuleStep, RuleInv

LEMMA RecurringStep ==
    ASSUME RecurringInv, [BookNext]_vars
    PROVE  RecurringInv' /\ (part = "recurring" => U!SettledIsLeft /\ U!NextDateMoves)
<1>1. CASE part = "recurring" /\ U!Next /\ UNCHANGED part
  BY <1>1, RuleNext DEF RecurringInv, RuleStep
<1>2. CASE UNCHANGED <<part, recurring>>
  BY <1>2, RuleStutter DEF RecurringInv, RuleStep
<1>3. CASE part # "recurring" /\ UNCHANGED part
  BY <1>3 DEF RecurringInv
<1> QED
  BY <1>1, <1>2, <1>3 DEF BookNext, vars

\* The open expected transaction follows its rule, and every payment is accounted for.
THEOREM RulesFollowed == BookSpec => []RulesAreFollowed
<1>1. BookInit => RecurringInv
  BY RecurringStart
<1>2. RecurringInv /\ [BookNext]_vars => RecurringInv'
  BY RecurringStep
<1>3. RecurringInv => RulesAreFollowed
  BY DEF RecurringInv, RuleInv, RulesAreFollowed
<1> QED
  BY <1>1, <1>2, <1>3, PTL DEF BookSpec

\* What is settled stays so, and only an update of the rule takes its next date back.
THEOREM SettledIsFinal == BookSpec => SettledStays
<1> DEFINE Stays == part = "recurring" => U!SettledIsLeft /\ U!NextDateMoves
<1>1. BookInit => RecurringInv
  BY RecurringStart
<1>2. RecurringInv /\ [BookNext]_vars => RecurringInv' /\ [Stays]_vars
  BY RecurringStep
<1> QED
  BY <1>1, <1>2, PTL DEF BookSpec, SettledStays

-------------------------------------------------------------------------------
(* The invariant of accounts and the other records.                        *)

\* What a request writes into the columns that refer to other rows.
WithColumns(cols, id) ==
    /\ DOMAIN cols \subseteq {"group", "limit", "autopay"}
    /\ "group" \in DOMAIN cols => id \in Account /\ cols["group"] \in Group \cup {None}
    /\ "limit" \in DOMAIN cols => id \in Card /\ cols["limit"] \in Limit \cup {None}
    /\ "autopay" \in DOMAIN cols => id \in Card /\ cols["autopay"] \in Account \cup {None}

RequestIsKnown(j) ==
    /\ j.op \in {"idle", "create", "update", "recur", "delete", "book", "quote"}
    /\ j.op = "create" =>
        /\ j.id \in A!Id /\ WithColumns(j.set, j.id)
        /\ j.opening \in Txn \cup {None} /\ (j.opening # None => j.id \in Account)
    /\ j.op = "update" => j.id \in A!Id /\ j.seen \in A!Row /\ WithColumns(j.set, j.id)
    /\ j.op = "recur" =>
        /\ j.id \in Security /\ j.seen \in A!Row
        /\ DOMAIN j.set = {"currency"} /\ j.set["currency"] \in Currency
    /\ j.op = "delete" => j.id \in A!Id /\ j.seen \in A!Row
    /\ j.op = "book" =>
        /\ j.txn \in Txn /\ j.accounts \subseteq Account /\ j.shares \in {-1, 0, 1}
        /\ j.inv \in Inv \cup {None} /\ j.security \in Security \cup {None}
        /\ j.inv # None => j.accounts = A!Pair(j.inv) /\ j.security # None
        /\ j.inv = None => j.security = None
    /\ j.op = "quote" => j.id \in Security /\ j.currency \in Currency
RequestsAreKnown == \A w \in Worker : RequestIsKnown(job[w])

\* An account's group is in use, the account being deleted or not: a group that goes
\* takes leave of both.  So an account that comes back has none that is gone.
GroupsAreInUse ==
    \A a \in Account : row[a] # None /\ row[a].group # None =>
        A!IsLive(row[a].group) \/ a \in crossed

\* Only cards share a limit, in a group that is in use as long as they are.
LimitsAreInUse ==
    /\ \A id \in A!Id : row[id] # None /\ row[id].limit # None => id \in Card
    /\ \A a \in Account : A!IsLive(a) /\ row[a].limit # None =>
        A!IsLive(row[a].limit) \/ a \in crossed \/ row[a].limit \in crossed

PairsAreInUse ==
    \A i \in Inv : A!IsLive(i) => \A a \in A!Pair(i) : A!IsLive(a) \/ a \in crossed

\* A trade is between the two accounts of its investment account, and what a
\* transaction in use is about is in use.
BookingsAreInUse ==
    /\ \A t \in Txn : booked[t] # None =>
        /\ booked[t].inv # None => booked[t].accounts = A!Pair(booked[t].inv) /\ booked[t].security # None
        /\ booked[t].inv = None => booked[t].security = None
    /\ \A t \in A!Booked :
        /\ \A a \in booked[t].accounts : A!IsLive(a) \/ a \in crossed
        /\ booked[t].inv # None => A!IsLive(booked[t].inv) \/ booked[t].inv \in crossed

SharesAreInUse == \A s \in Security : A!Shares(s) > 0 => A!IsLive(s) \/ s \in crossed

QuotesAreOfRows == \A s \in Security : quoted[s] # None => row[s] # None

AccountsInv ==
    /\ A!TypeOK
    /\ RequestsAreKnown
    /\ GroupsAreInUse
    /\ LimitsAreInUse
    /\ PairsAreInUse
    /\ BookingsAreInUse
    /\ SharesAreInUse
    /\ QuotesAreOfRows
    /\ A!EveryChangeIsReported
    /\ A!ValuesAreInOneCurrency

-------------------------------------------------------------------------------
(* Facts about rows and columns.                                           *)

LEMMA Registry ==
    /\ Card \subseteq Account /\ Equity \in Account \ Card
    /\ \A i \in Inv : A!Pair(i) \subseteq Account /\ A!Pair(i) # {} /\ A!Pair(i) \cap Card = {}
    /\ Existing \subseteq A!Id /\ Home \in Currency
    /\ None \notin A!Id /\ None \notin Txn /\ None \notin Currency
    /\ None \notin A!Row /\ None \notin A!Booking
    /\ MaxRequests \in Nat
BY BookAssumption DEF A!AccountsAssumption, A!Pair

LEMMA OneTable ==
    /\ Group \cap (Limit \cup Account \cup Inv \cup Security) = {}
    /\ Limit \cap (Account \cup Inv \cup Security) = {}
    /\ Account \cap (Inv \cup Security) = {}
    /\ Inv \cap Security = {}
<1>1. \A i, j \in 1..5 : i # j => A!Tables[i] \cap A!Tables[j] = {}
  BY BookAssumption DEF A!AccountsAssumption
<1>2. /\ A!Tables[1] = Group /\ A!Tables[2] = Limit /\ A!Tables[3] = Account
      /\ A!Tables[4] = Inv /\ A!Tables[5] = Security
  BY DEF A!Tables
<1> HIDE DEF A!Tables
<1>3. /\ Group \cap Limit = {} /\ Group \cap Account = {} /\ Group \cap Inv = {}
      /\ Group \cap Security = {} /\ Limit \cap Account = {} /\ Limit \cap Inv = {}
      /\ Limit \cap Security = {} /\ Account \cap Inv = {} /\ Account \cap Security = {}
      /\ Inv \cap Security = {}
  BY <1>1, <1>2
<1> QED
  BY <1>3

\* What is in a row, and what a patched one has.
LEMMA RowColumns ==
    ASSUME NEW r \in A!Row
    PROVE  /\ r.live \in BOOLEAN /\ r.version \in Nat /\ r.group \in Group \cup {None}
           /\ r.limit \in Limit \cup {None} /\ r.autopay \in Account \cup {None}
           /\ r.currency \in Currency /\ r # None
BY Registry DEF A!Row

LEMMA FreshRow == A!Fresh \in A!Row /\ A!Fresh.live /\ A!Fresh.version = 1 /\ A!Fresh.currency = Home
                  /\ A!Fresh.group = None /\ A!Fresh.limit = None /\ A!Fresh.autopay = None
BY Registry DEF A!Fresh, A!Row

Written(cols, c, old) == IF c \in DOMAIN cols THEN cols[c] ELSE old

LEMMA PatchedRow ==
    ASSUME NEW r \in A!Row, NEW cols, NEW id, WithColumns(cols, id)
    PROVE  /\ A!Patch(r, cols) \in A!Row
           /\ A!Patch(r, cols).live = r.live /\ A!Patch(r, cols).version = r.version
           /\ A!Patch(r, cols).currency = r.currency
           /\ A!Patch(r, cols).group = Written(cols, "group", r.group)
           /\ A!Patch(r, cols).limit = Written(cols, "limit", r.limit)
           /\ A!Patch(r, cols).autopay = Written(cols, "autopay", r.autopay)
<1> DEFINE p == A!Patch(r, cols)
<1>1. DOMAIN r = {"live", "version", "group", "limit", "autopay", "currency"}
  BY DEF A!Row
<1>2. /\ p = [live |-> r.live, version |-> r.version, group |-> Written(cols, "group", r.group),
              limit |-> Written(cols, "limit", r.limit),
              autopay |-> Written(cols, "autopay", r.autopay), currency |-> r.currency]
  BY <1>1 DEF A!Patch, Written, WithColumns
<1> HIDE DEF p
<1>3. /\ Written(cols, "group", r.group) \in Group \cup {None}
      /\ Written(cols, "limit", r.limit) \in Limit \cup {None}
      /\ Written(cols, "autopay", r.autopay) \in Account \cup {None}
  BY RowColumns DEF Written, WithColumns
<1>4. p \in A!Row
  BY <1>2, <1>3, RowColumns DEF A!Row
<1> QED
  BY <1>2, <1>4 DEF p

LEMMA PatchedCurrency ==
    ASSUME NEW r \in A!Row, NEW cols, DOMAIN cols = {"currency"}, cols["currency"] \in Currency
    PROVE  /\ A!Patch(r, cols) \in A!Row
           /\ A!Patch(r, cols).live = r.live /\ A!Patch(r, cols).version = r.version
           /\ A!Patch(r, cols).currency = cols["currency"]
           /\ A!Patch(r, cols).group = r.group
           /\ A!Patch(r, cols).limit = r.limit
           /\ A!Patch(r, cols).autopay = r.autopay
<1> DEFINE p == A!Patch(r, cols)
<1>1. DOMAIN r = {"live", "version", "group", "limit", "autopay", "currency"}
  BY DEF A!Row
<1>2. /\ p = [live |-> r.live, version |-> r.version, group |-> r.group,
              limit |-> r.limit, autopay |-> r.autopay, currency |-> cols["currency"]]
  BY <1>1 DEF A!Patch
<1> HIDE DEF p
<1>3. p \in A!Row
  BY <1>2, RowColumns DEF A!Row
<1> QED
  BY <1>2, <1>3 DEF p

\* No columns at all, those of an account and those of a card.
LEMMA Columns ==
    ASSUME NEW id
    PROVE  /\ DOMAIN <<>> = {} /\ WithColumns(<<>>, id)
           /\ \A g \in Group \cup {None} : id \in Account => WithColumns([group |-> g], id)
           /\ \A l \in Limit \cup {None} : id \in Card => WithColumns([limit |-> l], id)
           /\ \A l \in Limit, p \in Account : id \in Card => WithColumns([limit |-> l, autopay |-> p], id)
<1>1. DOMAIN <<>> = {}
  OBVIOUS
<1>2. \A g : DOMAIN [group |-> g] = {"group"} /\ [group |-> g]["group"] = g
  OBVIOUS
<1>3. \A l : DOMAIN [limit |-> l] = {"limit"} /\ [limit |-> l]["limit"] = l
  OBVIOUS
<1>4. \A l, p : /\ DOMAIN [limit |-> l, autopay |-> p] = {"limit", "autopay"}
                /\ [limit |-> l, autopay |-> p]["limit"] = l
                /\ [limit |-> l, autopay |-> p]["autopay"] = p
  OBVIOUS
<1> QED
  BY <1>1, <1>2, <1>3, <1>4 DEF WithColumns

\* The invariant, with the types of its parts.
LEMMA AccountsShapes ==
    ASSUME AccountsInv
    PROVE  /\ row \in [A!Id -> A!Row \cup {None}] /\ booked \in [Txn -> A!Booking \cup {None}]
           /\ quoted \in [Security -> Currency \cup {None}] /\ feed \in [A!Id -> Nat]
           /\ restored \in BOOLEAN /\ asked \in 0..MaxRequests /\ DOMAIN job = Worker
           /\ crossed \subseteq A!Id
           /\ \A id \in A!Id : row[id] # None =>
                /\ row[id].group # None => row[row[id].group] # None
                /\ row[id].limit # None => row[row[id].limit] # None
                /\ row[id].autopay # None => row[row[id].autopay] # None
           /\ \A t \in Txn : booked[t] # None =>
                \A id \in (booked[t].accounts \cup {booked[t].security}) \ {None} : row[id] # None
BY DEF AccountsInv, A!TypeOK

LEMMA SameSum == \A f : A!SumFunction(f) = SumFunction(f)
BY DEF A!SumFunction, SumFunction, A!SumFunctionOnSet, SumFunctionOnSet,
   A!FoldFunctionOnSet, FoldFunctionOnSet, A!MapThenFoldSet, MapThenFoldSet

\* Shares of a security are those of its trades.
LEMMA SharesSame ==
    ASSUME NEW s,
           \A t \in Txn :
                /\ t \in A!Booked /\ booked[t].security = s
                    <=> (booked'[t] # None /\ booked'[t].live /\ booked'[t].security = s)
                /\ t \in A!Booked /\ booked[t].security = s => booked'[t].shares = booked[t].shares
    PROVE  A!Shares(s)' = A!Shares(s)
<1> DEFINE S == {t \in A!Booked : booked[t].security = s}
           S2 == {t \in {t \in Txn : booked'[t] # None /\ booked'[t].live} : booked'[t].security = s}
<1>1. S = S2
  BY DEF A!Booked
<1>2. \A t \in S : booked'[t].shares = booked[t].shares
  BY DEF A!Booked
<1>3. [t \in S |-> booked[t].shares] = [t \in S2 |-> booked'[t].shares]
  <2> HIDE DEF S, S2
  <2> QED
    BY <1>1, <1>2
<1>4. A!Shares(s) = SumFunction([t \in S |-> booked[t].shares])
  BY SameSum DEF A!Shares
<1>5. A!Shares(s)' = SumFunction([t \in S2 |-> booked'[t].shares])
  BY SameSum DEF A!Shares, A!Booked
<1> QED
  BY <1>3, <1>4, <1>5

LEMMA SharesOfNone ==
    ASSUME NEW s, \A t \in Txn : booked[t] = None
    PROVE  A!Shares(s) = 0
<1>1. {t \in A!Booked : booked[t].security = s} = {}
  BY DEF A!Booked
<1>2. [t \in {} |-> booked[t].shares] \in [{} -> Int]
  OBVIOUS
<1> QED
  BY <1>1, <1>2, SameSum, SumOfNone DEF A!Shares

\* One request, and the others as they were.
LEMMA RequestsFollow ==
    ASSUME AccountsInv, NEW w \in Worker, NEW j, RequestIsKnown(j), job' = [job EXCEPT ![w] = j]
    PROVE  RequestsAreKnown' /\ DOMAIN job' = Worker
<1>1. DOMAIN job = Worker
  BY AccountsShapes
<1>2. job'[w] = j /\ (\A v \in Worker \ {w} : job'[v] = job[v]) /\ DOMAIN job' = Worker
  BY <1>1
<1> QED
  BY <1>2 DEF AccountsInv, RequestsAreKnown, RequestIsKnown

LEMMA IdleIsKnown == RequestIsKnown(A!Idle)
BY DEF RequestIsKnown, A!Idle

TablesKept == UNCHANGED <<row, booked, quoted, feed, restored, crossed>>

\* A request that only reads disturbs nothing.
LEMMA AskingStep ==
    ASSUME AccountsInv, TablesKept, RequestsAreKnown', DOMAIN job' = Worker, asked' \in 0..MaxRequests
    PROVE  AccountsInv'
<1>1. /\ row' = row /\ booked' = booked /\ quoted' = quoted /\ feed' = feed
      /\ restored' = restored /\ crossed' = crossed
  BY DEF TablesKept
<1>2. A!TypeOK'
  BY <1>1 DEF AccountsInv, A!TypeOK
<1>3. \A id : A!IsLive(id)' <=> A!IsLive(id)
  BY <1>1 DEF A!IsLive
<1>4. GroupsAreInUse' /\ LimitsAreInUse' /\ PairsAreInUse' /\ QuotesAreOfRows'
      /\ A!EveryChangeIsReported'
  <2>1. GroupsAreInUse'
    BY <1>1 DEF AccountsInv, GroupsAreInUse, A!IsLive
  <2>2. LimitsAreInUse'
    BY <1>1 DEF AccountsInv, LimitsAreInUse, A!IsLive
  <2>3. PairsAreInUse'
    BY <1>1 DEF AccountsInv, PairsAreInUse, A!IsLive
  <2> QED
    BY <1>1, <2>1, <2>2, <2>3 DEF AccountsInv, QuotesAreOfRows, A!EveryChangeIsReported
<1>5. BookingsAreInUse'
  BY <1>1 DEF AccountsInv, BookingsAreInUse, A!Booked, A!IsLive
<1>6. \A s : A!Shares(s)' = A!Shares(s)
  BY <1>1, SharesSame DEF A!Booked
<1>7. SharesAreInUse'
  BY <1>1, <1>3, <1>6 DEF AccountsInv, SharesAreInUse
<1>8. A!ValuesAreInOneCurrency'
  BY <1>1 DEF AccountsInv, A!ValuesAreInOneCurrency, A!Holders
<1> QED
  BY <1>2, <1>4, <1>5, <1>7, <1>8 DEF AccountsInv

\* The checks of the requests that refer to an account, a security or both.
LEMMA Beginning ==
    ASSUME AccountsInv, NEW w \in Worker, A!Start(w), NEW j, RequestIsKnown(j),
           job' = [job EXCEPT ![w] = j], UNCHANGED A!tables
    PROVE  AccountsInv'
<1>1. asked' \in 0..MaxRequests
  BY AccountsShapes, Registry DEF A!Start
<1>2. TablesKept
  BY DEF A!tables, TablesKept
<1> QED
  BY <1>1, <1>2, RequestsFollow, AskingStep

LEMMA RegisterStep ==
    ASSUME AccountsInv, NEW w \in Worker, A!Register(w)
    PROVE  AccountsInv'
<1>1. ASSUME NEW id \in Group \cup Limit \cup Security, A!BeginCreate(w, id) PROVE AccountsInv'
  <2> DEFINE j == [op |-> "create", id |-> id, set |-> <<>>, opening |-> None]
  <2>1. A!Start(w) /\ job' = [job EXCEPT ![w] = j] /\ UNCHANGED A!tables
    BY <1>1 DEF A!BeginCreate, A!Set
  <2>2. RequestIsKnown(j)
    BY Columns DEF RequestIsKnown, A!Id
  <2> HIDE DEF j
  <2> QED
    BY <2>1, <2>2, Beginning
<1>2. ASSUME NEW i \in Inv, A!BeginCreateInvestment(w, i) PROVE AccountsInv'
  <2> DEFINE j == [op |-> "create", id |-> i, set |-> <<>>, opening |-> None]
  <2>1. A!Start(w) /\ job' = [job EXCEPT ![w] = j] /\ UNCHANGED A!tables
    BY <1>2 DEF A!BeginCreateInvestment, A!Set
  <2>2. RequestIsKnown(j)
    BY Columns DEF RequestIsKnown, A!Id
  <2> HIDE DEF j
  <2> QED
    BY <2>1, <2>2, Beginning
<1>3. ASSUME NEW a \in Account, NEW cols, WithColumns(cols, a), NEW opening \in Txn \cup {None},
             A!BeginCreateAccount(w, a, cols, opening)
      PROVE  AccountsInv'
  <2> DEFINE j == [op |-> "create", id |-> a, set |-> cols, opening |-> opening]
  <2>1. A!Start(w) /\ job' = [job EXCEPT ![w] = j] /\ UNCHANGED A!tables
    BY <1>3 DEF A!BeginCreateAccount, A!Set
  <2>2. RequestIsKnown(j)
    BY <1>3 DEF RequestIsKnown, A!Id
  <2> HIDE DEF j
  <2> QED
    BY <2>1, <2>2, Beginning
<1>4. ASSUME NEW c \in Card, NEW l \in Limit, NEW p \in Account,
             A!BeginCreateAccount(w, c, [limit |-> l, autopay |-> p], None)
      PROVE  AccountsInv'
  <2>1. WithColumns([limit |-> l, autopay |-> p], c) /\ c \in Account
    BY Columns, Registry
  <2> QED
    BY <1>3, <1>4, <2>1
<1>5. ASSUME NEW a \in Account, NEW opening \in Txn \cup {None}, NEW g \in Group \cup {None},
             A!BeginCreateAccount(w, a, [group |-> g], opening)
      PROVE  AccountsInv'
  <2>1. WithColumns([group |-> g], a)
    BY Columns
  <2> QED
    BY <1>3, <1>5, <2>1
<1> QED
  BY <1>1, <1>2, <1>4, <1>5 DEF A!Register

LEMMA BeginUpdateRow ==
    ASSUME AccountsInv, NEW w \in Worker, NEW id \in A!Id, NEW cols, WithColumns(cols, id),
           A!BeginUpdate(w, id, cols)
    PROVE  AccountsInv'
<1> DEFINE set == IF "group" \in DOMAIN cols \/ id \notin Account THEN cols
                  ELSE [c \in {"group"} \cup DOMAIN cols |->
                            IF c = "group" THEN row[id].group ELSE cols[c]]
           j == [op |-> "update", id |-> id, seen |-> row[id], set |-> set]
<1>1. A!Start(w) /\ job' = [job EXCEPT ![w] = j] /\ UNCHANGED A!tables /\ A!IsLive(id)
  BY DEF A!BeginUpdate, A!Set, A!Updatable
<1>2. row[id] \in A!Row
  BY <1>1, AccountsShapes DEF A!IsLive
<1>3. WithColumns(set, id)
  <2>1. CASE "group" \in DOMAIN cols \/ id \notin Account
    BY <2>1
  <2>2. CASE ~("group" \in DOMAIN cols \/ id \notin Account)
    <3>1. /\ DOMAIN set = {"group"} \cup DOMAIN cols
          /\ set["group"] = row[id].group
          /\ \A c \in DOMAIN cols : c # "group" => set[c] = cols[c]
      BY <2>2
    <3>2. row[id].group \in Group \cup {None}
      BY <1>2, RowColumns
    <3> HIDE DEF set
    <3> QED
      BY <2>2, <3>1, <3>2 DEF WithColumns
  <2> QED
    BY <2>1, <2>2
<1> HIDE DEF set
<1>4. RequestIsKnown(j)
  BY <1>2, <1>3 DEF RequestIsKnown
<1> HIDE DEF j
<1> QED
  BY <1>1, <1>4, Beginning

LEMMA ChangeStep ==
    ASSUME AccountsInv, NEW w \in Worker, A!Change(w)
    PROVE  AccountsInv'
<1>1. ASSUME NEW id \in A!Id, A!BeginUpdate(w, id, <<>>) PROVE AccountsInv'
  BY <1>1, Columns, BeginUpdateRow
<1>2. ASSUME NEW a \in Account, NEW g \in Group \cup {None}, A!BeginUpdate(w, a, [group |-> g])
      PROVE  AccountsInv'
  <2>1. WithColumns([group |-> g], a) /\ a \in A!Id
    BY Columns DEF A!Id
  <2> QED
    BY <1>2, <2>1, BeginUpdateRow
<1>3. ASSUME NEW c \in Card, NEW l \in Limit \cup {None}, A!BeginUpdate(w, c, [limit |-> l])
      PROVE  AccountsInv'
  <2>1. WithColumns([limit |-> l], c) /\ c \in A!Id
    BY Columns, Registry DEF A!Id
  <2> QED
    BY <1>3, <2>1, BeginUpdateRow
<1>4. ASSUME NEW s \in Security, NEW c \in Currency, A!BeginChangeCurrency(w, s, c)
      PROVE  AccountsInv'
  <2> DEFINE j == [op |-> "recur", id |-> s, seen |-> row[s], set |-> [currency |-> c]]
  <2>1. A!Start(w) /\ job' = [job EXCEPT ![w] = j] /\ UNCHANGED A!tables /\ A!IsLive(s)
    BY <1>4 DEF A!BeginChangeCurrency, A!Set, A!Recurrable
  <2>2. row[s] \in A!Row
    BY <2>1, AccountsShapes DEF A!IsLive, A!Id
  <2>3. RequestIsKnown(j)
    BY <2>2 DEF RequestIsKnown
  <2> HIDE DEF j
  <2> QED
    BY <2>1, <2>3, Beginning
<1>5. ASSUME NEW id \in A!Id, A!BeginDelete(w, id) PROVE AccountsInv'
  <2> DEFINE j == [op |-> "delete", id |-> id, seen |-> row[id]]
  <2>1. A!Start(w) /\ job' = [job EXCEPT ![w] = j] /\ UNCHANGED A!tables /\ A!IsLive(id)
    BY <1>5 DEF A!BeginDelete, A!Set, A!Deletable
  <2>2. row[id] \in A!Row
    BY <2>1, AccountsShapes DEF A!IsLive
  <2>3. RequestIsKnown(j)
    BY <2>2 DEF RequestIsKnown
  <2> HIDE DEF j
  <2> QED
    BY <2>1, <2>3, Beginning
<1> QED
  BY <1>1, <1>2, <1>3, <1>4, <1>5 DEF A!Change

LEMMA UseStep ==
    ASSUME AccountsInv, NEW w \in Worker, A!Use(w)
    PROVE  AccountsInv'
<1>1. ASSUME NEW t \in Txn, NEW line \in Entries, A!BeginBook(w, t, line) PROVE AccountsInv'
  <2> DEFINE j == [op |-> "book", txn |-> t, accounts |-> line, inv |-> None, security |-> None,
                   shares |-> 0]
  <2>1. A!Start(w) /\ job' = [job EXCEPT ![w] = j] /\ UNCHANGED A!tables
    BY <1>1 DEF A!BeginBook, A!Set
  <2>2. line \subseteq Account
    BY BookAssumption DEF A!AccountsAssumption
  <2>3. RequestIsKnown(j)
    BY <2>2 DEF RequestIsKnown
  <2> HIDE DEF j
  <2> QED
    BY <2>1, <2>3, Beginning
<1>2. ASSUME NEW t \in Txn, NEW i \in Inv, NEW s \in Security, NEW n \in {-1, 1},
             A!BeginTrade(w, t, i, s, n)
      PROVE  AccountsInv'
  <2> DEFINE j == [op |-> "book", txn |-> t, accounts |-> A!Pair(i), inv |-> i, security |-> s,
                   shares |-> n]
  <2>1. A!Start(w) /\ job' = [job EXCEPT ![w] = j] /\ UNCHANGED A!tables
    BY <1>2 DEF A!BeginTrade, A!Set
  <2>2. A!Pair(i) \subseteq Account /\ i # None /\ s # None
    BY Registry DEF A!Id
  <2>3. RequestIsKnown(j)
    <3> HIDE DEF A!Pair
    <3> QED
      BY <2>2 DEF RequestIsKnown
  <2> HIDE DEF j
  <2> QED
    BY <2>1, <2>3, Beginning
<1>3. ASSUME NEW s \in Security, A!BeginQuote(w, s) PROVE AccountsInv'
  <2> DEFINE j == [op |-> "quote", id |-> s, currency |-> row[s].currency]
  <2>1. A!Start(w) /\ job' = [job EXCEPT ![w] = j] /\ UNCHANGED A!tables /\ A!IsLive(s)
    BY <1>3 DEF A!BeginQuote, A!Set
  <2>2. row[s] \in A!Row /\ row[s].currency \in Currency
    BY <2>1, AccountsShapes, RowColumns DEF A!IsLive, A!Id
  <2>3. RequestIsKnown(j)
    BY <2>2 DEF RequestIsKnown
  <2> HIDE DEF j
  <2> QED
    BY <2>1, <2>3, Beginning
<1> QED
  BY <1>1, <1>2, <1>3 DEF A!Use

LEMMA FailedRequest ==
    ASSUME AccountsInv, NEW w \in Worker, A!Fail(w)
    PROVE  AccountsInv'
<1>1. job' = [job EXCEPT ![w] = A!Idle] /\ TablesKept /\ asked' = asked
  BY DEF A!Fail, A!Set, A!tables, TablesKept
<1>2. asked' \in 0..MaxRequests
  BY <1>1, AccountsShapes
<1> QED
  BY <1>1, <1>2, IdleIsKnown, RequestsFollow, AskingStep

\* What is recorded when the check of a request no longer holds.
LEMMA CrossedByCheck ==
    ASSUME NEW j
    PROVE  /\ j.op = "create" => A!Creatable(j.id, j.set) \/ A!Crossing(j) = {j.id}
           /\ j.op = "update" => A!Updatable(j.id, j.set) \/ A!Crossing(j) = {j.id}
           /\ j.op = "recur" => A!Recurrable(j.id, j.set.currency) \/ A!Crossing(j) = {j.id}
           /\ j.op = "delete" => A!Deletable(j.id) \/ A!Crossing(j) = {j.id}
           /\ j.op = "quote" =>
                (A!IsLive(j.id) /\ row[j.id].currency = j.currency) \/ A!Crossing(j) = {j.id}
           /\ j.op = "book" /\ j.inv = None =>
                A!Postable(j.accounts) \/ A!Crossing(j) = j.accounts
           /\ j.op = "book" /\ j.inv # None =>
                \/ A!Tradable(j.inv, j.security, j.shares)
                \/ A!Crossing(j) = j.accounts \cup {j.inv, j.security}
BY DEF A!Crossing, A!Holds, A!Involved

\* What it concerns is registered.
LEMMA CrossingIsKnown ==
    ASSUME NEW j, RequestIsKnown(j), j.op # "idle"
    PROVE  A!Crossing(j) \subseteq A!Id
<1>1. CASE j.op = "book"
  <2>1. j.accounts \subseteq A!Id
    BY <1>1 DEF RequestIsKnown, A!Id
  <2>2. j.inv # None => j.inv \in A!Id /\ j.security \in A!Id
    BY <1>1 DEF RequestIsKnown, A!Id
  <2> QED
    BY <1>1, <2>1, <2>2 DEF A!Crossing, A!Involved
<1>2. CASE j.op # "book"
  <2>1. j.id \in A!Id
    BY <1>2 DEF RequestIsKnown, A!Id
  <2> QED
    BY <1>2, <2>1 DEF A!Crossing, A!Involved
<1> QED
  BY <1>1, <1>2

LEMMA RowsInUse ==
    ASSUME AccountsInv, row' = row, feed' = feed, restored' = restored, crossed \subseteq crossed'
    PROVE  /\ GroupsAreInUse' /\ LimitsAreInUse' /\ PairsAreInUse' /\ A!EveryChangeIsReported'
<1>1. GroupsAreInUse'
  BY DEF AccountsInv, GroupsAreInUse, A!IsLive
<1>2. LimitsAreInUse'
  BY DEF AccountsInv, LimitsAreInUse, A!IsLive
<1>3. PairsAreInUse'
  BY DEF AccountsInv, PairsAreInUse, A!IsLive
<1>4. A!EveryChangeIsReported'
  BY DEF AccountsInv, A!EveryChangeIsReported
<1> QED
  BY <1>1, <1>2, <1>3, <1>4

LEMMA Held ==
    ASSUME NEW s
    PROVE  /\ A!Holders(s) # {} <=> \E t \in Txn : booked[t] # None /\ booked[t].security = s
           /\ A!Holders(s)' # {} <=> \E t \in Txn : booked'[t] # None /\ booked'[t].security = s
BY DEF A!Holders

LEMMA CommitBookStep ==
    ASSUME AccountsInv, NEW w \in Worker, A!CommitBook(w)
    PROVE  AccountsInv'
<1> DEFINE j == job[w]
           b == [live |-> TRUE, accounts |-> j.accounts, inv |-> j.inv, security |-> j.security,
                 shares |-> j.shares]
           x == j.txn
<1>1. /\ j.op = "book" /\ booked[x] = None
      /\ booked' = [booked EXCEPT ![x] = b] /\ crossed' = crossed \cup A!Crossing(j)
      /\ job' = [job EXCEPT ![w] = A!Idle]
      /\ row' = row /\ quoted' = quoted /\ feed' = feed /\ restored' = restored /\ asked' = asked
      /\ A!Present(j.accounts \cup {j.security})
  BY DEF A!CommitBook, A!Set
<1>2. RequestIsKnown(j)
  BY DEF AccountsInv, RequestsAreKnown
<1>3. /\ x \in Txn /\ j.accounts \subseteq Account
      /\ j.inv \in Inv \cup {None} /\ j.security \in Security \cup {None}
      /\ j.inv # None => j.accounts = A!Pair(j.inv) /\ j.security # None
      /\ j.inv = None => j.security = None
      /\ j.shares \in {-1, 0, 1}
  BY <1>1, <1>2 DEF RequestIsKnown
<1>4. /\ b \in A!Booking /\ b # None /\ b.live /\ b.accounts = j.accounts /\ b.inv = j.inv
      /\ b.security = j.security
  <2>1. b \in A!Booking
    <3> HIDE DEF j
    <3> QED
      BY <1>3 DEF A!Booking
  <2> QED
    BY <2>1, Registry
<1>5. crossed \subseteq crossed' /\ crossed' \subseteq A!Id
  BY <1>1, <1>2, CrossingIsKnown, AccountsShapes
<1> HIDE DEF b, j
<1>6. /\ booked'[x] = b /\ \A t \in Txn \ {x} : booked'[t] = booked[t]
      /\ booked' \in [Txn -> A!Booking \cup {None}]
  BY <1>1, <1>3, <1>4, AccountsShapes
<1>7. /\ \A a \in j.accounts : A!IsLive(a) \/ a \in crossed'
      /\ j.inv # None => /\ A!IsLive(j.inv) \/ j.inv \in crossed'
                         /\ \/ A!IsLive(j.security) /\ row[j.security].currency = Home
                            \/ j.security \in crossed'
  <2>1. CASE j.inv = None
    <3>1. A!Postable(j.accounts) \/ A!Crossing(j) = j.accounts
      BY <1>1, <2>1, CrossedByCheck
    <3> QED
      BY <1>1, <2>1, <3>1 DEF A!Postable
  <2>2. CASE j.inv # None
    <3>1. \/ A!Tradable(j.inv, j.security, j.shares)
          \/ A!Crossing(j) = j.accounts \cup {j.inv, j.security}
      BY <1>1, <2>2, CrossedByCheck
    <3> QED
      BY <1>1, <1>3, <2>2, <3>1 DEF A!Tradable
  <2> QED
    BY <2>1, <2>2
<1>8. A!TypeOK'
  <2>1. DOMAIN job' = Worker
    BY <1>1, IdleIsKnown, RequestsFollow
  <2>2. \A t \in Txn : booked'[t] # None =>
            \A id \in (booked'[t].accounts \cup {booked'[t].security}) \ {None} : row[id] # None
    <3>1. \A id \in (j.accounts \cup {j.security}) \ {None} : row[id] # None
      BY <1>1 DEF A!Present
    <3> QED
      BY <1>4, <1>6, <3>1, AccountsShapes
  <2> QED
    BY <1>1, <1>5, <1>6, <2>1, <2>2 DEF AccountsInv, A!TypeOK
<1>9. RequestsAreKnown'
  BY <1>1, IdleIsKnown, RequestsFollow
<1>10. GroupsAreInUse' /\ LimitsAreInUse' /\ PairsAreInUse' /\ A!EveryChangeIsReported'
  BY <1>1, <1>5, RowsInUse
<1>11. BookingsAreInUse'
  <2>1. \A t \in Txn : booked'[t] # None =>
            /\ booked'[t].inv # None => booked'[t].accounts = A!Pair(booked'[t].inv) /\ booked'[t].security # None
            /\ booked'[t].inv = None => booked'[t].security = None
    BY <1>3, <1>4, <1>6 DEF AccountsInv, BookingsAreInUse
  <2>2. ASSUME NEW t \in Txn, booked'[t] # None, booked'[t].live
        PROVE  /\ \A a \in booked'[t].accounts : A!IsLive(a) \/ a \in crossed'
               /\ booked'[t].inv # None => A!IsLive(booked'[t].inv) \/ booked'[t].inv \in crossed'
    <3>1. CASE t = x
      BY <1>4, <1>6, <1>7, <3>1
    <3>2. CASE t # x
      BY <1>5, <1>6, <2>2, <3>2 DEF AccountsInv, BookingsAreInUse, A!Booked
    <3> QED
      BY <3>1, <3>2
  <2> QED
    BY <1>1, <2>1, <2>2 DEF BookingsAreInUse, A!Booked, A!IsLive
<1>12. SharesAreInUse'
  <2>1. SUFFICES ASSUME NEW s \in Security, A!Shares(s)' > 0 PROVE A!IsLive(s) \/ s \in crossed'
    BY <1>1 DEF SharesAreInUse, A!IsLive
  <2>2. s # None
    BY Registry DEF A!Id
  <2>3. CASE s = j.security
    BY <1>3, <1>7, <2>2, <2>3
  <2>4. CASE s # j.security
    <3>1. A!Shares(s)' = A!Shares(s)
      BY <1>1, <1>4, <1>6, <2>4, SharesSame DEF A!Booked
    <3> QED
      BY <1>5, <2>1, <3>1 DEF AccountsInv, SharesAreInUse
  <2> QED
    BY <2>3, <2>4
<1>13. QuotesAreOfRows'
  BY <1>1 DEF AccountsInv, QuotesAreOfRows
<1>14. A!ValuesAreInOneCurrency'
  <2>1. SUFFICES ASSUME NEW s \in Security, s \notin crossed'
                 PROVE  /\ quoted[s] # None => quoted[s] = row[s].currency
                        /\ A!Holders(s)' # {} => row[s].currency = Home
    BY <1>1 DEF A!ValuesAreInOneCurrency
  <2>2. s # None /\ s \notin crossed
    BY <1>5, <2>1, Registry DEF A!Id
  <2>3. /\ quoted[s] # None => quoted[s] = row[s].currency
        /\ A!Holders(s) # {} => row[s].currency = Home
    BY <2>2 DEF AccountsInv, A!ValuesAreInOneCurrency
  <2>4. ASSUME A!Holders(s)' # {} PROVE row[s].currency = Home
    <3>1. PICK t \in Txn : booked'[t] # None /\ booked'[t].security = s
      BY <2>4, Held
    <3>2. CASE t = x
      BY <1>3, <1>4, <1>6, <1>7, <2>1, <2>2, <3>1, <3>2
    <3>3. CASE t # x
      BY <1>6, <2>3, <3>1, <3>3, Held
    <3> QED
      BY <3>2, <3>3
  <2> QED
    BY <2>3, <2>4
<1> QED
  BY <1>8, <1>9, <1>10, <1>11, <1>12, <1>13, <1>14 DEF AccountsInv

LEMMA CommitQuoteStep ==
    ASSUME AccountsInv, NEW w \in Worker, A!CommitQuote(w)
    PROVE  AccountsInv'
<1> DEFINE j == job[w]
           x == j.id
<1>1. /\ j.op = "quote"
      /\ quoted' = [quoted EXCEPT ![x] = j.currency] /\ crossed' = crossed \cup A!Crossing(j)
      /\ job' = [job EXCEPT ![w] = A!Idle]
      /\ row' = row /\ booked' = booked /\ feed' = feed /\ restored' = restored /\ asked' = asked
      /\ A!Present({x})
  BY DEF A!CommitQuote, A!Set
<1>2. RequestIsKnown(j)
  BY DEF AccountsInv, RequestsAreKnown
<1>3. x \in Security /\ j.currency \in Currency /\ x # None /\ j.currency # None
  BY <1>1, <1>2, Registry DEF RequestIsKnown, A!Id
<1>4. crossed \subseteq crossed' /\ crossed' \subseteq A!Id
  BY <1>1, <1>2, CrossingIsKnown, AccountsShapes
<1> HIDE DEF j
<1>5. /\ quoted'[x] = j.currency /\ \A s \in Security \ {x} : quoted'[s] = quoted[s]
      /\ quoted' \in [Security -> Currency \cup {None}]
  BY <1>1, <1>3, AccountsShapes
<1>6. row[x].currency = j.currency \/ x \in crossed'
  BY <1>1, CrossedByCheck
<1>7. RequestsAreKnown' /\ DOMAIN job' = Worker
  BY <1>1, IdleIsKnown, RequestsFollow
<1>8. A!TypeOK'
  BY <1>1, <1>4, <1>5, <1>7 DEF AccountsInv, A!TypeOK
<1>9. GroupsAreInUse' /\ LimitsAreInUse' /\ PairsAreInUse' /\ A!EveryChangeIsReported'
  BY <1>1, <1>4, RowsInUse
<1>10. BookingsAreInUse'
  BY <1>1, <1>4 DEF AccountsInv, BookingsAreInUse, A!Booked, A!IsLive
<1>11. SharesAreInUse'
  <2>1. \A s : A!Shares(s)' = A!Shares(s)
    BY <1>1, SharesSame DEF A!Booked
  <2> QED
    BY <1>1, <1>4, <2>1 DEF AccountsInv, SharesAreInUse, A!IsLive
<1>12. QuotesAreOfRows'
  <2>1. row[x] # None
    BY <1>1, <1>3 DEF A!Present
  <2> QED
    BY <1>1, <1>5, <2>1 DEF AccountsInv, QuotesAreOfRows
<1>13. A!ValuesAreInOneCurrency'
  BY <1>1, <1>4, <1>5, <1>6 DEF AccountsInv, A!ValuesAreInOneCurrency, A!Holders
<1> QED
  BY <1>7, <1>8, <1>9, <1>10, <1>11, <1>12, <1>13 DEF AccountsInv

LEMMA UnbookStep ==
    ASSUME AccountsInv, NEW x \in Txn, A!Unbook(x)
    PROVE  AccountsInv'
<1> DEFINE s0 == booked[x].security
<1>1. /\ x \in A!Booked /\ booked' = [booked EXCEPT ![x].live = FALSE]
      /\ crossed' = crossed \cup (IF s0 # None /\ ~A!IsLive(s0) THEN {s0} ELSE {})
      /\ row' = row /\ quoted' = quoted /\ feed' = feed /\ restored' = restored
      /\ job' = job /\ asked' = asked
  BY DEF A!Unbook
<1>2. booked[x] \in A!Booking /\ s0 \in Security \cup {None}
  BY <1>1, AccountsShapes DEF A!Booked, A!Booking
<1> DEFINE b == [booked[x] EXCEPT !.live = FALSE]
<1>3. /\ b \in A!Booking /\ ~b.live /\ b.accounts = booked[x].accounts /\ b.inv = booked[x].inv
      /\ b.security = s0 /\ b # None
  <2>1. /\ b \in A!Booking /\ ~b.live /\ b.accounts = booked[x].accounts /\ b.inv = booked[x].inv
        /\ b.security = s0
    BY <1>2 DEF A!Booking
  <2> QED
    BY <2>1, Registry
<1>4. booked' = [booked EXCEPT ![x] = b]
  BY <1>1
<1> HIDE DEF b
<1>5. /\ booked'[x] = b /\ (\A t \in Txn \ {x} : booked'[t] = booked[t])
      /\ booked' \in [Txn -> A!Booking \cup {None}]
  BY <1>3, <1>4, AccountsShapes
<1>6. crossed \subseteq crossed' /\ crossed' \subseteq A!Id
  BY <1>1, <1>2, AccountsShapes DEF A!Id
<1>7. RequestsAreKnown'
  BY <1>1 DEF AccountsInv, RequestsAreKnown
<1>8. A!TypeOK'
  <2>1. \A t \in Txn : booked'[t] # None =>
            \A id \in (booked'[t].accounts \cup {booked'[t].security}) \ {None} : row[id] # None
    BY <1>1, <1>3, <1>5, AccountsShapes DEF A!Booked
  <2> QED
    BY <1>1, <1>5, <1>6, <2>1 DEF AccountsInv, A!TypeOK
<1>9. GroupsAreInUse' /\ LimitsAreInUse' /\ PairsAreInUse' /\ A!EveryChangeIsReported'
  BY <1>1, <1>6, RowsInUse, SMTT(60)
<1>10. BookingsAreInUse'
  <2>1. \A t \in Txn : booked'[t] # None =>
            /\ booked'[t].inv # None => booked'[t].accounts = A!Pair(booked'[t].inv) /\ booked'[t].security # None
            /\ booked'[t].inv = None => booked'[t].security = None
    BY <1>1, <1>3, <1>5 DEF AccountsInv, BookingsAreInUse, A!Booked
  <2>2. ASSUME NEW t \in Txn, booked'[t] # None, booked'[t].live
        PROVE  /\ \A a \in booked'[t].accounts : A!IsLive(a) \/ a \in crossed'
               /\ booked'[t].inv # None => A!IsLive(booked'[t].inv) \/ booked'[t].inv \in crossed'
    <3>1. t # x
      BY <1>3, <1>5, <2>2
    <3> QED
      BY <1>5, <1>6, <2>2, <3>1 DEF AccountsInv, BookingsAreInUse, A!Booked
  <2> QED
    BY <1>1, <2>1, <2>2 DEF BookingsAreInUse, A!Booked, A!IsLive
<1>11. SharesAreInUse'
  <2>1. SUFFICES ASSUME NEW s \in Security, A!Shares(s)' > 0, ~A!IsLive(s) PROVE s \in crossed'
    BY <1>1 DEF SharesAreInUse, A!IsLive
  <2>2. CASE s = s0
    <3>1. s # None
      BY Registry DEF A!Id
    <3> QED
      BY <1>1, <2>1, <2>2, <3>1
  <2>3. CASE s # s0
    <3>1. A!Shares(s)' = A!Shares(s)
      BY <1>3, <1>5, <2>3, SharesSame DEF A!Booked
    <3> QED
      BY <1>6, <2>1, <3>1 DEF AccountsInv, SharesAreInUse
  <2> QED
    BY <2>2, <2>3
<1>12. QuotesAreOfRows'
  BY <1>1 DEF AccountsInv, QuotesAreOfRows
<1>13. A!ValuesAreInOneCurrency'
  <2>1. ASSUME NEW s, A!Holders(s)' # {} PROVE A!Holders(s) # {}
    <3>1. PICK t \in Txn : booked'[t] # None /\ booked'[t].security = s
      BY <2>1, Held
    <3>2. booked[t] # None /\ booked[t].security = s
      BY <1>1, <1>3, <1>5, <3>1 DEF A!Booked
    <3> QED
      BY <3>2, Held
  <2> QED
    BY <1>1, <1>6, <2>1 DEF AccountsInv, A!ValuesAreInOneCurrency
<1> QED
  BY <1>7, <1>8, <1>9, <1>10, <1>11, <1>12, <1>13 DEF AccountsInv

-------------------------------------------------------------------------------
(* Requests that change rows.                                              *)

\* What a booking in use needs.
Used(id) ==
    \/ \E t \in A!Booked : id \in booked[t].accounts \/ booked[t].inv = id
    \/ id \in Security /\ A!Shares(id) > 0

\* The bookings and quotes stay as they were, and what they are about does.
LEMMA BookingsKept ==
    ASSUME AccountsInv, booked' = booked, quoted' = quoted, crossed \subseteq crossed',
           \A id \in A!Id : row[id] # None => row'[id] # None,
           \A id \in A!Id : A!IsLive(id) /\ Used(id) => A!IsLive(id)' \/ id \in crossed',
           \A s \in Security \ crossed' : row[s] # None =>
                \/ row'[s].currency = row[s].currency
                \/ quoted[s] = None /\ (row'[s].currency # Home => A!Holders(s) = {})
    PROVE  /\ BookingsAreInUse' /\ SharesAreInUse' /\ QuotesAreOfRows' /\ A!ValuesAreInOneCurrency'
           /\ \A t \in Txn : booked'[t] # None =>
                \A id \in (booked'[t].accounts \cup {booked'[t].security}) \ {None} : row'[id] # None
<1>1. \A t \in Txn : booked[t] # None =>
        /\ booked[t].accounts \subseteq A!Id /\ booked[t].inv \in A!Id \cup {None}
        /\ booked[t].security \in Security \cup {None}
  BY AccountsShapes DEF A!Booking, A!Id
<1>2. \A s \in Security : s \in A!Id /\ s # None
  BY Registry DEF A!Id
<1>3. BookingsAreInUse'
  <2>1. \A t \in Txn : booked'[t] # None =>
            /\ booked'[t].inv # None => booked'[t].accounts = A!Pair(booked'[t].inv) /\ booked'[t].security # None
            /\ booked'[t].inv = None => booked'[t].security = None
    BY DEF AccountsInv, BookingsAreInUse
  <2>2. ASSUME NEW t \in A!Booked, NEW id \in A!Id, id \in booked[t].accounts \/ booked[t].inv = id
        PROVE  A!IsLive(id)' \/ id \in crossed'
    <3>1. Used(id)
      BY <2>2 DEF Used
    <3>2. A!IsLive(id) \/ id \in crossed
      <4>1. id # None
        BY Registry
      <4> QED
        BY <2>2, <4>1 DEF AccountsInv, BookingsAreInUse
    <3> QED
      BY <3>1, <3>2
  <2>3. A!Booked' = A!Booked
    BY DEF A!Booked
  <2>4. \A t \in A!Booked :
            /\ \A a \in booked[t].accounts : A!IsLive(a)' \/ a \in crossed'
            /\ booked[t].inv # None => A!IsLive(booked[t].inv)' \/ booked[t].inv \in crossed'
    BY <1>1, <2>2 DEF A!Booked
  <2> QED
    BY <2>1, <2>3, <2>4 DEF BookingsAreInUse, A!IsLive
<1>4. SharesAreInUse'
  <2>1. \A s : A!Shares(s)' = A!Shares(s)
    BY SharesSame DEF A!Booked
  <2>2. ASSUME NEW s \in Security, A!Shares(s) > 0 PROVE A!IsLive(s)' \/ s \in crossed'
    BY <1>2, <2>2 DEF AccountsInv, SharesAreInUse, Used
  <2> QED
    BY <2>1, <2>2 DEF SharesAreInUse
<1>5. QuotesAreOfRows'
  BY <1>2 DEF AccountsInv, QuotesAreOfRows
<1>6. A!ValuesAreInOneCurrency'
  <2>1. SUFFICES ASSUME NEW s \in Security, s \notin crossed'
                 PROVE  /\ quoted[s] # None => quoted[s] = row'[s].currency
                        /\ A!Holders(s) # {} => row'[s].currency = Home
    BY DEF A!ValuesAreInOneCurrency, A!Holders
  <2>2. /\ quoted[s] # None => quoted[s] = row[s].currency
        /\ A!Holders(s) # {} => row[s].currency = Home
    BY <2>1 DEF AccountsInv, A!ValuesAreInOneCurrency
  <2>3. (quoted[s] # None => row[s] # None) /\ (A!Holders(s) # {} => row[s] # None)
    <3>1. ASSUME A!Holders(s) # {} PROVE row[s] # None
      BY <1>2, <3>1, Held, AccountsShapes
    <3> QED
      BY <3>1 DEF AccountsInv, QuotesAreOfRows
  <2> QED
    BY <2>1, <2>2, <2>3
<1>7. \A t \in Txn : booked'[t] # None =>
        \A id \in (booked'[t].accounts \cup {booked'[t].security}) \ {None} : row'[id] # None
  BY <1>1, <1>2, AccountsShapes
<1> QED
  BY <1>3, <1>4, <1>5, <1>6, <1>7

\* In use after the step.
StaysLive(id) == row'[id] # None /\ row'[id].live

LEMMA UpdateRowStep ==
    ASSUME AccountsInv, NEW w \in Worker, A!CommitUpdate(w)
    PROVE  AccountsInv'
<1> DEFINE j == job[w]
           x == j.id
           version == j.seen.version + 1
           new == [A!Patch(row[x], j.set) EXCEPT !.version = version]
           astray == IF "group" \in DOMAIN j.set /\ j.set.group # None /\ ~A!IsLive(j.set.group)
                     THEN {x} ELSE {}
<1>1. /\ j.op \in {"update", "recur"}
      /\ j.op = "update" => A!Present(A!Targets(j.set))
      /\ row' = [row EXCEPT ![x] = IF @ = None THEN None ELSE new]
      /\ feed' = [feed EXCEPT ![x] = version]
      /\ crossed' = crossed \cup A!Crossing(j) \cup astray
      /\ job' = [job EXCEPT ![w] = A!Idle]
      /\ booked' = booked /\ quoted' = quoted /\ restored' = restored /\ asked' = asked
  BY DEF A!CommitUpdate, A!Set
<1>2. RequestIsKnown(j)
  BY DEF AccountsInv, RequestsAreKnown
<1> HIDE DEF j
<1>3. /\ x \in A!Id /\ version \in Nat
      /\ j.op = "update" => WithColumns(j.set, x)
      /\ j.op = "recur" => x \in Security /\ DOMAIN j.set = {"currency"} /\ j.set["currency"] \in Currency
  BY <1>1, <1>2, RowColumns DEF RequestIsKnown, A!Id
<1>4. crossed \subseteq crossed' /\ crossed' \subseteq A!Id
  BY <1>1, <1>2, <1>3, CrossingIsKnown, AccountsShapes
<1>5. ASSUME row[x] # None
      PROVE  /\ new \in A!Row /\ new.live = row[x].live /\ new.version = version
             /\ j.op = "update" =>
                    /\ new.currency = row[x].currency
                    /\ new.group = Written(j.set, "group", row[x].group)
                    /\ new.limit = Written(j.set, "limit", row[x].limit)
                    /\ new.autopay = Written(j.set, "autopay", row[x].autopay)
             /\ j.op = "recur" =>
                    /\ new.currency = j.set["currency"] /\ new.group = row[x].group
                    /\ new.limit = row[x].limit /\ new.autopay = row[x].autopay
  <2> DEFINE p == A!Patch(row[x], j.set)
  <2>1. row[x] \in A!Row
    BY <1>3, <1>5, AccountsShapes
  <2>2. /\ p \in A!Row /\ p.live = row[x].live
        /\ j.op = "update" =>
                    /\ p.currency = row[x].currency
                    /\ p.group = Written(j.set, "group", row[x].group)
                    /\ p.limit = Written(j.set, "limit", row[x].limit)
                    /\ p.autopay = Written(j.set, "autopay", row[x].autopay)
        /\ j.op = "recur" =>
                    /\ p.currency = j.set["currency"] /\ p.group = row[x].group
                    /\ p.limit = row[x].limit /\ p.autopay = row[x].autopay
    BY <1>1, <1>3, <2>1, PatchedRow, PatchedCurrency, ZenonT(60)
  <2> HIDE DEF p, version
  <2>3. /\ [p EXCEPT !.version = version] \in A!Row
        /\ [p EXCEPT !.version = version].live = p.live
        /\ [p EXCEPT !.version = version].version = version
        /\ [p EXCEPT !.version = version].group = p.group
        /\ [p EXCEPT !.version = version].limit = p.limit
        /\ [p EXCEPT !.version = version].autopay = p.autopay
        /\ [p EXCEPT !.version = version].currency = p.currency
    BY <1>3, <2>2 DEF A!Row
  <2>4. new = [p EXCEPT !.version = version]
    BY DEF p
  <2> HIDE DEF new
  <2> QED
    BY <2>2, <2>3, <2>4
<1> HIDE DEF new, version, astray
<1>6. /\ row[x] # None => row'[x] = new
      /\ row[x] = None => row'[x] = None
      /\ \A y \in A!Id \ {x} : row'[y] = row[y]
      /\ row' \in [A!Id -> A!Row \cup {None}]
      /\ \A y \in A!Id : row'[y] = None <=> row[y] = None
  BY <1>1, <1>3, <1>5, Registry, AccountsShapes
<1>7. /\ feed'[x] = version /\ (\A y \in A!Id \ {x} : feed'[y] = feed[y])
      /\ feed' \in [A!Id -> Nat]
  BY <1>1, <1>3, AccountsShapes
<1>8. \A y \in A!Id : (StaysLive(y) <=> A!IsLive(y)) /\ (A!IsLive(y)' <=> A!IsLive(y))
  BY <1>5, <1>6 DEF A!IsLive, StaysLive
<1>9. \A y \in A!Id : row[y] # None =>
        /\ row[y].group \in Group \cup {None} /\ row[y].limit \in Limit \cup {None}
        /\ row[y].autopay \in Account \cup {None}
  BY AccountsShapes, RowColumns
<1>10. Group \subseteq A!Id /\ Limit \subseteq A!Id /\ Account \subseteq A!Id /\ Security \subseteq A!Id
       /\ Inv \subseteq A!Id
  BY DEF A!Id
<1>11. A!EveryChangeIsReported'
  BY <1>1, <1>5, <1>6, <1>7 DEF AccountsInv, A!EveryChangeIsReported
<1>12. RequestsAreKnown' /\ DOMAIN job' = Worker
  BY <1>1, IdleIsKnown, RequestsFollow
<1>13. GroupsAreInUse'
  <2>1. SUFFICES ASSUME NEW a \in Account, row'[a] # None, row'[a].group # None
                 PROVE  StaysLive(row'[a].group) \/ a \in crossed'
    BY DEF GroupsAreInUse, A!IsLive, StaysLive
  <2>2. ASSUME row'[a].group = row[a].group PROVE StaysLive(row'[a].group) \/ a \in crossed'
    BY <1>4, <1>6, <1>8, <1>9, <1>10, <2>1, <2>2 DEF AccountsInv, GroupsAreInUse
  <2>3. ASSUME a = x, j.op = "update", "group" \in DOMAIN j.set
        PROVE  StaysLive(row'[a].group) \/ a \in crossed'
    <3>1. row'[a].group = j.set.group /\ j.set.group \in Group \cup {None}
      BY <1>3, <1>5, <1>6, <2>1, <2>3 DEF Written, WithColumns
    <3>2. A!IsLive(j.set.group) \/ a \in crossed'
      BY <1>1, <2>1, <2>3, <3>1 DEF astray
    <3> QED
      BY <1>8, <1>10, <2>1, <3>1, <3>2
  <2> QED
    BY <1>1, <1>5, <1>6, <1>10, <2>1, <2>2, <2>3 DEF Written
<1>14. LimitsAreInUse'
  <2>1. ASSUME NEW id \in A!Id, row'[id] # None, row'[id].limit # None
        PROVE  id \in Card
    BY <1>1, <1>3, <1>5, <1>6, <2>1 DEF AccountsInv, LimitsAreInUse, Written, WithColumns
  <2>2. ASSUME NEW a \in Account, A!IsLive(a)', row'[a].limit # None
        PROVE  StaysLive(row'[a].limit) \/ a \in crossed' \/ row'[a].limit \in crossed'
    <3>1. A!IsLive(a) /\ row[a] # None
      BY <1>8, <1>10, <2>2 DEF A!IsLive
    <3>2. ASSUME row'[a].limit = row[a].limit
          PROVE  StaysLive(row'[a].limit) \/ a \in crossed' \/ row'[a].limit \in crossed'
      <4>1. row[a].limit \in A!Id
        BY <1>9, <1>10, <2>2, <3>1, <3>2
      <4> QED
        BY <1>4, <1>8, <2>2, <3>1, <3>2, <4>1 DEF AccountsInv, LimitsAreInUse
    <3>3. ASSUME a = x, j.op = "update", "limit" \in DOMAIN j.set
          PROVE  StaysLive(row'[a].limit) \/ a \in crossed'
      <4>1. row'[a].limit = j.set.limit /\ j.set.limit \in Limit \cup {None}
        BY <1>3, <1>5, <1>6, <3>1, <3>3 DEF Written, WithColumns
      <4>2. A!Updatable(x, j.set) \/ A!Crossing(j) = {x}
        BY <3>3, CrossedByCheck
      <4> QED
        BY <1>1, <1>8, <1>10, <2>2, <3>3, <4>1, <4>2 DEF A!Updatable
    <3> QED
      BY <1>1, <1>5, <1>6, <1>10, <3>1, <3>2, <3>3 DEF Written
  <2> QED
    BY <2>1, <2>2 DEF LimitsAreInUse, A!IsLive, StaysLive
<1>15. PairsAreInUse'
  <2>1. \A i \in Inv : A!Pair(i) \subseteq Account
    BY Registry
  <2>2. \A i \in Inv : A!IsLive(i)' => \A a \in A!Pair(i) : A!IsLive(a)' \/ a \in crossed'
    BY <1>4, <1>8, <1>10, <2>1 DEF AccountsInv, PairsAreInUse
  <2> QED
    BY <2>2 DEF PairsAreInUse, A!IsLive, A!Pair
<1>16. ASSUME NEW y \in A!Id, row'[y] # None
       PROVE  /\ row'[y].group # None => row'[row'[y].group] # None
              /\ row'[y].limit # None => row'[row'[y].limit] # None
              /\ row'[y].autopay # None => row'[row'[y].autopay] # None
  <2>1. row[y] # None
    BY <1>6, <1>16
  <2>2. /\ row[y].group # None => row'[row[y].group] # None
        /\ row[y].limit # None => row'[row[y].limit] # None
        /\ row[y].autopay # None => row'[row[y].autopay] # None
    BY <1>6, <1>9, <1>10, <2>1, AccountsShapes
  <2>3. CASE y # x \/ j.op = "recur"
    BY <1>5, <1>6, <2>1, <2>2, <2>3
  <2>4. CASE y = x /\ j.op = "update"
    <3>1. \A c \in DOMAIN j.set : j.set[c] # None => row'[j.set[c]] # None
      <4>1. \A c \in DOMAIN j.set : j.set[c] \in A!Id \cup {None}
        BY <1>3, <1>10, <2>4 DEF WithColumns
      <4>2. \A c \in DOMAIN j.set : j.set[c] # None => row[j.set[c]] # None
        BY <1>1, <2>4 DEF A!Present, A!Targets
      <4> QED
        BY <1>6, <4>1, <4>2
    <3> QED
      BY <1>5, <1>6, <2>1, <2>2, <2>4, <3>1 DEF Written
  <2> QED
    BY <1>1, <2>3, <2>4
<1>17. ASSUME NEW s \in Security \ crossed', row[s] # None
       PROVE  \/ row'[s].currency = row[s].currency
              \/ quoted[s] = None /\ (row'[s].currency # Home => A!Holders(s) = {})
  <2>1. CASE s # x \/ j.op = "update"
    BY <1>5, <1>6, <1>10, <1>17, <2>1
  <2>2. CASE s = x /\ j.op = "recur"
    <3>1. A!Recurrable(x, j.set.currency)
      BY <1>1, <1>17, <2>2, CrossedByCheck
    <3>2. row'[s].currency = j.set.currency
      BY <1>5, <1>6, <1>17, <2>2
    <3> QED
      BY <2>2, <3>1, <3>2 DEF A!Recurrable
  <2> QED
    BY <1>1, <2>1, <2>2
<1>18. /\ BookingsAreInUse' /\ SharesAreInUse' /\ QuotesAreOfRows' /\ A!ValuesAreInOneCurrency'
       /\ \A t \in Txn : booked'[t] # None =>
            \A id \in (booked'[t].accounts \cup {booked'[t].security}) \ {None} : row'[id] # None
  BY <1>1, <1>4, <1>6, <1>8, <1>17, BookingsKept
<1>19. A!TypeOK'
  BY <1>1, <1>4, <1>6, <1>7, <1>12, <1>16, <1>18, AccountsShapes DEF A!TypeOK
<1> QED
  BY <1>11, <1>12, <1>13, <1>14, <1>15, <1>18, <1>19 DEF AccountsInv

\* What is looked up before a row is deleted covers everything that refers to it.
LEMMA UnusedIfDeletable ==
    ASSUME AccountsInv, NEW x \in A!Id, A!Deletable(x)
    PROVE  /\ ~Used(x)
           /\ \A a \in Account : A!IsLive(a) => row[a].limit # x
           /\ \A i \in Inv : A!IsLive(i) => x \notin A!Pair(i)
<1>1. A!Unreferenced(x)
  BY DEF A!Deletable
<1>2. ASSUME NEW t \in A!Booked, x \in booked[t].accounts PROVE FALSE
  <2>1. x \in Account
    BY <1>2, AccountsShapes DEF A!Booked, A!Booking
  <2> QED
    BY <1>1, <1>2, <2>1 DEF A!Unreferenced, A!Lined
<1>3. ASSUME NEW t \in A!Booked, booked[t].inv = x PROVE FALSE
  <2>1. x # None
    BY Registry
  <2>2. x \in Inv
    BY <1>3, <2>1, AccountsShapes DEF A!Booked, A!Booking
  <2>3. booked[t].accounts = A!Pair(x)
    BY <1>3, <2>1 DEF AccountsInv, BookingsAreInUse, A!Booked
  <2>4. PICK a : a \in A!Pair(x)
    BY <2>2, Registry
  <2>5. A!Lined(a)
    BY <2>3, <2>4 DEF A!Lined
  <2> QED
    BY <1>1, <2>2, <2>4, <2>5 DEF A!Unreferenced
<1>4. ~(x \in Security /\ A!Shares(x) > 0)
  BY <1>1 DEF A!Unreferenced
<1>5. ASSUME NEW a \in Account, A!IsLive(a), row[a].limit = x PROVE FALSE
  <2>1. x # None /\ a \in A!Id /\ row[a] # None
    BY <1>5, Registry DEF A!Id, A!IsLive
  <2>2. row[a] \in A!Row
    BY <2>1, AccountsShapes
  <2>3. x \in Limit
    BY <1>5, <2>1, <2>2, RowColumns
  <2>4. a \in Card
    BY <1>5, <2>1 DEF AccountsInv, LimitsAreInUse
  <2> QED
    BY <1>1, <1>5, <2>3, <2>4 DEF A!Unreferenced
<1>6. ASSUME NEW i \in Inv, A!IsLive(i), x \in A!Pair(i) PROVE FALSE
  <2>1. x \in Account
    BY <1>6, Registry, SMTT(60)
  <2> QED
    BY <1>1, <1>6, <2>1 DEF A!Unreferenced
<1> QED
  BY <1>2, <1>3, <1>4, <1>5, <1>6 DEF Used

LEMMA DeleteRowStep ==
    ASSUME AccountsInv, NEW w \in Worker, A!CommitDelete(w)
    PROVE  AccountsInv'
<1> DEFINE j == job[w]
           x == j.id
           version == j.seen.version + 1
           leaving == {a \in Account : row[a] # None /\ row[a].group = x}
           after(y) == IF row[y] = None THEN None
                       ELSE IF y = x THEN [row[y] EXCEPT !.live = FALSE, !.version = version]
                       ELSE IF y \in leaving THEN [row[y] EXCEPT !.group = None, !.version = @ + 1]
                       ELSE row[y]
           row2 == [y \in A!Id |-> after(y)]
           said(y) == IF y \notin {x} \cup leaving THEN feed[y]
                      ELSE IF y = x THEN version ELSE row2[y].version
<1>0. /\ row' = row2 /\ feed' = [y \in A!Id |-> said(y)]
  BY ZenonT(60) DEF A!CommitDelete, A!Reported
<1>1. /\ j.op = "delete"
      /\ crossed' = crossed \cup A!Crossing(j)
      /\ job' = [job EXCEPT ![w] = A!Idle]
      /\ booked' = booked /\ quoted' = quoted /\ restored' = restored /\ asked' = asked
  BY ZenonT(60) DEF A!CommitDelete, A!Set
<1>2. RequestIsKnown(j)
  BY DEF AccountsInv, RequestsAreKnown
<1> HIDE DEF j
<1>3. x \in A!Id /\ version \in Nat
  <2>1. x \in A!Id /\ j.seen \in A!Row
    BY <1>1, <1>2 DEF RequestIsKnown
  <2> QED
    BY <2>1, RowColumns
<1>4. crossed \subseteq crossed' /\ crossed' \subseteq A!Id
  BY <1>1, <1>2, CrossingIsKnown, AccountsShapes
<1>5. A!Deletable(x) \/ x \in crossed'
  BY <1>1, CrossedByCheck
<1> HIDE DEF version
<1>6. Group \subseteq A!Id /\ Limit \subseteq A!Id /\ Account \subseteq A!Id /\ Security \subseteq A!Id
       /\ Inv \subseteq A!Id
  BY DEF A!Id
<1>7. ASSUME NEW y \in A!Id, row[y] # None
      PROVE  /\ row'[y] \in A!Row
             /\ row'[y].live <=> row[y].live /\ y # x
             /\ row'[y].limit = row[y].limit /\ row'[y].autopay = row[y].autopay
             /\ row'[y].currency = row[y].currency
             /\ row'[y].group \in {row[y].group, None}
             /\ y = x => row'[y].version = version
             /\ y \in leaving /\ y # x => row'[y].group = None
             /\ y \notin {x} \cup leaving => row'[y].version = row[y].version
  <2>1. row[y] \in A!Row
    BY <1>7, AccountsShapes
  <2>2. CASE y = x
    <3>1. row'[y] = [row[y] EXCEPT !.live = FALSE, !.version = version]
      BY <1>0, <1>7, <2>2
    <3> QED
      BY <1>3, <2>1, <2>2, <3>1 DEF A!Row
  <2>3. CASE y # x /\ y \in leaving
    <3>1. row'[y] = [row[y] EXCEPT !.group = None, !.version = @ + 1]
      BY <1>0, <1>7, <2>3
    <3>2. row[y].version + 1 \in Nat
      BY <2>1, RowColumns
    <3>3. \A v \in Nat : LET r == [row[y] EXCEPT !.group = None, !.version = v] IN
            /\ r \in A!Row /\ (r.live <=> row[y].live) /\ r.limit = row[y].limit
            /\ r.autopay = row[y].autopay /\ r.currency = row[y].currency /\ r.group = None
      BY <2>1, ZenonT(60) DEF A!Row
    <3> HIDE DEF leaving
    <3> QED
      BY <2>3, <3>1, <3>2, <3>3, ZenonT(60)
  <2>4. CASE y # x /\ y \notin leaving
    <3>1. row'[y] = row[y]
      BY <1>0, <1>7, <2>4
    <3> QED
      BY <2>1, <2>4, <3>1, SMTT(60) DEF A!Row
  <2> QED
    BY <2>2, <2>3, <2>4
<1>8. /\ \A y \in A!Id : row'[y] = None <=> row[y] = None
      /\ row' \in [A!Id -> A!Row \cup {None}]
  <2>1. \A y \in A!Id : row[y] = None => row'[y] = None
    BY <1>0
  <2>2. \A y \in A!Id : row[y] # None => row'[y] \in A!Row /\ row'[y] # None
    BY <1>7, Registry
  <2>3. row' = [y \in A!Id |-> row'[y]]
    <3> HIDE DEF after
    <3> QED
      BY <1>0
  <2> QED
    BY <2>1, <2>2, <2>3, SMTT(60)
<1>9. /\ feed'[x] = version
      /\ \A y \in A!Id : y \in leaving /\ y # x => feed'[y] = row'[y].version
      /\ \A y \in A!Id : y \notin {x} \cup leaving => feed'[y] = feed[y]
      /\ feed' \in [A!Id -> Nat]
  <2>1. /\ feed'[x] = version
        /\ \A y \in A!Id : y \in leaving /\ y # x => feed'[y] = row'[y].version
        /\ \A y \in A!Id : y \notin {x} \cup leaving => feed'[y] = feed[y]
    <3> HIDE DEF row2, leaving
    <3> QED
      BY <1>0, <1>3
  <2>2. \A y \in leaving : row'[y].version \in Nat
    BY <1>6, <1>7, RowColumns
  <2>3. \A y \in A!Id : feed'[y] \in Nat
    <3> HIDE DEF leaving
    <3> QED
      BY <1>3, <2>1, <2>2, AccountsShapes, SMTT(60)
  <2>4. feed' = [y \in A!Id |-> feed'[y]]
    <3> HIDE DEF said
    <3> QED
      BY <1>0
  <2> QED
    BY <2>1, <2>3, <2>4
<1>10. \A y \in A!Id : (StaysLive(y) <=> A!IsLive(y) /\ y # x) /\ (A!IsLive(y)' <=> A!IsLive(y) /\ y # x)
  BY <1>7, <1>8 DEF A!IsLive, StaysLive
<1>11. A!EveryChangeIsReported'
  <2>1. SUFFICES ASSUME ~restored, NEW y \in A!Id, row'[y] # None
                 PROVE  feed'[y] = row'[y].version
    BY <1>1 DEF A!EveryChangeIsReported
  <2>2. row[y] # None /\ feed[y] = row[y].version
    BY <1>8, <2>1 DEF AccountsInv, A!EveryChangeIsReported
  <2> QED
    BY <1>7, <1>9, <2>2
<1>12. RequestsAreKnown' /\ DOMAIN job' = Worker
  BY <1>1, IdleIsKnown, RequestsFollow
<1>13. GroupsAreInUse'
  <2>1. SUFFICES ASSUME NEW a \in Account, row'[a] # None, row'[a].group # None
                 PROVE  StaysLive(row'[a].group) \/ a \in crossed'
    BY DEF GroupsAreInUse, A!IsLive, StaysLive
  <2>2. row[a] # None /\ a \in A!Id
    BY <1>6, <1>8, <2>1
  <2>3. row'[a].group = row[a].group /\ row[a].group \in Group
    <3>1. row[a].group \in Group \cup {None}
      BY <2>2, AccountsShapes, RowColumns
    <3> QED
      BY <1>7, <2>1, <2>2, <3>1
  <2>4. row[a].group # x
    <3>1. ASSUME row[a].group = x PROVE FALSE
      <4>1. a \in leaving /\ a # x
        BY <2>2, <2>3, <3>1, OneTable
      <4> QED
        BY <1>7, <2>1, <2>2, <4>1
    <3> QED
      BY <3>1
  <2> QED
    BY <1>4, <1>6, <1>10, <2>1, <2>2, <2>3, <2>4 DEF AccountsInv, GroupsAreInUse
<1>14. LimitsAreInUse'
  <2>1. ASSUME NEW id \in A!Id, row'[id] # None, row'[id].limit # None
        PROVE  id \in Card
    BY <1>7, <1>8, <2>1 DEF AccountsInv, LimitsAreInUse
  <2>2. ASSUME NEW a \in Account, A!IsLive(a)', row'[a].limit # None
        PROVE  StaysLive(row'[a].limit) \/ a \in crossed' \/ row'[a].limit \in crossed'
    <3>1. A!IsLive(a) /\ row[a] # None /\ a \in A!Id
      BY <1>6, <1>10, <2>2 DEF A!IsLive
    <3>2. row'[a].limit = row[a].limit /\ row[a].limit \in A!Id
      BY <1>6, <1>7, <2>2, <3>1, AccountsShapes, RowColumns
    <3>3. A!IsLive(row[a].limit) \/ a \in crossed \/ row[a].limit \in crossed
      BY <2>2, <3>1, <3>2 DEF AccountsInv, LimitsAreInUse
    <3>4. ASSUME row[a].limit = x PROVE x \in crossed'
      BY <1>3, <1>5, <3>1, <3>4, UnusedIfDeletable
    <3> QED
      BY <1>4, <1>10, <3>2, <3>3, <3>4
  <2> QED
    BY <2>1, <2>2 DEF LimitsAreInUse, A!IsLive, StaysLive
<1>15. PairsAreInUse'
  <2>1. \A i \in Inv : A!Pair(i) \subseteq Account
    BY Registry
  <2>2. ASSUME NEW i \in Inv, A!IsLive(i)', NEW a \in A!Pair(i)
        PROVE  A!IsLive(a)' \/ a \in crossed'
    <3>1. A!IsLive(i) /\ a \in A!Id
      BY <1>6, <1>10, <2>1, <2>2
    <3>2. A!IsLive(a) \/ a \in crossed
      BY <3>1, <2>2 DEF AccountsInv, PairsAreInUse
    <3>3. ASSUME a = x PROVE x \in crossed'
      BY <1>3, <1>5, <2>2, <3>1, <3>3, UnusedIfDeletable
    <3> QED
      BY <1>4, <1>10, <3>1, <3>2, <3>3
  <2> QED
    BY <2>2 DEF PairsAreInUse, A!IsLive, A!Pair
<1>16. ASSUME NEW y \in A!Id, row'[y] # None
       PROVE  /\ row'[y].group # None => row'[row'[y].group] # None
              /\ row'[y].limit # None => row'[row'[y].limit] # None
              /\ row'[y].autopay # None => row'[row'[y].autopay] # None
  <2>1. row[y] # None
    BY <1>8, <1>16
  <2>2. /\ row[y].group \in A!Id \cup {None} /\ row[y].limit \in A!Id \cup {None}
        /\ row[y].autopay \in A!Id \cup {None}
    BY <1>6, <2>1, AccountsShapes, RowColumns
  <2>3. /\ row[y].group # None => row'[row[y].group] # None
        /\ row[y].limit # None => row'[row[y].limit] # None
        /\ row[y].autopay # None => row'[row[y].autopay] # None
    BY <1>8, <2>1, <2>2, AccountsShapes
  <2> QED
    BY <1>7, <2>1, <2>3
<1>17. \A y \in A!Id : A!IsLive(y) /\ Used(y) => A!IsLive(y)' \/ y \in crossed'
  BY <1>3, <1>5, <1>10, UnusedIfDeletable
<1>18. /\ BookingsAreInUse' /\ SharesAreInUse' /\ QuotesAreOfRows' /\ A!ValuesAreInOneCurrency'
       /\ \A t \in Txn : booked'[t] # None =>
            \A id \in (booked'[t].accounts \cup {booked'[t].security}) \ {None} : row'[id] # None
  <2>1. \A s \in Security \ crossed' : row[s] # None => row'[s].currency = row[s].currency
    BY <1>6, <1>7
  <2> QED
    BY <1>1, <1>4, <1>8, <1>17, <2>1, BookingsKept
<1>19. A!TypeOK'
  BY <1>1, <1>4, <1>8, <1>9, <1>12, <1>16, <1>18, AccountsShapes DEF A!TypeOK
<1> QED
  BY <1>11, <1>12, <1>13, <1>14, <1>15, <1>18, <1>19 DEF AccountsInv

LEMMA RestoreStep ==
    ASSUME AccountsInv, A!Restore
    PROVE  AccountsInv'
<1>1. /\ \A t \in Txn : booked[t] = None
      /\ row' = [id \in A!Id |-> IF id \in DOMAIN Backup THEN Backup[id] ELSE None]
      /\ quoted' = [s \in Security |-> None]
      /\ restored' = TRUE
      /\ booked' = booked /\ feed' = feed /\ job' = job /\ asked' = asked /\ crossed' = crossed
  BY DEF A!Restore
<1>2. /\ DOMAIN Backup \subseteq A!Id
      /\ \A id \in DOMAIN Backup :
        /\ Backup[id] \in A!Row
        /\ Backup[id].group # None => A!LiveInBackup(Backup[id].group)
        /\ Backup[id].limit # None =>
            id \in Card /\ A!InBackup(Backup[id].limit)
            /\ (Backup[id].live => A!LiveInBackup(Backup[id].limit))
        /\ Backup[id].autopay # None => A!InBackup(Backup[id].autopay)
        /\ id \in Inv /\ Backup[id].live => \A a \in A!Pair(id) : A!LiveInBackup(a)
  BY BookAssumption DEF A!AccountsAssumption, A!BackupAssumption
<1>3. /\ \A id \in A!Id : row'[id] # None <=> id \in DOMAIN Backup
      /\ \A id \in DOMAIN Backup : row'[id] = Backup[id]
      /\ row' \in [A!Id -> A!Row \cup {None}]
  BY <1>1, <1>2, Registry
<1>4. /\ \A id : A!InBackup(id) => row'[id] # None
      /\ \A id : A!LiveInBackup(id) => StaysLive(id)
      /\ \A id \in A!Id : StaysLive(id) <=> A!LiveInBackup(id)
      /\ \A id \in A!Id : A!IsLive(id)' <=> A!LiveInBackup(id)
  BY <1>2, <1>3 DEF A!InBackup, A!LiveInBackup, A!IsLive, StaysLive
<1>5. Account \subseteq A!Id /\ Inv \subseteq A!Id
  BY DEF A!Id
<1>6. RequestsAreKnown' /\ DOMAIN job' = Worker
  BY <1>1, AccountsShapes DEF AccountsInv, RequestsAreKnown
<1>7. \A t : t \notin A!Booked /\ t \notin A!Booked'
  BY <1>1 DEF A!Booked
<1>8. A!TypeOK'
  <2>1. ASSUME NEW id \in A!Id, row'[id] # None
        PROVE  /\ row'[id].group # None => row'[row'[id].group] # None
               /\ row'[id].limit # None => row'[row'[id].limit] # None
               /\ row'[id].autopay # None => row'[row'[id].autopay] # None
    BY <1>2, <1>3, <1>4, <2>1 DEF A!LiveInBackup
  <2>2. quoted' \in [Security -> Currency \cup {None}]
    BY <1>1
  <2>3. \A t \in Txn : booked'[t] = None
    BY <1>1
  <2> QED
    BY <1>1, <1>3, <1>6, <2>1, <2>2, <2>3, AccountsShapes DEF A!TypeOK
<1>9. GroupsAreInUse'
  <2>1. \A a \in Account : row'[a] # None /\ row'[a].group # None => StaysLive(row'[a].group)
    BY <1>2, <1>3, <1>4, <1>5
  <2> QED
    BY <2>1 DEF GroupsAreInUse, A!IsLive, StaysLive
<1>10. LimitsAreInUse'
  <2>1. \A id \in A!Id : row'[id] # None /\ row'[id].limit # None => id \in Card
    BY <1>2, <1>3
  <2>2. \A a \in Account : A!IsLive(a)' /\ row'[a].limit # None => StaysLive(row'[a].limit)
    BY <1>2, <1>3, <1>4, <1>5 DEF A!LiveInBackup, A!InBackup
  <2> QED
    BY <2>1, <2>2 DEF LimitsAreInUse, A!IsLive, StaysLive
<1>11. PairsAreInUse'
  <2>1. \A i \in Inv : A!IsLive(i)' => \A a \in A!Pair(i) : A!IsLive(a)'
    <3>1. \A i \in Inv : A!Pair(i) \subseteq Account
      BY Registry
    <3> QED
      BY <1>2, <1>4, <1>5, <3>1 DEF A!LiveInBackup, A!InBackup
  <2> QED
    BY <2>1 DEF PairsAreInUse, A!IsLive, A!Pair
<1>12. BookingsAreInUse'
  BY <1>1, <1>7 DEF BookingsAreInUse
<1>13. SharesAreInUse'
  <2>1. \A s : A!Shares(s)' = A!Shares(s) /\ A!Shares(s) = 0
    BY <1>1, <1>7, SharesSame, SharesOfNone
  <2>2. \A s : ~(A!Shares(s)' > 0)
    BY <2>1
  <2> QED
    BY <2>2 DEF SharesAreInUse
<1>14. QuotesAreOfRows' /\ A!ValuesAreInOneCurrency' /\ A!EveryChangeIsReported'
  BY <1>1 DEF QuotesAreOfRows, A!ValuesAreInOneCurrency, A!Holders, A!EveryChangeIsReported
<1> QED
  BY <1>6, <1>8, <1>9, <1>10, <1>11, <1>12, <1>13, <1>14 DEF AccountsInv

\* The rows of the start refer to nothing.
LEMMA AccountsInit ==
    ASSUME A!Init
    PROVE  AccountsInv
<1>1. /\ row = [id \in A!Id |-> IF id \in Existing THEN A!Fresh ELSE None]
      /\ booked = [t \in Txn |-> None] /\ quoted = [s \in Security |-> None]
      /\ feed = [id \in A!Id |-> IF id \in Existing THEN 1 ELSE 0]
      /\ restored = FALSE /\ job = [w \in Worker |-> A!Idle] /\ asked = 0 /\ crossed = {}
  BY DEF A!Init
<1>2. /\ \A id \in A!Id : row[id] # None <=> id \in Existing
      /\ \A id \in Existing : row[id] = A!Fresh
      /\ row \in [A!Id -> A!Row \cup {None}]
  <2>1. A!Fresh \in A!Row /\ A!Fresh # None
    BY FreshRow, Registry
  <2> QED
    BY <1>1, <2>1, Registry
<1>3. \A id \in A!Id : row[id] # None =>
        row[id].group = None /\ row[id].limit = None /\ row[id].version = 1 /\ row[id].autopay = None
  BY <1>2, FreshRow
<1>4. \A t : t \notin A!Booked
  BY <1>1 DEF A!Booked
<1>5. RequestsAreKnown
  BY <1>1, IdleIsKnown DEF RequestsAreKnown
<1>6. A!TypeOK
  <2>1. /\ feed \in [A!Id -> Nat] /\ quoted \in [Security -> Currency \cup {None}]
        /\ booked \in [Txn -> A!Booking \cup {None}] /\ DOMAIN job = Worker
        /\ crossed \subseteq A!Id
    BY <1>1
  <2>2. restored \in BOOLEAN
    BY <1>1
  <2>3. asked \in 0..MaxRequests
    BY <1>1, Registry
  <2> QED
    BY <1>1, <1>2, <1>3, <2>1, <2>2, <2>3, ZenonT(60) DEF A!TypeOK
<1>7. GroupsAreInUse /\ LimitsAreInUse
  <2>1. Account \subseteq A!Id
    BY DEF A!Id
  <2> QED
    BY <1>3, <2>1 DEF GroupsAreInUse, LimitsAreInUse, A!IsLive
<1>8. PairsAreInUse
  <2>1. \A i \in Inv : i \in Existing <=> A!Pair(i) \subseteq Existing
    BY BookAssumption DEF A!AccountsAssumption
  <2>2. Inv \subseteq A!Id /\ Existing \subseteq A!Id
    BY Registry DEF A!Id
  <2>3. \A a \in Existing : A!IsLive(a)
    BY <1>2, <2>2, FreshRow DEF A!IsLive
  <2> QED
    BY <1>2, <2>1, <2>2, <2>3 DEF PairsAreInUse, A!IsLive
<1>9. BookingsAreInUse
  BY <1>1, <1>4 DEF BookingsAreInUse
<1>10. SharesAreInUse
  <2>1. \A s : A!Shares(s) = 0
    BY <1>1, SharesOfNone
  <2>2. \A s : ~(A!Shares(s) > 0)
    BY <2>1
  <2> QED
    BY <2>2 DEF SharesAreInUse
<1>11. QuotesAreOfRows /\ A!ValuesAreInOneCurrency
  BY <1>1 DEF QuotesAreOfRows, A!ValuesAreInOneCurrency, A!Holders
<1>12. A!EveryChangeIsReported
  BY <1>1, <1>2, <1>3 DEF A!EveryChangeIsReported
<1> QED
  BY <1>5, <1>6, <1>7, <1>8, <1>9, <1>10, <1>11, <1>12 DEF AccountsInv

\* The transaction of an opening balance is between its account and Equity.
OpeningOf(x) == [live |-> TRUE, accounts |-> {x, Equity}, inv |-> None, security |-> None, shares |-> 0]

LEMMA CreateRowStep ==
    ASSUME AccountsInv, NEW w \in Worker, A!CommitCreate(w)
    PROVE  AccountsInv'
<1> DEFINE j == job[w]
           x == j.id
           o == j.opening
           new == {x} \cup (IF x \in Inv THEN A!Pair(x) ELSE {})
           revived == IF o # None /\ ~A!IsLive(Equity) THEN {Equity} ELSE {}
           p == A!Patch(A!Fresh, j.set)
           back == IF row[Equity] = None THEN A!Fresh
                   ELSE [row[Equity] EXCEPT !.live = TRUE, !.version = @ + 1]
           after(y) == IF y \in new THEN p
                       ELSE IF y \in revived
                       THEN IF row[y] = None THEN A!Fresh
                            ELSE [row[y] EXCEPT !.live = TRUE, !.version = @ + 1]
                       ELSE row[y]
           row2 == [y \in A!Id |-> after(y)]
           said(y) == IF y \in new \cup revived THEN row2[y].version ELSE feed[y]
<1>0. row' = row2 /\ feed' = [y \in A!Id |-> said(y)]
  BY ZenonT(60) DEF A!CommitCreate
<1>1. /\ j.op = "create" /\ (\A y \in new : row[y] = None) /\ A!Present(A!Targets(j.set))
      /\ (o # None => booked[o] = None)
      /\ booked' = (IF o = None THEN booked ELSE [booked EXCEPT ![o] = OpeningOf(x)])
      /\ crossed' = crossed \cup A!Crossing(j)
      /\ job' = [job EXCEPT ![w] = A!Idle]
      /\ quoted' = quoted /\ restored' = restored /\ asked' = asked
  BY DEF A!CommitCreate, A!Set, OpeningOf
<1>2. RequestIsKnown(j)
  BY DEF AccountsInv, RequestsAreKnown
<1> HIDE DEF j
<1>3. /\ x \in A!Id /\ WithColumns(j.set, x) /\ o \in Txn \cup {None}
      /\ (o # None => x \in Account)
  BY <1>1, <1>2 DEF RequestIsKnown
<1>4. crossed \subseteq crossed' /\ crossed' \subseteq A!Id
  BY <1>1, <1>2, CrossingIsKnown, AccountsShapes
<1>5. A!Creatable(x, j.set) \/ x \in crossed'
  BY <1>1, CrossedByCheck
<1>6. /\ Group \subseteq A!Id /\ Limit \subseteq A!Id /\ Account \subseteq A!Id
      /\ Security \subseteq A!Id /\ Inv \subseteq A!Id /\ Equity \in A!Id
  BY Registry DEF A!Id
\* Only an account and a card come with columns.
<1>7. /\ p \in A!Row /\ p.live /\ p.version = 1 /\ p.currency = Home
      /\ p.group = Written(j.set, "group", None)
      /\ p.limit = Written(j.set, "limit", None)
      /\ p.autopay = Written(j.set, "autopay", None)
  BY <1>3, FreshRow, PatchedRow
<1>8. /\ new \subseteq A!Id /\ x \in new
      /\ x \notin Inv => new = {x}
      /\ \A y \in new \ {x} : y \in Account /\ x \in Inv
  BY <1>3, <1>6, Registry
<1>9. /\ p.group # None =>
            /\ x \in Account /\ new = {x} /\ p.group \in Group
            /\ row[p.group] # None /\ (A!IsLive(p.group) \/ x \in crossed')
      /\ p.limit # None =>
            /\ x \in Card /\ new = {x} /\ p.limit \in Limit
            /\ row[p.limit] # None /\ (A!IsLive(p.limit) \/ x \in crossed')
      /\ p.autopay # None => p.autopay \in Account /\ row[p.autopay] # None
  <2>1. \A c \in DOMAIN j.set : j.set[c] # None => row[j.set[c]] # None
    BY <1>1 DEF A!Present, A!Targets
  <2>2. x \in Account => new = {x}
    BY <1>8, OneTable
  <2>3. Card \subseteq Account
    BY Registry
  <2> HIDE DEF new, p
  <2>4. ASSUME p.group # None
        PROVE  /\ x \in Account /\ p.group \in Group
               /\ row[p.group] # None /\ (A!IsLive(p.group) \/ x \in crossed')
    <3>1. "group" \in DOMAIN j.set /\ p.group = j.set["group"]
      BY <1>7, <2>4 DEF Written
    <3> QED
      BY <1>3, <1>5, <2>1, <2>4, <3>1 DEF WithColumns, A!Creatable, A!RefersToLive
  <2>5. ASSUME p.limit # None
        PROVE  /\ x \in Card /\ p.limit \in Limit
               /\ row[p.limit] # None /\ (A!IsLive(p.limit) \/ x \in crossed')
    <3>1. "limit" \in DOMAIN j.set /\ p.limit = j.set["limit"]
      BY <1>7, <2>5 DEF Written
    <3> QED
      BY <1>3, <1>5, <2>1, <2>5, <3>1 DEF WithColumns, A!Creatable, A!RefersToLive
  <2>6. ASSUME p.autopay # None PROVE p.autopay \in Account /\ row[p.autopay] # None
    <3>1. "autopay" \in DOMAIN j.set /\ p.autopay = j.set["autopay"]
      BY <1>7, <2>6 DEF Written
    <3> QED
      BY <1>3, <2>1, <2>6, <3>1 DEF WithColumns
  <2> QED
    BY <2>2, <2>3, <2>4, <2>5, <2>6
<1> HIDE DEF p
\* The opening balance account, if it comes back.
<1>10. /\ back \in A!Row /\ back.live
       /\ row[Equity] = None => back.group = None /\ back.limit = None /\ back.autopay = None
       /\ row[Equity] # None =>
            /\ back.group = row[Equity].group /\ back.limit = row[Equity].limit
            /\ back.autopay = row[Equity].autopay /\ back.currency = row[Equity].currency
  <2>1. CASE row[Equity] = None
    BY <2>1, FreshRow
  <2>2. CASE row[Equity] # None
    <3>1. row[Equity] \in A!Row /\ row[Equity].version + 1 \in Nat
      BY <1>6, <2>2, AccountsShapes, RowColumns
    <3>2. \A v \in Nat : LET r == [row[Equity] EXCEPT !.live = TRUE, !.version = v] IN
            /\ r \in A!Row /\ r.live /\ r.limit = row[Equity].limit /\ r.group = row[Equity].group
            /\ r.autopay = row[Equity].autopay /\ r.currency = row[Equity].currency
      BY <3>1 DEF A!Row
    <3> QED
      BY <2>2, <3>1, <3>2
  <2> QED
    BY <2>1, <2>2
<1>11. /\ \A y \in new : row'[y] = p
       /\ \A y \in revived \ new : y = Equity /\ row'[y] = back
       /\ \A y \in A!Id \ (new \cup revived) : row'[y] = row[y]
       /\ row' = [y \in A!Id |-> row'[y]]
  <2>1. \A y \in A!Id : row'[y] = after(y)
    BY <1>0
  <2>2. row' = [y \in A!Id |-> row'[y]]
    <3> HIDE DEF after
    <3> QED
      BY <1>0
  <2>3. \A y \in revived : y = Equity /\ y \in A!Id
    BY <1>6
  <2>4. \A y \in revived \ new : after(y) = back
    BY <2>3
  <2>5. /\ \A y \in new : after(y) = p
        /\ \A y \in A!Id \ (new \cup revived) : after(y) = row[y]
    OBVIOUS
  <2> HIDE DEF after, new, revived, back
  <2> QED
    BY <1>8, <2>1, <2>2, <2>3, <2>4, <2>5
<1>12. revived \subseteq {Equity} /\ (Equity \in revived => ~A!IsLive(Equity))
       /\ (o # None => A!IsLive(Equity) \/ Equity \in revived)
  OBVIOUS
<1>13. /\ \A y \in new \cup revived : feed'[y] = row'[y].version
       /\ \A y \in A!Id \ (new \cup revived) : feed'[y] = feed[y]
       /\ feed' = [y \in A!Id |-> feed'[y]]
  <2>1. \A y \in A!Id : feed'[y] = said(y)
    BY <1>0
  <2>2. feed' = [y \in A!Id |-> feed'[y]]
    <3> HIDE DEF said
    <3> QED
      BY <1>0
  <2> HIDE DEF new, revived, row2
  <2> QED
    BY <1>0, <1>6, <1>8, <1>12, <2>1, <2>2
<1> HIDE DEF new, revived, back, after, row2, said
<1>14. /\ \A y \in A!Id : row[y] # None =>
            /\ y \notin new /\ row'[y] # None
            /\ row'[y].group = row[y].group /\ row'[y].limit = row[y].limit
            /\ row'[y].autopay = row[y].autopay /\ row'[y].currency = row[y].currency
       /\ \A y \in A!Id : row[y] = None /\ row'[y] # None =>
            \/ y \in new /\ row'[y] = p
            \/ y = Equity /\ row'[y].group = None /\ row'[y].limit = None /\ row'[y].autopay = None
       /\ row' \in [A!Id -> A!Row \cup {None}]
  <2>1. \A y \in A!Id : row'[y] \in A!Row \cup {None}
    BY <1>7, <1>10, <1>11, AccountsShapes
  <2>2. row' \in [A!Id -> A!Row \cup {None}]
    BY <1>11, <2>1
  <2>3. back # None
    BY <1>10, Registry
  <2> QED
    BY <1>1, <1>10, <1>11, <1>12, <2>2, <2>3
<1>15. /\ \A y \in A!Id : StaysLive(y) <=> A!IsLive(y)'
       /\ \A y \in A!Id : A!IsLive(y) => StaysLive(y)
       /\ \A y \in new : StaysLive(y)
       /\ o # None => StaysLive(Equity)
       /\ \A y \in A!Id : StaysLive(y) => A!IsLive(y) \/ y \in new \/ y = Equity
  <2>1. \A y \in A!Id : StaysLive(y) <=> A!IsLive(y)'
    BY DEF StaysLive, A!IsLive
  <2>2. \A y \in new : StaysLive(y)
    BY <1>7, <1>11, Registry DEF StaysLive
  <2>3. \A y \in revived : StaysLive(y)
    BY <1>10, <1>11, <2>2, Registry DEF StaysLive
  <2>4. \A y \in A!Id \ (new \cup revived) : StaysLive(y) <=> A!IsLive(y)
    BY <1>11 DEF StaysLive, A!IsLive
  <2> QED
    BY <1>6, <1>12, <2>1, <2>2, <2>3, <2>4
<1>16. RequestsAreKnown' /\ DOMAIN job' = Worker
  BY <1>1, IdleIsKnown, RequestsFollow
<1>17. /\ \A y \in A!Id : row[y] # None =>
            /\ row[y].group \in A!Id \cup {None} /\ row[y].limit \in A!Id \cup {None}
            /\ row[y].autopay \in A!Id \cup {None}
  BY <1>6, AccountsShapes, RowColumns
<1>18. A!EveryChangeIsReported' /\ feed' \in [A!Id -> Nat]
  <2>1. \A y \in new \cup revived : row'[y] \in A!Row /\ row'[y].version \in Nat
    BY <1>7, <1>10, <1>11, RowColumns
  <2>2. \A y \in A!Id : feed'[y] \in Nat
    BY <1>13, <2>1, AccountsShapes
  <2>3. feed' \in [A!Id -> Nat]
    BY <1>13, <2>2
  <2>4. ~restored => \A y \in A!Id : row'[y] # None => feed'[y] = row'[y].version
    BY <1>11, <1>13 DEF AccountsInv, A!EveryChangeIsReported
  <2> QED
    BY <1>1, <2>3, <2>4 DEF A!EveryChangeIsReported
<1>19. GroupsAreInUse'
  <2>1. SUFFICES ASSUME NEW a \in Account, row'[a] # None, row'[a].group # None
                 PROVE  StaysLive(row'[a].group) \/ a \in crossed'
    BY DEF GroupsAreInUse, A!IsLive, StaysLive
  <2>2. a \in A!Id
    BY <1>6
  <2>3. CASE row[a] # None
    BY <1>4, <1>14, <1>15, <1>17, <2>1, <2>2, <2>3 DEF AccountsInv, GroupsAreInUse
  <2>4. CASE row[a] = None
    <3>1. a \in new /\ row'[a] = p
      BY <1>14, <2>1, <2>2, <2>4
    <3> QED
      BY <1>6, <1>9, <1>15, <2>1, <3>1
  <2> QED
    BY <2>3, <2>4
<1>20. LimitsAreInUse'
  <2>1. ASSUME NEW y \in A!Id, row'[y] # None, row'[y].limit # None
        PROVE  y \in Card
    <3>1. CASE row[y] # None
      BY <1>14, <2>1, <3>1 DEF AccountsInv, LimitsAreInUse
    <3>2. CASE row[y] = None
      BY <1>9, <1>14, <2>1, <3>2
    <3> QED
      BY <3>1, <3>2
  <2>2. ASSUME NEW a \in Account, StaysLive(a), row'[a].limit # None
        PROVE  StaysLive(row'[a].limit) \/ a \in crossed' \/ row'[a].limit \in crossed'
    <3>1. a \in A!Id /\ row'[a] # None
      BY <1>6, <2>2 DEF StaysLive
    <3>2. a \in Card /\ a # Equity
      BY <2>1, <2>2, <3>1, Registry
    <3>3. CASE A!IsLive(a)
      <4>1. row[a] # None
        BY <3>3 DEF A!IsLive
      <4> QED
        BY <1>4, <1>14, <1>15, <1>17, <2>2, <3>1, <3>3, <4>1 DEF AccountsInv, LimitsAreInUse
    <3>4. CASE a \in new
      <4>1. row'[a] = p
        BY <1>11, <3>4
      <4> QED
        BY <1>6, <1>9, <1>15, <2>2, <3>4, <4>1
    <3> QED
      BY <1>15, <2>2, <3>1, <3>2, <3>3, <3>4
  <2>3. \A a \in Account : A!IsLive(a)' => StaysLive(a)
    BY <1>6, <1>15
  <2> QED
    BY <2>1, <2>2, <2>3 DEF LimitsAreInUse, A!IsLive, StaysLive
<1>21. PairsAreInUse'
  <2>1. ASSUME NEW i \in Inv, A!IsLive(i)', NEW a \in A!Pair(i)
        PROVE  A!IsLive(a)' \/ a \in crossed'
    <3>1. i \in A!Id /\ i # Equity /\ a \in A!Id
      BY <1>6, <2>1, Registry, OneTable
    <3>2. CASE A!IsLive(i)
      BY <1>4, <1>15, <2>1, <3>1, <3>2 DEF AccountsInv, PairsAreInUse
    <3>3. CASE i \in new
      <4>1. i = x
        BY <1>8, <2>1, <3>3, OneTable
      <4>2. a \in new
        BY <2>1, <4>1 DEF new
      <4> QED
        BY <1>15, <3>1, <4>2
    <3> QED
      BY <1>15, <2>1, <3>1, <3>2, <3>3
  <2> QED
    BY <2>1 DEF PairsAreInUse, A!IsLive, A!Pair
<1> DEFINE b == OpeningOf(x)
<1>22. o # None =>
        /\ b \in A!Booking /\ b # None /\ b.live /\ b.accounts = {x, Equity}
        /\ b.inv = None /\ b.security = None
  <2>1. x \in Account => b \in A!Booking
    BY Registry DEF A!Booking, OpeningOf
  <2>2. /\ b.live /\ b.accounts = {x, Equity} /\ b.inv = None /\ b.security = None
    BY DEF OpeningOf
  <2> QED
    BY <1>3, <2>1, <2>2, Registry
<1> HIDE DEF b
<1>23. /\ o # None => o \in Txn /\ booked'[o] = b /\ booked[o] = None
       /\ \A t \in Txn : t # o \/ o = None => booked'[t] = booked[t]
       /\ booked' \in [Txn -> A!Booking \cup {None}]
  <2>1. CASE o = None
    BY <1>1, <2>1, AccountsShapes
  <2>2. CASE o # None
    <3>1. booked' = [booked EXCEPT ![o] = b] /\ o \in Txn /\ booked[o] = None
      BY <1>1, <1>3, <2>2 DEF b
    <3> QED
      BY <1>22, <2>2, <3>1, AccountsShapes
  <2> QED
    BY <2>1, <2>2
<1>24. /\ \A t \in Txn : booked[t] # None => t # o /\ booked'[t] = booked[t]
       /\ \A t \in Txn : booked'[t] # None =>
            \/ booked[t] # None /\ booked'[t] = booked[t]
            \/ o # None /\ t = o /\ booked'[t] = b
  BY <1>23, Registry
<1>25. BookingsAreInUse'
  <2>1. ASSUME NEW t \in Txn, booked'[t] # None
        PROVE  /\ booked'[t].inv # None => booked'[t].accounts = A!Pair(booked'[t].inv) /\ booked'[t].security # None
               /\ booked'[t].inv = None => booked'[t].security = None
    BY <1>22, <1>24, <2>1 DEF AccountsInv, BookingsAreInUse
  <2>2. ASSUME NEW t \in Txn, booked'[t] # None, booked'[t].live
        PROVE  /\ \A a \in booked'[t].accounts : StaysLive(a) \/ a \in crossed'
               /\ booked'[t].inv # None => StaysLive(booked'[t].inv) \/ booked'[t].inv \in crossed'
    <3>1. CASE booked[t] # None /\ booked'[t] = booked[t]
      <4>1. t \in A!Booked
        BY <2>2, <3>1 DEF A!Booked
      <4>2. booked[t].accounts \subseteq A!Id /\ booked[t].inv \in A!Id \cup {None}
        BY <1>6, <3>1, AccountsShapes DEF A!Booking
      <4> QED
        BY <1>4, <1>15, <3>1, <4>1, <4>2 DEF AccountsInv, BookingsAreInUse
    <3>2. CASE o # None /\ t = o /\ booked'[t] = b
      BY <1>8, <1>15, <1>22, <3>2
    <3> QED
      BY <1>24, <2>2, <3>1, <3>2
  <2> QED
    BY <2>1, <2>2 DEF BookingsAreInUse, A!Booked, A!IsLive, StaysLive
<1>26. \A s \in Security : s # None /\ s \in A!Id
  BY <1>6, Registry
<1>27. SharesAreInUse'
  <2>1. ASSUME NEW s \in Security PROVE A!Shares(s)' = A!Shares(s)
    <3>1. \A t \in Txn :
                /\ t \in A!Booked /\ booked[t].security = s
                    <=> (booked'[t] # None /\ booked'[t].live /\ booked'[t].security = s)
                /\ t \in A!Booked /\ booked[t].security = s => booked'[t].shares = booked[t].shares
      BY <1>22, <1>24, <1>26 DEF A!Booked
    <3> QED
      BY <3>1, SharesSame
  <2>2. \A s \in Security : A!Shares(s) > 0 => A!IsLive(s)' \/ s \in crossed'
    BY <1>4, <1>15, <1>26 DEF AccountsInv, SharesAreInUse
  <2> QED
    BY <2>1, <2>2 DEF SharesAreInUse
<1>28. QuotesAreOfRows'
  BY <1>1, <1>14, <1>26 DEF AccountsInv, QuotesAreOfRows
<1>29. A!ValuesAreInOneCurrency'
  <2>1. SUFFICES ASSUME NEW s \in Security, s \notin crossed'
                 PROVE  /\ quoted[s] # None => quoted[s] = row'[s].currency
                        /\ A!Holders(s)' # {} => row'[s].currency = Home
    BY <1>1 DEF A!ValuesAreInOneCurrency
  <2>2. /\ quoted[s] # None => quoted[s] = row[s].currency
        /\ A!Holders(s) # {} => row[s].currency = Home
    BY <1>4, <2>1 DEF AccountsInv, A!ValuesAreInOneCurrency
  <2>3. quoted[s] # None => row[s] # None
    BY DEF AccountsInv, QuotesAreOfRows
  <2>4. ASSUME A!Holders(s)' # {} PROVE A!Holders(s) # {} /\ row[s] # None
    <3>1. PICK t \in Txn : booked'[t] # None /\ booked'[t].security = s
      BY <2>4, Held
    <3>2. booked[t] # None /\ booked[t].security = s
      BY <1>22, <1>24, <1>26, <3>1
    <3> QED
      BY <1>26, <3>2, Held, AccountsShapes
  <2> QED
    BY <1>14, <1>26, <2>2, <2>3, <2>4
<1>30. A!TypeOK'
  <2>1. ASSUME NEW y \in A!Id, row'[y] # None
        PROVE  /\ row'[y].group # None => row'[row'[y].group] # None
               /\ row'[y].limit # None => row'[row'[y].limit] # None
               /\ row'[y].autopay # None => row'[row'[y].autopay] # None
    <3>1. CASE row[y] # None
      <4>1. /\ row[y].group # None => row'[row[y].group] # None
            /\ row[y].limit # None => row'[row[y].limit] # None
            /\ row[y].autopay # None => row'[row[y].autopay] # None
        BY <1>14, <1>17, <3>1, AccountsShapes
      <4> QED
        BY <1>14, <3>1, <4>1
    <3>2. CASE row[y] = None
      BY <1>6, <1>9, <1>14, <2>1, <3>2
    <3> QED
      BY <3>1, <3>2
  <2>2. ASSUME NEW t \in Txn, booked'[t] # None,
               NEW id \in (booked'[t].accounts \cup {booked'[t].security}) \ {None}
        PROVE  row'[id] # None
    <3>1. CASE booked[t] # None /\ booked'[t] = booked[t]
      <4>1. row[id] # None /\ id \in A!Id
        BY <1>6, <2>2, <3>1, AccountsShapes DEF A!Booking
      <4> QED
        BY <1>14, <4>1
    <3>2. CASE o # None /\ t = o /\ booked'[t] = b
      BY <1>8, <1>15, <1>22, <2>2, <3>2 DEF StaysLive
    <3> QED
      BY <1>24, <2>2, <3>1, <3>2
  <2> QED
    BY <1>1, <1>4, <1>14, <1>16, <1>18, <1>23, <2>1, <2>2, AccountsShapes DEF A!TypeOK
<1> QED
  BY <1>16, <1>18, <1>19, <1>20, <1>21, <1>25, <1>27, <1>28, <1>29, <1>30 DEF AccountsInv

LEMMA AccountsNext ==
    ASSUME AccountsInv, A!Next
    PROVE  AccountsInv'
<1>1. \/ \E w \in Worker : A!Register(w) \/ A!Change(w) \/ A!Use(w) \/ A!Commit(w) \/ A!Fail(w)
      \/ \E t \in Txn : A!Unbook(t)
      \/ A!Restore
  BY DEF A!Next
<1>2. ASSUME NEW w \in Worker, A!Commit(w) PROVE AccountsInv'
  BY <1>2, CreateRowStep, UpdateRowStep, DeleteRowStep, CommitBookStep, CommitQuoteStep DEF A!Commit
<1> QED
  BY <1>1, <1>2, RegisterStep, ChangeStep, UseStep, FailedRequest, UnbookStep, RestoreStep

LEMMA AccountsStutter ==
    ASSUME AccountsInv, UNCHANGED accounts
    PROVE  AccountsInv'
<1>1. /\ TablesKept /\ job' = job /\ asked' = asked
  BY DEF accounts, TablesKept
<1>2. RequestsAreKnown' /\ DOMAIN job' = Worker /\ asked' \in 0..MaxRequests
  BY <1>1, AccountsShapes DEF AccountsInv, RequestsAreKnown
<1> QED
  BY <1>1, <1>2, AskingStep

\* Whatever dangles went through one of the gaps.
LEMMA OnlyThroughGaps ==
    ASSUME AccountsInv
    PROVE  A!NothingDangles
<1>1. ASSUME NEW a \in Account, A!IsLive(a), NEW g \in {row[a].group, row[a].limit} \ {None}, ~A!IsLive(g)
      PROVE  a \in crossed \/ (row[a] # None /\ {row[a].group, row[a].limit} \cap crossed # {})
  BY <1>1 DEF AccountsInv, GroupsAreInUse, LimitsAreInUse, A!IsLive
<1>2. ASSUME NEW i \in Inv, A!IsLive(i), NEW a \in A!Pair(i), ~A!IsLive(a)
      PROVE  A!Pair(i) \cap crossed # {}
  BY <1>2 DEF AccountsInv, PairsAreInUse
<1>3. ASSUME NEW a \in Account, A!Lined(a), ~A!IsLive(a) PROVE a \in crossed
  BY <1>3 DEF AccountsInv, BookingsAreInUse, A!Lined
<1>4. ASSUME NEW i \in Inv, ~A!IsLive(i), NEW t \in A!Booked, booked[t].inv = i PROVE i \in crossed
  <2>1. i # None
    BY Registry DEF A!Id
  <2> QED
    BY <1>4, <2>1 DEF AccountsInv, BookingsAreInUse
<1>5. ASSUME NEW s \in Security, A!Shares(s) > 0, ~A!IsLive(s) PROVE s \in crossed
  BY <1>5 DEF AccountsInv, SharesAreInUse
<1> QED
  BY <1>1, <1>2, <1>3, <1>4, <1>5 DEF A!NothingDangles, A!Dangling

RecordsInv == part = "accounts" => AccountsInv

LEMMA RecordsStart ==
    ASSUME BookInit
    PROVE  RecordsInv
BY AccountsInit DEF BookInit, RecordsInv

LEMMA RecordsStep ==
    ASSUME RecordsInv, [BookNext]_vars
    PROVE  RecordsInv'
<1>1. CASE part = "accounts" /\ A!Next /\ UNCHANGED part
  BY <1>1, AccountsNext DEF RecordsInv
<1>2. CASE UNCHANGED <<part, accounts>>
  BY <1>2, AccountsStutter DEF RecordsInv
<1>3. CASE part # "accounts" /\ UNCHANGED part
  BY <1>3 DEF RecordsInv
<1> QED
  BY <1>1, <1>2, <1>3 DEF BookNext, vars

\* What is in use refers to what is in use, other than through the gaps that the
\* handlers leave between their checks and their writes, and in one currency.
THEOREM RecordsHoldAlways == BookSpec => []RecordsHold
<1>1. BookInit => RecordsInv
  BY RecordsStart
<1>2. RecordsInv /\ [BookNext]_vars => RecordsInv'
  BY RecordsStep
<1>3. RecordsInv => RecordsHold
  BY OnlyThroughGaps DEF RecordsInv, AccountsInv, RecordsHold
<1> QED
  BY <1>1, <1>2, <1>3, PTL DEF BookSpec

\* Every row that a request changes is in the change feed with the version it has
\* (recordChange in mutations.ts).
THEOREM ChangesReported == BookSpec => []ChangesAreReported
<1>1. BookInit => RecordsInv /\ RecurringInv
  BY RecordsStart, RecurringStart
<1>2. RecordsInv /\ RecurringInv /\ [BookNext]_vars => RecordsInv' /\ RecurringInv'
  BY RecordsStep, RecurringStep
<1>3. RecordsInv /\ RecurringInv => ChangesAreReported
  BY DEF RecordsInv, AccountsInv, RecurringInv, RuleInv, ChangesAreReported
<1> QED
  BY <1>1, <1>2, <1>3, PTL DEF BookSpec

\* The records and the rules are of their types: the foreign keys of schema.ts hold,
\* across a restore too.
THEOREM BooksAreTyped == BookSpec => []TypeOK
<1>1. BookInit => RecordsInv /\ RecurringInv
  BY RecordsStart, RecurringStart
<1>2. RecordsInv /\ RecurringInv /\ [BookNext]_vars => RecordsInv' /\ RecurringInv'
  BY RecordsStep, RecurringStep
<1>3. RecordsInv /\ RecurringInv => TypeOK
  BY DEF RecordsInv, AccountsInv, RecurringInv, RuleInv, TypeOK
<1> QED
  BY <1>1, <1>2, <1>3, PTL DEF BookSpec

-------------------------------------------------------------------------------
(* Days of an era: the arithmetic of toSerialDay and fromSerialDay.        *)

\* The year fromSerialDay computes for a day of an era.
YearInEra(doe) == (doe - doe \div 1460 + doe \div 36524 - doe \div 146096) \div 365

\* A day of an era of 400 years from its century, its four years, its year and its day:
\* what toSerialDay counts and fromSerialDay takes apart again.
EraParts(c, q, r, doy) ==
    /\ c \in 0..3 /\ q \in 0..24 /\ r \in 0..3 /\ doy \in 0..365
    /\ doy = 365 => r = 3 /\ (q < 24 \/ c = 3)

EraDay(c, q, r, doy) == 36524 * c + 1461 * q + 365 * r + doy

\* The year computed for such a day is its own.
LEMMA YearOfEra ==
    ASSUME NEW c, NEW q, NEW r, NEW doy, EraParts(c, q, r, doy)
    PROVE  /\ EraDay(c, q, r, doy) \in Int
           /\ 0 <= EraDay(c, q, r, doy) /\ EraDay(c, q, r, doy) < 146097
           /\ YearInEra(EraDay(c, q, r, doy)) = 100 * c + 4 * q + r
<1> USE DEF EraParts
<1> DEFINE doe == 36524 * c + 1461 * q + 365 * r + doy
<1>1. doe \in Int /\ 0 <= doe /\ doe < 146097
  BY SMT
<1>2. doe \div 36524 = c \/ (doe \div 36524 = c + 1 /\ c = 3 /\ doe = 146096)
  BY SMT
<1>3. \/ doe \div 1460 = 25 * c + q
      \/ doe \div 1460 = 25 * c + q + 1 /\ 24 * c + q + 365 * r + doy >= 1460
  BY SMT
<1>4. doe \div 146096 = 0 \/ (doe \div 146096 = 1 /\ doe = 146096)
  BY SMT
<1>5. (doe - doe \div 1460 + doe \div 36524 - doe \div 146096) \div 365 = 100 * c + 4 * q + r
  BY <1>1, <1>2, <1>3, <1>4, SMTT(60)
<1> QED
  BY <1>1, <1>5, SMT DEF YearInEra, EraDay

\* The century, the four years, the year and the day of a day of an era.
CenturyOf(doe) == IF doe < 109572 THEN doe \div 36524 ELSE 3
DayOfCentury(doe) == doe - 36524 * CenturyOf(doe)
FourOf(doe) == DayOfCentury(doe) \div 1461
DayOfFour(doe) == DayOfCentury(doe) - 1461 * FourOf(doe)
YearOf(doe) == IF DayOfFour(doe) < 1095 THEN DayOfFour(doe) \div 365 ELSE 3
DayOf(doe) == DayOfFour(doe) - 365 * YearOf(doe)

\* Every day of an era is one of those.
LEMMA DayOfEra ==
    ASSUME NEW doe \in Int, 0 <= doe, doe < 146097
    PROVE  /\ EraParts(CenturyOf(doe), FourOf(doe), YearOf(doe), DayOf(doe))
           /\ doe = EraDay(CenturyOf(doe), FourOf(doe), YearOf(doe), DayOf(doe))
<1> DEFINE c == CenturyOf(doe)
           m == DayOfCentury(doe)
           q == FourOf(doe)
           s == DayOfFour(doe)
           r == YearOf(doe)
           d == DayOf(doe)
<1>1. c \in 0..3 /\ m \in Int /\ doe = 36524 * c + m /\ 0 <= m /\ m <= 36524 /\ (m = 36524 => c = 3)
  BY SMT DEF CenturyOf, DayOfCentury
<1>2. q = m \div 1461 /\ s = m - 1461 * q
  BY SMT DEF FourOf, DayOfFour
<1>3. r = (IF s < 1095 THEN s \div 365 ELSE 3) /\ d = s - 365 * r
  BY SMT DEF YearOf, DayOf
<1> HIDE DEF c, m, q, s, r, d
<1>4. q \in 0..24 /\ s \in 0..1460 /\ m = 1461 * q + s /\ (s = 1460 => q < 24 \/ c = 3)
  BY <1>1, <1>2, SMT
<1>5. r \in 0..3 /\ d \in 0..365 /\ s = 365 * r + d /\ (d = 365 => r = 3 /\ s = 1460)
  BY <1>3, <1>4, SMT
<1>6. doe = 36524 * c + 1461 * q + 365 * r + d /\ (d = 365 => r = 3 /\ (q < 24 \/ c = 3))
  BY <1>1, <1>4, <1>5, SMT
<1> QED
  BY <1>1, <1>4, <1>5, <1>6, SMT DEF c, q, r, d, EraDay, EraParts

\* The day of the year on which a month begins, counted from March.
Offset(mp) == (153 * mp + 2) \div 5

\* The length of a month, counted from March, in a year that ends in a long February.
Length(mp) == IF mp \in {1, 3, 6, 8} THEN 30 ELSE IF mp = 11 THEN 29 ELSE 31

\* The month and the day of the month fromSerialDay computes for a day of the year.
LEMMA DayOfYear ==
    ASSUME NEW doy \in 0..365
    PROVE  LET mp == (5 * doy + 2) \div 153 IN
           /\ mp \in 0..11
           /\ doy - Offset(mp) + 1 \in 1..31
           /\ doy - Offset(mp) + 1 <= Length(mp)
           /\ doy = 365 <=> mp = 11 /\ doy - Offset(mp) + 1 = 29
<1> DEFINE mp == (5 * doy + 2) \div 153
<1>1. mp \in {0, 1, 2, 3, 4, 5, 6, 7, 8, 9, 10, 11} /\ 153 * mp <= 5 * doy + 2 /\ 5 * doy + 2 < 153 * mp + 153
  BY SMT
<1> HIDE DEF mp
<1>2. /\ doy - Offset(mp) + 1 \in 1..31
      /\ doy - Offset(mp) + 1 <= Length(mp)
      /\ doy = 365 <=> mp = 11 /\ doy - Offset(mp) + 1 = 29
  BY <1>1, SMT DEF Offset, Length
<1> QED
  BY <1>1, <1>2, SMT DEF mp

\* The leap days before March of a year, and that they never become fewer.
LeapDays(y) == y \div 4 - y \div 100 + y \div 400

LEMMA LeapDaysGrow ==
    ASSUME NEW y \in Int, NEW z \in Int, y <= z
    PROVE  LeapDays(y) \in Int /\ LeapDays(y) <= LeapDays(z)
  BY SMT DEF LeapDays

\* A year with a 29th of February.
IsLeap(y) == (y % 4 = 0 /\ y % 100 # 0) \/ y % 400 = 0

-------------------------------------------------------------------------------
(* Serial days and civil dates are the same days.                          *)

\* The year a month belongs to when years begin in March, and its place in it.
MarchYear(y, m) == IF m <= 2 THEN y - 1 ELSE y
FromMarch(m) == IF m > 2 THEN m - 3 ELSE m + 9

\* toSerialDay is linear in the day and in the day its month begins on.
LEMMA SerialForm ==
    ASSUME NEW d, d.year \in Int, d.month \in 1..12, d.day \in Int
    PROVE  LET Y == MarchYear(d.year, d.month)
               mp == FromMarch(d.month)
           IN  /\ Y \in Int /\ mp \in 0..11
               /\ C!ToSerialDay(d) = 365 * Y + LeapDays(Y) + Offset(mp) + d.day - 719469
               /\ C!ToSerialDay(d) \in Int
<1> DEFINE y == d.year - (IF d.month <= 2 THEN 1 ELSE 0)
           mp == d.month + (IF d.month > 2 THEN -3 ELSE 9)
           era == y \div 400
           yoe == y - era * 400
           doy == (153 * mp + 2) \div 5 + d.day - 1
           doe == yoe * 365 + yoe \div 4 - yoe \div 100 + doy
<1>1. C!ToSerialDay(d) = era * 146097 + doe - 719468
  BY SMT DEF C!ToSerialDay
<1>2. y = MarchYear(d.year, d.month) /\ mp = FromMarch(d.month) /\ y \in Int /\ mp \in 0..11
  BY SMT DEF MarchYear, FromMarch
<1>3. doy = Offset(mp) + d.day - 1
  BY SMT DEF Offset
<1> HIDE DEF y, mp, doy
<1>4. yoe \in 0..399 /\ era * 146097 + yoe * 365 + yoe \div 4 - yoe \div 100 = 365 * y + LeapDays(y)
  BY <1>2, SMT DEF LeapDays
<1>5. era \in Int /\ yoe \div 4 \in Int /\ yoe \div 100 \in Int /\ LeapDays(y) \in Int /\ Offset(mp) \in Int
  BY <1>2, SMT DEF LeapDays, Offset
<1> HIDE DEF era, yoe
<1>6. C!ToSerialDay(d) = 365 * y + LeapDays(y) + Offset(mp) + d.day - 719469
  BY <1>1, <1>2, <1>3, <1>4, <1>5, SMT
<1>7. C!ToSerialDay(d) \in Int
  BY <1>2, <1>5, <1>6, SMT
<1> QED
  BY <1>2, <1>6, <1>7, SMT

\* What a civil date is made of.
LEMMA DateShape ==
    ASSUME NEW d \in C!CivilDate
    PROVE  /\ d.year \in Int /\ d.month \in 1..12 /\ d.day \in 1..31
           /\ d.day <= C!DaysInMonth(d.year, d.month)
           /\ d = C!Date(d.year, d.month, d.day)
  BY SMT DEF C!CivilDate, C!Date

\* A month has the days its length from March and the leap days give it.
LEMMA MonthLength ==
    ASSUME NEW y \in Int, NEW m \in 1..12
    PROVE  /\ C!DaysInMonth(y, m) \in 28..31
           /\ FromMarch(m) # 11 => C!DaysInMonth(y, m) = Length(FromMarch(m))
           /\ FromMarch(m) = 11 => C!DaysInMonth(y, m) = IF IsLeap(y) THEN 29 ELSE 28
           /\ FromMarch(m) = 11 <=> m = 2
  BY SMT DEF C!DaysInMonth, C!IsLeapYear, IsLeap, FromMarch, Length

\* fromSerialDay goes back from those.
LEMMA MarchYearBack ==
    ASSUME NEW Y \in Int, NEW mp \in 0..11
    PROVE  LET m == mp + (IF mp < 10 THEN 3 ELSE -9)
               y == Y + (IF m <= 2 THEN 1 ELSE 0)
           IN  m \in 1..12 /\ y \in Int /\ FromMarch(m) = mp /\ MarchYear(y, m) = Y
  BY SMT DEF FromMarch, MarchYear

\* Which year of an era is a leap year, the year ending in February.
LEMMA LeapYearOfEra ==
    ASSUME NEW era \in Int, NEW c \in 0..3, NEW q \in 0..24, NEW r \in 0..3
    PROVE  IsLeap(400 * era + 100 * c + 4 * q + r + 1) <=> r = 3 /\ (q < 24 \/ c = 3)
  BY SMT DEF IsLeap

\* A day of a year of an era, and the date it is.
LEMMA DateOfParts ==
    ASSUME NEW era \in Int, NEW c, NEW q, NEW r, NEW doy, EraParts(c, q, r, doy),
           NEW n, n = 146097 * era + EraDay(c, q, r, doy) - 719468
    PROVE  LET Y == 400 * era + 100 * c + 4 * q + r
               mp == (5 * doy + 2) \div 153
               m == mp + (IF mp < 10 THEN 3 ELSE -9)
           IN  C!FromSerialDay(n) = C!Date(Y + (IF m <= 2 THEN 1 ELSE 0), m, doy - Offset(mp) + 1)
<1>0. c \in 0..3 /\ q \in 0..24 /\ r \in 0..3 /\ doy \in 0..365
  BY SMT DEF EraParts
<1> DEFINE z == n + 719468
           e == z \div 146097
           doe == z - e * 146097
           yoe == (doe - doe \div 1460 + doe \div 36524 - doe \div 146096) \div 365
           dy == doe - (365 * yoe + yoe \div 4 - yoe \div 100)
           mp == (5 * dy + 2) \div 153
           m == mp + (IF mp < 10 THEN 3 ELSE -9)
<1>1. C!FromSerialDay(n)
        = C!Date(yoe + e * 400 + (IF m <= 2 THEN 1 ELSE 0), m, dy - (153 * mp + 2) \div 5 + 1)
  BY <1>0, SMT DEF C!FromSerialDay
<1>2. z = 146097 * era + EraDay(c, q, r, doy) /\ z \in Int
  BY <1>0, SMT DEF EraDay
<1> DEFINE k == EraDay(c, q, r, doy)
<1>3. k \in Int /\ 0 <= k /\ k < 146097 /\ YearInEra(k) = 100 * c + 4 * q + r
  BY YearOfEra, SMT
<1>4. z = 146097 * era + k
  BY <1>0, <1>2, SMT DEF EraDay
<1>5. k - (365 * (100 * c + 4 * q + r) + 25 * c + q - c) = doy
  BY <1>0, SMT DEF EraDay
<1> HIDE DEF z, k
<1>6. e = era /\ doe = k
  BY <1>0, <1>2, <1>3, <1>4, SMT
<1>7. yoe = YearInEra(doe)
  BY <1>0, SMT DEF YearInEra
<1> HIDE DEF e, doe, yoe
<1>8. yoe = 100 * c + 4 * q + r
  BY <1>0, <1>3, <1>6, <1>7, SMT
<1>9. yoe \div 4 = 25 * c + q /\ yoe \div 100 = c
  BY <1>0, <1>8, SMT
<1>10. dy = doy
  BY <1>0, <1>5, <1>6, <1>8, <1>9, SMT
<1>11. yoe + e * 400 = 400 * era + 100 * c + 4 * q + r
  BY <1>0, <1>6, <1>8, SMT
<1> HIDE DEF dy
<1>12. mp = (5 * doy + 2) \div 153 /\ (153 * mp + 2) \div 5 = Offset(mp)
  BY <1>0, <1>10, SMT DEF Offset
<1> HIDE DEF mp
<1>13. m = mp + (IF mp < 10 THEN 3 ELSE -9)
  BY <1>0, SMT
<1> HIDE DEF m
<1>14. C!FromSerialDay(n)
        = C!Date(400 * era + 100 * c + 4 * q + r + (IF m <= 2 THEN 1 ELSE 0), m,
                 doy - Offset(mp) + 1)
  BY <1>0, <1>1, <1>10, <1>11, <1>12, SMT
<1> QED
  BY <1>0, <1>12, <1>13, <1>14, SMT

\* ... and the day that date is.
LEMMA SerialOfParts ==
    ASSUME NEW era \in Int, NEW c, NEW q, NEW r, NEW doy, EraParts(c, q, r, doy),
           NEW Y, Y = 400 * era + 100 * c + 4 * q + r
    PROVE  365 * Y + LeapDays(Y) + doy = 146097 * era + EraDay(c, q, r, doy)
  BY SMT DEF LeapDays, EraDay, EraParts

\* fromSerialDay gives a date, and the date it gives is the day.
LEMMA DateOfSerial ==
    ASSUME NEW n \in Int
    PROVE  C!FromSerialDay(n) \in C!CivilDate /\ C!ToSerialDay(C!FromSerialDay(n)) = n
<1> DEFINE era == (n + 719468) \div 146097
           doe == n + 719468 - 146097 * era
           c == CenturyOf(doe)
           q == FourOf(doe)
           r == YearOf(doe)
           doy == DayOf(doe)
<1>1. era \in Int /\ doe \in Int /\ 0 <= doe /\ doe < 146097 /\ n = 146097 * era + doe - 719468
  BY SMT
<1> HIDE DEF era, doe
<1>p. EraParts(c, q, r, doy) /\ doe = EraDay(c, q, r, doy)
  BY <1>1, DayOfEra, SMT
<1>2. /\ c \in 0..3 /\ q \in 0..24 /\ r \in 0..3 /\ doy \in 0..365
      /\ doy = 365 => r = 3 /\ (q < 24 \/ c = 3)
  BY <1>p, SMT DEF EraParts
<1> HIDE DEF c, q, r, doy
<1> DEFINE Y == 400 * era + 100 * c + 4 * q + r
           mp == (5 * doy + 2) \div 153
           m == mp + (IF mp < 10 THEN 3 ELSE -9)
           y == Y + (IF m <= 2 THEN 1 ELSE 0)
           day == doy - Offset(mp) + 1
           d == C!Date(y, m, day)
<1>3. C!FromSerialDay(n) = d
  <2>1. n = 146097 * era + EraDay(c, q, r, doy) - 719468
    BY <1>1, <1>p, SMTT(60)
  <2> QED
    BY <1>1, <1>p, <2>1, DateOfParts, SMT
<1>4. mp \in 0..11 /\ day \in 1..31 /\ day <= Length(mp) /\ (doy = 365 <=> mp = 11 /\ day = 29)
  BY <1>2, DayOfYear, SMT
<1>5. Y \in Int /\ (IsLeap(Y + 1) <=> r = 3 /\ (q < 24 \/ c = 3))
  BY <1>1, <1>2, LeapYearOfEra, SMTT(60)
<1>6. 365 * Y + LeapDays(Y) + doy = 146097 * era + EraDay(c, q, r, doy)
  BY <1>1, <1>p, SerialOfParts, SMT
<1>7. doy = Offset(mp) + day - 1 /\ Offset(mp) \in Int
  BY <1>2, <1>4, SMT DEF Offset
<1> HIDE DEF Y, mp, day
<1>8. m \in 1..12 /\ y \in Int /\ FromMarch(m) = mp /\ MarchYear(y, m) = Y
  BY <1>4, <1>5, MarchYearBack, SMT
<1>9. y = Y + (IF m <= 2 THEN 1 ELSE 0)
  BY SMT
<1> HIDE DEF m, y
<1>10. day <= C!DaysInMonth(y, m)
  <2>1. CASE mp # 11
    BY <1>4, <1>8, <2>1, MonthLength, SMT
  <2>2. CASE mp = 11
    <3>1. m = 2 /\ C!DaysInMonth(y, m) = IF IsLeap(y) THEN 29 ELSE 28
      BY <1>8, <2>2, MonthLength, SMT
    <3>2. day <= 29 /\ (day = 29 => IsLeap(y))
      BY <1>2, <1>4, <1>5, <1>9, <2>2, <3>1, SMT DEF Length
    <3> QED
      BY <1>4, <3>1, <3>2, SMT
  <2> QED
    BY <2>1, <2>2, SMT
<1>11. d \in C!CivilDate /\ d.year = y /\ d.month = m /\ d.day = day
  BY <1>4, <1>8, <1>10, SMT DEF C!CivilDate, C!Date
<1> HIDE DEF d
<1>12. C!ToSerialDay(d) = 365 * Y + LeapDays(Y) + Offset(mp) + day - 719469
  BY <1>4, <1>8, <1>11, SerialForm, SMT
<1>13. C!ToSerialDay(d) = n
  BY <1>1, <1>p, <1>4, <1>5, <1>6, <1>7, <1>12, SMT DEF LeapDays
<1> QED
  BY <1>3, <1>11, <1>13, SMT

\* Months, counted on from year to year.
Index(y, m) == 12 * y + m
IndexOf(d) == 12 * d.year + d.month

\* The day before the first of a month.
Eve(y, m) == 365 * MarchYear(y, m) + LeapDays(MarchYear(y, m)) + Offset(FromMarch(m)) - 719469

\* The serial day of a date is its day after that eve.
LEMMA SerialInMonth ==
    ASSUME NEW d \in C!CivilDate
    PROVE  /\ C!ToSerialDay(d) = Eve(d.year, d.month) + d.day
           /\ Eve(d.year, d.month) \in Int /\ C!ToSerialDay(d) \in Int
<1>1. d.year \in Int /\ d.month \in 1..12 /\ d.day \in 1..31
  BY DateShape, SMT
<1>2. Eve(d.year, d.month) \in Int
  BY <1>1, SMT DEF Eve, MarchYear, FromMarch, LeapDays, Offset
<1>3. C!ToSerialDay(d) = Eve(d.year, d.month) + d.day /\ C!ToSerialDay(d) \in Int
  <2>1. LET Y == MarchYear(d.year, d.month)
            mp == FromMarch(d.month)
        IN  /\ Y \in Int /\ mp \in 0..11
            /\ C!ToSerialDay(d) = 365 * Y + LeapDays(Y) + Offset(mp) + d.day - 719469
            /\ C!ToSerialDay(d) \in Int
    BY <1>1, SerialForm, SMT
  <2>2. LeapDays(MarchYear(d.year, d.month)) \in Int /\ Offset(FromMarch(d.month)) \in Int
    BY <2>1, SMT DEF LeapDays, Offset
  <2> QED
    BY <1>1, <2>1, <2>2, SMT DEF Eve
<1> QED
  BY <1>2, <1>3, SMT

\* A later month begins after the last day of an earlier one.
LEMMA EvesGrow ==
    ASSUME NEW y \in Int, NEW m \in 1..12, NEW z \in Int, NEW n \in 1..12,
           Index(y, m) < Index(z, n)
    PROVE  Eve(y, m) \in Int /\ Eve(z, n) \in Int /\ Eve(y, m) + C!DaysInMonth(y, m) <= Eve(z, n)
<1> DEFINE Y == MarchYear(y, m)
           Z == MarchYear(z, n)
           mp == FromMarch(m)
           np == FromMarch(n)
<1>1. /\ Y \in Int /\ Z \in Int /\ mp \in 0..11 /\ np \in 0..11
      /\ Y < Z \/ (Y = Z /\ mp < np)
  BY SMT DEF MarchYear, FromMarch, Index
<1>2. /\ mp # 11 => C!DaysInMonth(y, m) = Length(mp)
      /\ mp = 11 => C!DaysInMonth(y, m) = (IF IsLeap(Y + 1) THEN 29 ELSE 28)
  <2>1. mp = 11 => y = Y + 1
    BY SMT DEF MarchYear, FromMarch
  <2> QED
    BY <2>1, MonthLength, SMT
<1>3. Eve(y, m) = 365 * Y + LeapDays(Y) + Offset(mp) - 719469
  BY SMT DEF Eve
<1>4. Eve(z, n) = 365 * Z + LeapDays(Z) + Offset(np) - 719469
  BY SMT DEF Eve
<1> HIDE DEF Y, Z, mp, np
<1> DEFINE e == Eve(y, m)
           f == Eve(z, n)
           len == C!DaysInMonth(y, m)
           o == Offset(mp)
           p == Offset(np)
           l == LeapDays(Y)
           k == LeapDays(Z)
<1>5. l \in Int /\ k \in Int /\ o \in 0..337 /\ p \in 0..337 /\ len \in 28..31
  <2>1. len \in 28..31
    BY MonthLength, SMT
  <2> QED
    BY <1>1, <2>1, SMT DEF LeapDays, Offset
<1>6. e = 365 * Y + l + o - 719469 /\ f = 365 * Z + k + p - 719469
  BY <1>3, <1>4, SMT
<1>7. Y = Z => k = l /\ o + len <= p
  <2> SUFFICES ASSUME Y = Z PROVE k = l /\ o + len <= p
    BY SMT
  <2>1. mp < np /\ mp # 11
    BY <1>1, SMT
  <2>2. len = Length(mp)
    BY <1>2, <2>1, SMT
  <2>3. Offset(mp) + Length(mp) <= Offset(np)
    BY <1>1, <2>1, SMT DEF Offset, Length
  <2> QED
    BY <2>2, <2>3, SMT
<1>8. Y < Z => o + l + len <= 365 + k
  <2> SUFFICES ASSUME Y < Z PROVE o + l + len <= 365 + k
    BY SMT
  <2>1. LeapDays(Y) + (IF IsLeap(Y + 1) THEN 1 ELSE 0) = LeapDays(Y + 1) /\ LeapDays(Y + 1) \in Int
    BY <1>1, SMT DEF LeapDays, IsLeap
  <2>2. LeapDays(Y + 1) <= LeapDays(Z) /\ LeapDays(Y) <= LeapDays(Z)
    BY <1>1, LeapDaysGrow, SMT
  <2>3. CASE mp = 11
    <3>1. Offset(11) = 337
      BY SMT DEF Offset
    <3>2. len = IF IsLeap(Y + 1) THEN 29 ELSE 28
      BY <1>2, <2>3, SMT
    <3> HIDE DEF len
    <3> QED
      BY <1>5, <2>1, <2>2, <2>3, <3>1, <3>2, SMT
  <2>4. CASE mp # 11
    <3>1. len = Length(mp)
      BY <1>2, <2>4, SMT
    <3>2. Offset(mp) + Length(mp) <= 337 /\ Length(mp) \in Int
      BY <1>1, <2>4, SMT DEF Offset, Length
    <3>3. o + len <= 337
      BY <3>1, <3>2, SMT
    <3>4. l <= k
      BY <2>2, SMT
    <3> HIDE DEF len, o, l, k
    <3> QED
      BY <1>5, <3>3, <3>4, SMT
  <2> QED
    BY <2>3, <2>4, SMT
<1> HIDE DEF e, f, len, o, p, l, k
<1>9. e \in Int /\ f \in Int /\ e + len <= f
  <2>1. e \in Int /\ f \in Int
    BY <1>1, <1>5, <1>6, SMT
  <2>2. CASE Y = Z
    BY <1>1, <1>5, <1>6, <1>7, <2>2, SMT
  <2>3. CASE Y < Z
    BY <1>1, <1>5, <1>6, <1>8, <2>3, SMT
  <2> QED
    BY <1>1, <2>1, <2>2, <2>3, SMT
<1> QED
  BY <1>9, SMT DEF e, f, len

\* The next month begins when this one has ended.
LEMMA NextEve ==
    ASSUME NEW y \in Int, NEW m \in 1..12, NEW z \in Int, NEW n \in 1..12,
           Index(z, n) = Index(y, m) + 1
    PROVE  Eve(z, n) = Eve(y, m) + C!DaysInMonth(y, m)
<1> DEFINE Y == MarchYear(y, m)
           mp == FromMarch(m)
<1>1. /\ Y \in Int /\ mp \in 0..11
      /\ mp # 11 => MarchYear(z, n) = Y /\ FromMarch(n) = mp + 1
      /\ mp = 11 => MarchYear(z, n) = Y + 1 /\ FromMarch(n) = 0 /\ y = Y + 1
  BY SMT DEF MarchYear, FromMarch, Index
<1>2. /\ mp # 11 => C!DaysInMonth(y, m) = Length(mp)
      /\ mp = 11 => C!DaysInMonth(y, m) = (IF IsLeap(Y + 1) THEN 29 ELSE 28)
  BY <1>1, MonthLength, SMT
<1>3. Eve(y, m) = 365 * Y + LeapDays(Y) + Offset(mp) - 719469
  BY SMT DEF Eve
<1> HIDE DEF Y, mp
<1>4. CASE mp # 11
  <2>1. Offset(mp + 1) = Offset(mp) + Length(mp) /\ Length(mp) \in Int /\ Offset(mp) \in Int /\ LeapDays(Y) \in Int
    BY <1>1, <1>4, SMT DEF Offset, Length, LeapDays
  <2>2. Eve(z, n) = 365 * Y + LeapDays(Y) + Offset(mp + 1) - 719469
    BY <1>1, <1>4, SMT DEF Eve
  <2> QED
    BY <1>1, <1>2, <1>3, <1>4, <2>1, <2>2, SMT
<1>5. CASE mp = 11
  <2>1. LeapDays(Y) + (IF IsLeap(Y + 1) THEN 1 ELSE 0) = LeapDays(Y + 1) /\ LeapDays(Y) \in Int
    BY <1>1, SMT DEF LeapDays, IsLeap
  <2>2. Offset(0) = 0 /\ Offset(11) = 337
    BY SMT DEF Offset
  <2>3. Eve(z, n) = 365 * (Y + 1) + LeapDays(Y + 1) + Offset(0) - 719469
    BY <1>1, <1>5, SMT DEF Eve
  <2> QED
    BY <1>1, <1>2, <1>3, <1>5, <2>1, <2>2, <2>3, SMT
<1> QED
  BY <1>4, <1>5, SMT

\* compareCivilDates compares month by month and day by day.
LEMMA BeforeIs ==
    ASSUME NEW a \in C!CivilDate, NEW b \in C!CivilDate
    PROVE  C!Before(a, b) <=> \/ IndexOf(a) < IndexOf(b)
                              \/ IndexOf(a) = IndexOf(b) /\ a.day < b.day
<1>1. /\ a.year \in Int /\ a.month \in 1..12 /\ a.day \in 1..31 /\ a.day <= C!DaysInMonth(a.year, a.month)
      /\ b.year \in Int /\ b.month \in 1..12 /\ b.day \in 1..31 /\ b.day <= C!DaysInMonth(b.year, b.month)
  BY DateShape, SMT
<1>2. /\ C!ToSerialDay(a) = Eve(a.year, a.month) + a.day /\ Eve(a.year, a.month) \in Int
      /\ C!ToSerialDay(b) = Eve(b.year, b.month) + b.day /\ Eve(b.year, b.month) \in Int
  BY SerialInMonth, SMT
<1>3. C!DaysInMonth(a.year, a.month) \in 28..31 /\ C!DaysInMonth(b.year, b.month) \in 28..31
  BY <1>1, MonthLength, SMT
<1>0. Index(a.year, a.month) = IndexOf(a) /\ Index(b.year, b.month) = IndexOf(b)
  BY SMT DEF Index, IndexOf
<1>4. CASE IndexOf(a) < IndexOf(b)
  <2>1. Eve(a.year, a.month) + C!DaysInMonth(a.year, a.month) <= Eve(b.year, b.month)
    <3> DEFINE y == a.year  m == a.month  z == b.year  n == b.month
    <3>1. y \in Int /\ m \in 1..12 /\ z \in Int /\ n \in 1..12 /\ Index(y, m) < Index(z, n)
      BY <1>0, <1>1, <1>4, SMT
    <3> HIDE DEF y, m, z, n
    <3>2. Eve(y, m) + C!DaysInMonth(y, m) <= Eve(z, n)
      BY <3>1, EvesGrow, Zenon
    <3> QED
      BY <3>2, SMT DEF y, m, z, n
  <2> QED
    BY <1>1, <1>2, <1>3, <1>4, <2>1, SMT DEF C!Before
<1>5. CASE IndexOf(b) < IndexOf(a)
  <2>1. Eve(b.year, b.month) + C!DaysInMonth(b.year, b.month) <= Eve(a.year, a.month)
    <3> DEFINE y == b.year  m == b.month  z == a.year  n == a.month
    <3>1. y \in Int /\ m \in 1..12 /\ z \in Int /\ n \in 1..12 /\ Index(y, m) < Index(z, n)
      BY <1>0, <1>1, <1>5, SMT
    <3> HIDE DEF y, m, z, n
    <3>2. Eve(y, m) + C!DaysInMonth(y, m) <= Eve(z, n)
      BY <3>1, EvesGrow, Zenon
    <3> QED
      BY <3>2, SMT DEF y, m, z, n
  <2>2. ~C!Before(a, b)
    BY <1>1, <1>2, <1>3, <2>1, SMT DEF C!Before
  <2>3. ~(IndexOf(a) < IndexOf(b)) /\ IndexOf(a) # IndexOf(b)
    BY <1>1, <1>5, SMT DEF IndexOf
  <2> QED
    BY <2>2, <2>3, SMT
<1>6. CASE IndexOf(a) = IndexOf(b)
  <2>1. a.year = b.year /\ a.month = b.month /\ ~(IndexOf(a) < IndexOf(b))
    BY <1>1, <1>6, SMTT(60) DEF IndexOf
  <2>2. C!Before(a, b) <=> a.day < b.day
    BY <1>1, <1>2, <2>1, SMT DEF C!Before
  <2> QED
    BY <1>6, <2>1, <2>2, SMT
<1>7. IndexOf(a) \in Int /\ IndexOf(b) \in Int
  BY <1>1, SMT DEF IndexOf
<1> QED
  BY <1>4, <1>5, <1>6, <1>7, SMT

\* Two dates with the same serial day are one.
LEMMA OneDateOfADay ==
    ASSUME NEW a \in C!CivilDate, NEW b \in C!CivilDate, C!ToSerialDay(a) = C!ToSerialDay(b)
    PROVE  a = b
<1>1. /\ a.year \in Int /\ a.month \in 1..12 /\ a.day \in 1..31 /\ a = C!Date(a.year, a.month, a.day)
      /\ b.year \in Int /\ b.month \in 1..12 /\ b.day \in 1..31 /\ b = C!Date(b.year, b.month, b.day)
  BY DateShape, SMT
<1>2. ~C!Before(a, b) /\ ~C!Before(b, a)
  <2>1. C!ToSerialDay(a) \in Int /\ C!ToSerialDay(b) \in Int
    BY SerialInMonth, SMT
  <2> QED
    BY <2>1, SMT DEF C!Before
<1>3. IndexOf(a) = IndexOf(b) /\ a.day = b.day
  <2>1. IndexOf(a) \in Int /\ IndexOf(b) \in Int
    BY <1>1, SMT DEF IndexOf
  <2> QED
    BY <1>1, <1>2, <2>1, BeforeIs, SMT
<1>4. a.year = b.year /\ a.month = b.month
  BY <1>1, <1>3, SMT DEF IndexOf
<1> QED
  BY <1>1, <1>3, <1>4, SMT

\* fromSerialDay undoes toSerialDay.
LEMMA SerialOfDate ==
    ASSUME NEW d \in C!CivilDate
    PROVE  C!FromSerialDay(C!ToSerialDay(d)) = d
<1>1. C!ToSerialDay(d) \in Int
  BY SerialInMonth, SMT
<1>2. /\ C!FromSerialDay(C!ToSerialDay(d)) \in C!CivilDate
      /\ C!ToSerialDay(C!FromSerialDay(C!ToSerialDay(d))) = C!ToSerialDay(d)
  BY <1>1, DateOfSerial, SMT
<1> QED
  BY <1>2, OneDateOfADay, SMT

\* A date is known by its month and its day.
LEMMA SameDate ==
    ASSUME NEW a \in C!CivilDate, NEW b \in C!CivilDate, IndexOf(a) = IndexOf(b), a.day = b.day
    PROVE  a = b
<1>1. /\ a.year \in Int /\ a.month \in 1..12 /\ a = C!Date(a.year, a.month, a.day)
      /\ b.year \in Int /\ b.month \in 1..12 /\ b = C!Date(b.year, b.month, b.day)
  BY DateShape, SMT
<1>2. a.year = b.year /\ a.month = b.month
  BY <1>1, SMT DEF IndexOf
<1> QED
  BY <1>1, <1>2, SMT

\* Months, days and serial days are numbers.
LEMMA IndexShape ==
    ASSUME NEW d \in C!CivilDate
    PROVE  IndexOf(d) \in Int /\ d.day \in Int /\ C!ToSerialDay(d) \in Int
<1>1. d.year \in Int /\ d.month \in 1..12 /\ d.day \in 1..31
  BY DateShape, SMT
<1>2. C!ToSerialDay(d) \in Int
  BY SerialInMonth, SMT
<1> QED
  BY <1>1, <1>2, SMT DEF IndexOf

\* A day a month does not have becomes its last one.
Clamped(y, m, k) == IF k <= C!DaysInMonth(y, m) THEN k ELSE C!DaysInMonth(y, m)

\* clampToMonthEnd gives a date of the month it is asked for.
LEMMA ClampShape ==
    ASSUME NEW y \in Int, NEW m \in 1..12, NEW k \in 1..31
    PROVE  LET d == C!ClampToMonthEnd(y, m, k) IN
           /\ d \in C!CivilDate /\ d.year = y /\ d.month = m /\ d.day = Clamped(y, m, k)
           /\ IndexOf(d) = Index(y, m)
<1> DEFINE d == C!ClampToMonthEnd(y, m, k)
           n == Clamped(y, m, k)
<1>1. C!DaysInMonth(y, m) \in 28..31
  BY MonthLength, SMT
<1>2. n \in 1..31 /\ n <= C!DaysInMonth(y, m)
  BY <1>1, SMT DEF Clamped
<1>3. d = C!Date(y, m, n)
  BY SMT DEF C!ClampToMonthEnd, Clamped
<1> HIDE DEF d, n
<1>4. d \in C!CivilDate /\ d.year = y /\ d.month = m /\ d.day = n
  BY <1>2, <1>3, SMT DEF C!CivilDate, C!Date
<1> QED
  BY <1>4, SMT DEF d, n, IndexOf, Index

\* addDays moves by as many days as it is told.
LEMMA AddDaysIs ==
    ASSUME NEW d \in C!CivilDate, NEW n \in Int
    PROVE  /\ C!AddDays(d, n) \in C!CivilDate
           /\ C!ToSerialDay(C!AddDays(d, n)) = C!ToSerialDay(d) + n
<1>1. C!ToSerialDay(d) + n \in Int
  BY IndexShape, SMT
<1> QED
  BY <1>1, DateOfSerial, SMT DEF C!AddDays

\* One day on is the day the calendar says, and after the last day of a month a 1st.
LEMMA TomorrowIs ==
    ASSUME NEW d \in C!CivilDate
    PROVE  /\ C!Tomorrow(d) \in C!CivilDate
           /\ C!ToSerialDay(C!Tomorrow(d)) = C!ToSerialDay(d) + 1
           /\ C!AddDays(d, 1) = C!Tomorrow(d)
           /\ d.day = C!DaysInMonth(d.year, d.month) => C!Tomorrow(d).day = 1
<1> DEFINE len == C!DaysInMonth(d.year, d.month)
           y == IF d.day < len \/ d.month < 12 THEN d.year ELSE d.year + 1
           m == IF d.day < len THEN d.month ELSE IF d.month < 12 THEN d.month + 1 ELSE 1
           n == IF d.day < len THEN d.day + 1 ELSE 1
           t == C!Date(y, m, n)
<1>1. d.year \in Int /\ d.month \in 1..12 /\ d.day \in 1..31 /\ d.day <= len
      /\ d = C!Date(d.year, d.month, d.day)
  BY DateShape, SMT
<1>2. len \in 28..31
  BY <1>1, MonthLength, SMT
<1>3. C!Tomorrow(d) = t
  <2> DEFINE last == CASE d.month \in {1, 3, 5, 7, 8, 10, 12} -> 31
                       [] d.month \in {4, 6, 9, 11} -> 30
                       [] d.month = 2 /\ d.year % 4 = 0 /\ (d.year % 100 = 0 => d.year % 400 = 0) -> 29
                       [] OTHER -> 28
  <2>1. last = len
    BY <1>1, SMT DEF C!DaysInMonth, C!IsLeapYear
  <2>2. C!Tomorrow(d) = IF d.day < last THEN [d EXCEPT !.day = d.day + 1]
                        ELSE IF d.month < 12 THEN C!Date(d.year, d.month + 1, 1)
                        ELSE C!Date(d.year + 1, 1, 1)
    BY SMT DEF C!Tomorrow
  <2> HIDE DEF last, len
  <2>3. CASE d.day < len
    <3>1. [d EXCEPT !.day = d.day + 1] = C!Date(d.year, d.month, d.day + 1)
      BY <1>1, SMT DEF C!CivilDate, C!Date
    <3> QED
      BY <2>1, <2>2, <2>3, <3>1, SMT
  <2>4. CASE ~(d.day < len)
    BY <1>1, <2>1, <2>2, <2>4, SMT
  <2> QED
    BY <2>3, <2>4, SMT
<1>4. y \in Int /\ m \in 1..12 /\ n \in 1..31
  BY <1>1, <1>2, SMT
<1>5. d.day < len => y = d.year /\ m = d.month /\ n = d.day + 1
  BY SMT
<1>6. ~(d.day < len) => Index(y, m) = Index(d.year, d.month) + 1 /\ n = 1
  BY <1>1, SMT DEF Index
<1> HIDE DEF y, m, n, len
<1>7. n <= C!DaysInMonth(y, m)
  <2>1. C!DaysInMonth(y, m) \in 28..31
    BY <1>4, MonthLength, SMT
  <2>2. CASE d.day < len
    BY <1>1, <1>2, <1>5, <2>2, SMT DEF len
  <2>3. CASE ~(d.day < len)
    BY <1>6, <2>1, <2>3, SMT
  <2> QED
    BY <2>2, <2>3, SMT
<1>8. t \in C!CivilDate /\ t.year = y /\ t.month = m /\ t.day = n
  BY <1>4, <1>7, SMT DEF C!CivilDate, C!Date
<1> HIDE DEF t
<1>9. /\ C!ToSerialDay(d) = Eve(d.year, d.month) + d.day /\ Eve(d.year, d.month) \in Int
      /\ C!ToSerialDay(t) = Eve(y, m) + n /\ Eve(y, m) \in Int
      /\ C!ToSerialDay(d) \in Int /\ C!ToSerialDay(t) \in Int
  BY <1>8, SerialInMonth, SMT
<1>10. C!ToSerialDay(t) = C!ToSerialDay(d) + 1
  <2>1. CASE d.day < len
    BY <1>1, <1>5, <1>9, <2>1, SMT
  <2>2. CASE ~(d.day < len)
    <3>1. Eve(y, m) = Eve(d.year, d.month) + len
      <4> DEFINE a == d.year  b == d.month
      <4>1. a \in Int /\ b \in 1..12 /\ Index(y, m) = Index(a, b) + 1
        BY <1>1, <1>6, <2>2, SMT
      <4> HIDE DEF a, b
      <4>2. Eve(y, m) = Eve(a, b) + C!DaysInMonth(a, b)
        BY <1>4, <4>1, NextEve, Zenon
      <4> QED
        BY <4>2, SMT DEF a, b, len
    <3>2. d.day = len
      BY <1>1, <1>2, <2>2, SMT
    <3> QED
      BY <1>2, <1>6, <1>9, <2>2, <3>1, <3>2, SMT
  <2> QED
    BY <2>1, <2>2, SMT
<1>11. C!AddDays(d, 1) = t
  <2>1. C!FromSerialDay(C!ToSerialDay(t)) = t
    BY <1>8, SerialOfDate, SMT
  <2> QED
    BY <1>10, <2>1, SMT DEF C!AddDays
<1>12. d.day = len => t.day = 1
  BY <1>1, <1>2, <1>6, <1>8, SMT
<1> QED
  BY <1>3, <1>8, <1>10, <1>11, <1>12, SMT DEF len

\* addMonths goes that many months on.
LEMMA AddMonthsIs ==
    ASSUME NEW d \in C!CivilDate, NEW n \in Int, NEW a, a = C!AddMonths(d, n)
    PROVE  /\ a \in C!CivilDate /\ IndexOf(a) = IndexOf(d) + n
           /\ a.day = Clamped(a.year, a.month, d.day)
<1> DEFINE sum == d.year * 12 + (d.month - 1) + n
           y == sum \div 12
           m == (sum % 12) + 1
<1>1. d.year \in Int /\ d.month \in 1..12 /\ d.day \in 1..31
  BY DateShape, SMT
<1>2. sum \in Int /\ a = C!ClampToMonthEnd(y, m, d.day)
  BY <1>1, SMT DEF C!AddMonths
<1>3. y \in Int /\ m \in 1..12 /\ Index(y, m) = IndexOf(d) + n
  <2> HIDE DEF sum
  <2>1. y \in Int /\ m \in 1..12 /\ 12 * y + m = sum + 1
    BY <1>2, SMT
  <2>2. 12 * d.year + d.month + n = sum + 1
    BY <1>1, SMT DEF sum
  <2> HIDE DEF y, m
  <2> QED
    BY <2>1, <2>2, SMT DEF Index, IndexOf
<1> HIDE DEF y, m
<1>4. /\ a \in C!CivilDate /\ a.year = y /\ a.month = m /\ a.day = Clamped(y, m, d.day)
      /\ IndexOf(a) = Index(y, m)
  <2>1. PICK yy \in Int, mm \in 1..12, kk \in 1..31 : yy = y /\ mm = m /\ kk = d.day
    BY <1>1, <1>3, Zenon
  <2>2. LET c == C!ClampToMonthEnd(yy, mm, kk) IN
        /\ c \in C!CivilDate /\ c.year = yy /\ c.month = mm /\ c.day = Clamped(yy, mm, kk)
        /\ IndexOf(c) = Index(yy, mm)
    BY ClampShape, ZenonT(60)
  <2>3. a = C!ClampToMonthEnd(yy, mm, kk)
    BY <1>2, <2>1, Zenon
  <2> QED
    BY <2>1, <2>2, <2>3, Zenon
<1> QED
  BY <1>3, <1>4, SMT

-------------------------------------------------------------------------------
(* Statements and the periods they end.                                    *)

\* A date statements of that day are made on.
IsStatement(d, s) ==
    d \in C!CivilDate /\ d.day = Clamped(d.year, d.month, s)

\* Statements follow one another as their months do, one in each month.
LEMMA StatementOrder ==
    ASSUME NEW s \in 1..31, NEW a, NEW b, IsStatement(a, s), IsStatement(b, s)
    PROVE  /\ IndexOf(a) = IndexOf(b) => a = b
           /\ IndexOf(a) < IndexOf(b) <=> C!ToSerialDay(a) < C!ToSerialDay(b)
           /\ IndexOf(a) \in Int /\ IndexOf(b) \in Int
<1>1. a \in C!CivilDate /\ b \in C!CivilDate
  BY SMT DEF IsStatement
<1>2. a.day = Clamped(a.year, a.month, s) /\ b.day = Clamped(b.year, b.month, s)
  BY SMT DEF IsStatement
<1>3. IndexOf(a) \in Int /\ IndexOf(b) \in Int /\ a.day \in Int /\ b.day \in Int
  BY <1>1, IndexShape, SMT
<1>4. IndexOf(a) = IndexOf(b) => a.day = b.day /\ a = b
  <2> SUFFICES ASSUME IndexOf(a) = IndexOf(b) PROVE a.day = b.day /\ a = b
    BY SMT
  <2>1. a.year \in Int /\ a.month \in 1..12 /\ b.year \in Int /\ b.month \in 1..12
    BY <1>1, DateShape, SMT
  <2>2. a.year = b.year /\ a.month = b.month
    BY <2>1, SMT DEF IndexOf
  <2>3. a.day = b.day
    BY <1>2, <2>2, Zenon
  <2> QED
    BY <1>1, <2>3, SameDate, SMT
<1>5. C!ToSerialDay(a) < C!ToSerialDay(b) <=> \/ IndexOf(a) < IndexOf(b)
                                              \/ IndexOf(a) = IndexOf(b) /\ a.day < b.day
  BY <1>1, BeforeIs, Zenon DEF C!Before
<1> QED
  BY <1>3, <1>4, <1>5, SMT

\* statementDateOfMonth gives the statement of the month.
LEMMA OfMonth ==
    ASSUME NEW s \in 1..31, NEW y \in Int, NEW m \in 1..12
    PROVE  /\ IsStatement(C!StatementDateOfMonth(<<y, m>>, s), s)
           /\ IndexOf(C!StatementDateOfMonth(<<y, m>>, s)) = Index(y, m)
<1> DEFINE d == C!ClampToMonthEnd(y, m, s)
<1>1. d \in C!CivilDate /\ d.year = y /\ d.month = m /\ d.day = Clamped(y, m, s)
      /\ IndexOf(d) = Index(y, m)
  BY ClampShape, Zenon
<1>2. C!StatementDateOfMonth(<<y, m>>, s) = d
  BY SMT DEF C!StatementDateOfMonth
<1> HIDE DEF d
<1> QED
  BY <1>1, <1>2, Zenon DEF IsStatement

\* The statement of the month before, and of the month after.
StatementBefore(d, s) == C!StatementDateOfMonth(C!PrevMonthOf(d.year, d.month), s)
StatementAfter(d, s) == C!StatementDateOfMonth(C!NextMonth(d.year, d.month), s)

\* They are a month apart.
LEMMA StatementsAround ==
    ASSUME NEW s \in 1..31, NEW d \in C!CivilDate
    PROVE  /\ IsStatement(StatementBefore(d, s), s)
           /\ IndexOf(StatementBefore(d, s)) = IndexOf(d) - 1
           /\ IsStatement(StatementAfter(d, s), s)
           /\ IndexOf(StatementAfter(d, s)) = IndexOf(d) + 1
<1>1. d.year \in Int /\ d.month \in 1..12
  BY DateShape, SMT
<1>2. PICK y \in Int, m \in 1..12 : y = d.year /\ m = d.month
  BY <1>1, Zenon
<1>3. /\ IsStatement(StatementBefore(d, s), s)
      /\ IndexOf(StatementBefore(d, s)) = IndexOf(d) - 1
  <2> DEFINE z == IF m = 1 THEN y - 1 ELSE y
             n == IF m = 1 THEN 12 ELSE m - 1
  <2>1. C!PrevMonthOf(d.year, d.month) = <<z, n>>
    BY <1>2, SMT DEF C!PrevMonthOf
  <2>2. z \in Int /\ n \in 1..12 /\ Index(z, n) = IndexOf(d) - 1
    BY <1>2, SMT DEF Index, IndexOf
  <2> HIDE DEF z, n
  <2> QED
    BY <2>1, <2>2, OfMonth, Zenon DEF StatementBefore
<1>4. /\ IsStatement(StatementAfter(d, s), s)
      /\ IndexOf(StatementAfter(d, s)) = IndexOf(d) + 1
  <2> DEFINE z == IF m = 12 THEN y + 1 ELSE y
             n == IF m = 12 THEN 1 ELSE m + 1
  <2>1. C!NextMonth(d.year, d.month) = <<z, n>>
    BY <1>2, SMT DEF C!NextMonth
  <2>2. z \in Int /\ n \in 1..12 /\ Index(z, n) = IndexOf(d) + 1
    BY <1>2, SMT DEF Index, IndexOf
  <2> HIDE DEF z, n
  <2> QED
    BY <2>1, <2>2, OfMonth, Zenon DEF StatementAfter
<1> QED
  BY <1>3, <1>4, Zenon

\* Every day is in the period that ends with its statement and begins after the one
\* before.
LEMMA StatementIs ==
    ASSUME NEW s \in 1..31, NEW t \in C!CivilDate, NEW d, d = C!StatementDate(s, t)
    PROVE  /\ IsStatement(d, s)
           /\ C!ToSerialDay(t) <= C!ToSerialDay(d)
           /\ C!ToSerialDay(StatementBefore(d, s)) < C!ToSerialDay(t)
<1> DEFINE this == C!StatementDateOfMonth(<<t.year, t.month>>, s)
<1>1. t.year \in Int /\ t.month \in 1..12 /\ IndexOf(t) \in Int /\ C!ToSerialDay(t) \in Int
  BY DateShape, IndexShape, SMT
<1>2. IsStatement(this, s) /\ IndexOf(this) = IndexOf(t)
  <2>1. PICK y \in Int, m \in 1..12 : y = t.year /\ m = t.month
    BY <1>1, Zenon
  <2>2. this = C!StatementDateOfMonth(<<y, m>>, s) /\ Index(y, m) = IndexOf(t)
    BY <2>1, SMT DEF Index, IndexOf
  <2> HIDE DEF this
  <2> QED
    BY <2>2, OfMonth, Zenon
<1>3. d = IF C!Before(this, t) THEN StatementAfter(t, s) ELSE this
  BY SMT DEF C!StatementDate, StatementAfter
<1> HIDE DEF this
<1>4. this \in C!CivilDate /\ C!ToSerialDay(this) \in Int
  BY <1>2, IndexShape, SMT DEF IsStatement
<1>5. CASE C!Before(this, t)
  <2>1. d = StatementAfter(t, s)
    BY <1>3, <1>5, SMT
  <2>2. IsStatement(d, s) /\ IndexOf(d) = IndexOf(t) + 1
    BY <2>1, StatementsAround, Zenon
  <2>3. d \in C!CivilDate
    BY <2>2, SMT DEF IsStatement
  <2>4. IsStatement(StatementBefore(d, s), s) /\ IndexOf(StatementBefore(d, s)) = IndexOf(d) - 1
    BY <2>3, StatementsAround, Zenon
  <2>5. StatementBefore(d, s) = this
    <3>1. IndexOf(StatementBefore(d, s)) = IndexOf(this)
      BY <1>1, <1>2, <2>2, <2>4, SMT
    <3> QED
      BY <1>2, <2>4, <3>1, StatementOrder, Zenon
  <2>6. C!Before(t, d)
    BY <1>1, <2>2, <2>3, BeforeIs, SMT
  <2>7. C!ToSerialDay(d) \in Int
    BY <2>3, IndexShape, SMT
  <2> QED
    BY <1>1, <1>5, <2>2, <2>5, <2>6, <2>7, SMT DEF C!Before
<1>6. CASE ~C!Before(this, t)
  <2>1. d = this /\ C!ToSerialDay(t) <= C!ToSerialDay(d)
    BY <1>1, <1>3, <1>4, <1>6, SMT DEF C!Before
  <2>2. IsStatement(StatementBefore(d, s), s) /\ IndexOf(StatementBefore(d, s)) = IndexOf(t) - 1
    BY <1>2, <1>4, <2>1, StatementsAround, Zenon
  <2>3. StatementBefore(d, s) \in C!CivilDate
    BY <2>2, SMT DEF IsStatement
  <2>4. C!Before(StatementBefore(d, s), t)
    BY <1>1, <2>2, <2>3, BeforeIs, SMT
  <2> QED
    BY <1>2, <2>1, <2>4, SMT DEF C!Before
<1> QED
  BY <1>5, <1>6, SMT

\* What a statement and the one before it are.
LEMMA StatementShape ==
    ASSUME NEW s \in 1..31, NEW d, IsStatement(d, s)
    PROVE  /\ d \in C!CivilDate /\ C!ToSerialDay(d) \in Int /\ IndexOf(d) \in Int
           /\ IsStatement(StatementBefore(d, s), s)
           /\ StatementBefore(d, s) \in C!CivilDate
           /\ C!ToSerialDay(StatementBefore(d, s)) \in Int
           /\ IndexOf(StatementBefore(d, s)) = IndexOf(d) - 1
           /\ C!ToSerialDay(StatementBefore(d, s)) < C!ToSerialDay(d)
<1>1. d \in C!CivilDate
  BY SMT DEF IsStatement
<1>2. IsStatement(StatementBefore(d, s), s) /\ IndexOf(StatementBefore(d, s)) = IndexOf(d) - 1
  BY <1>1, StatementsAround, Zenon
<1>3. StatementBefore(d, s) \in C!CivilDate
  BY <1>2, SMT DEF IsStatement
<1>4. /\ C!ToSerialDay(d) \in Int /\ IndexOf(d) \in Int
      /\ C!ToSerialDay(StatementBefore(d, s)) \in Int
  BY <1>1, <1>3, IndexShape, SMT
<1>5. IndexOf(StatementBefore(d, s)) < IndexOf(d)
  BY <1>2, <1>4, SMT
<1>6. C!ToSerialDay(StatementBefore(d, s)) < C!ToSerialDay(d)
  BY <1>2, <1>5, StatementOrder, Zenon
<1> QED
  BY <1>1, <1>2, <1>3, <1>4, <1>6, Zenon

\* ... and no other period.
LEMMA OneStatement ==
    ASSUME NEW s \in 1..31, NEW t \in C!CivilDate, NEW d, IsStatement(d, s),
           C!ToSerialDay(t) <= C!ToSerialDay(d),
           C!ToSerialDay(StatementBefore(d, s)) < C!ToSerialDay(t)
    PROVE  C!StatementDate(s, t) = d
<1> DEFINE e == C!StatementDate(s, t)
<1>1. /\ IsStatement(e, s)
      /\ C!ToSerialDay(t) <= C!ToSerialDay(e)
      /\ C!ToSerialDay(StatementBefore(e, s)) < C!ToSerialDay(t)
  BY StatementIs, Zenon
<1> HIDE DEF e
<1>2. C!ToSerialDay(t) \in Int
  BY IndexShape, SMT
<1>3. /\ C!ToSerialDay(d) \in Int /\ IndexOf(d) \in Int /\ C!ToSerialDay(StatementBefore(d, s)) \in Int
      /\ IsStatement(StatementBefore(d, s), s) /\ IndexOf(StatementBefore(d, s)) = IndexOf(d) - 1
  BY StatementShape, Zenon
<1>4. /\ C!ToSerialDay(e) \in Int /\ IndexOf(e) \in Int /\ C!ToSerialDay(StatementBefore(e, s)) \in Int
      /\ IsStatement(StatementBefore(e, s), s) /\ IndexOf(StatementBefore(e, s)) = IndexOf(e) - 1
  BY <1>1, StatementShape, Zenon
<1>5. C!ToSerialDay(StatementBefore(e, s)) < C!ToSerialDay(d)
      /\ C!ToSerialDay(StatementBefore(d, s)) < C!ToSerialDay(e)
  BY <1>1, <1>2, <1>3, <1>4, SMT
<1>6. IndexOf(StatementBefore(e, s)) < IndexOf(d) /\ IndexOf(StatementBefore(d, s)) < IndexOf(e)
  BY <1>1, <1>3, <1>4, <1>5, StatementOrder, Zenon
<1>7. IndexOf(e) = IndexOf(d)
  BY <1>3, <1>4, <1>6, SMT
<1>8. e = d
  BY <1>1, <1>7, StatementOrder, Zenon
<1> QED
  BY <1>8, SMT DEF e

\* From one day to the next the statement stays, or the day before was its day and the
\* next period begins after it.
LEMMA NextDay ==
    ASSUME NEW s \in 1..31, NEW t \in C!CivilDate, NEW u \in C!CivilDate,
           C!ToSerialDay(u) = C!ToSerialDay(t) + 1
    PROVE  \/ C!StatementDate(s, u) = C!StatementDate(s, t)
           \/ /\ t = C!StatementDate(s, t)
              /\ StatementBefore(C!StatementDate(s, u), s) = t
<1> DEFINE d == C!StatementDate(s, t)
           e == C!StatementDate(s, u)
<1>1. /\ IsStatement(d, s) /\ C!ToSerialDay(t) <= C!ToSerialDay(d)
      /\ C!ToSerialDay(StatementBefore(d, s)) < C!ToSerialDay(t)
  BY StatementIs, Zenon
<1>2. /\ IsStatement(e, s) /\ C!ToSerialDay(u) <= C!ToSerialDay(e)
      /\ C!ToSerialDay(StatementBefore(e, s)) < C!ToSerialDay(u)
  BY StatementIs, Zenon
<1> HIDE DEF d, e
<1>3. C!ToSerialDay(t) \in Int /\ C!ToSerialDay(u) \in Int
  BY IndexShape, SMT
<1>4. /\ d \in C!CivilDate /\ C!ToSerialDay(d) \in Int /\ IndexOf(d) \in Int /\ C!ToSerialDay(StatementBefore(d, s)) \in Int
      /\ IsStatement(StatementBefore(d, s), s) /\ IndexOf(StatementBefore(d, s)) = IndexOf(d) - 1
  BY <1>1, StatementShape, Zenon
<1>5. /\ C!ToSerialDay(e) \in Int /\ IndexOf(e) \in Int /\ C!ToSerialDay(StatementBefore(e, s)) \in Int
      /\ IsStatement(StatementBefore(e, s), s) /\ IndexOf(StatementBefore(e, s)) = IndexOf(e) - 1
  BY <1>2, StatementShape, Zenon
<1>6. CASE C!ToSerialDay(u) <= C!ToSerialDay(d)
  <2>1. C!ToSerialDay(StatementBefore(d, s)) < C!ToSerialDay(u)
    BY <1>1, <1>3, <1>4, SMT
  <2>2. C!StatementDate(s, u) = d
    BY <1>1, <1>6, <2>1, OneStatement, Zenon
  <2> QED
    BY <2>2, SMT DEF d
<1>7. CASE ~(C!ToSerialDay(u) <= C!ToSerialDay(d))
  <2>1. C!ToSerialDay(t) = C!ToSerialDay(d) /\ C!ToSerialDay(d) < C!ToSerialDay(e)
    BY <1>1, <1>2, <1>3, <1>4, <1>5, <1>7, SMT
  <2>2. t = d
    BY <1>4, <2>1, OneDateOfADay, Zenon
  <2>3. IndexOf(d) < IndexOf(e)
    BY <1>1, <1>2, <2>1, StatementOrder, Zenon
  <2>4. ~(C!ToSerialDay(d) < C!ToSerialDay(StatementBefore(e, s)))
    BY <1>2, <1>3, <1>4, <1>5, <2>1, SMT
  <2>5. ~(IndexOf(d) < IndexOf(StatementBefore(e, s)))
    BY <1>1, <1>5, <2>4, StatementOrder, Zenon
  <2>6. IndexOf(StatementBefore(e, s)) = IndexOf(d)
    BY <1>4, <1>5, <2>3, <2>5, SMT
  <2>7. StatementBefore(e, s) = d
    BY <1>1, <1>5, <2>6, StatementOrder, Zenon
  <2> QED
    BY <2>2, <2>7, Zenon DEF d, e
<1> QED
  BY <1>6, <1>7, Zenon

\* The period that ends with a statement.
CycleOf(s, p, d) ==
    [periodStart |-> C!AddDays(StatementBefore(d, s), 1), statementDate |-> d,
     dueDate |-> C!DueDate(p, d)]

\* computeCardCycle gives the period of the day's statement.
LEMMA CycleIs ==
    ASSUME NEW s \in 1..31, NEW p \in 1..31, NEW t \in C!CivilDate
    PROVE  C!ComputeCardCycle(s, p, t) = CycleOf(s, p, C!StatementDate(s, t))
  BY Zenon DEF C!ComputeCardCycle, CycleOf, StatementBefore

\* The period before a day's is the one its statement of the month before ends.
LEMMA PreviousIs ==
    ASSUME NEW s \in 1..31, NEW p \in 1..31, NEW t \in C!CivilDate
    PROVE  C!ComputePreviousCardCycle(s, p, t)
             = CycleOf(s, p, StatementBefore(C!StatementDate(s, t), s))
<1> DEFINE d == C!StatementDate(s, t)
           e == StatementBefore(d, s)
           u == C!AddDays(C!AddDays(e, 1), -1)
<1>1. IsStatement(d, s)
  BY StatementIs, Zenon
<1>2. IsStatement(e, s) /\ e \in C!CivilDate
  BY <1>1, StatementShape, Zenon
<1>3. C!ComputePreviousCardCycle(s, p, t) = C!ComputeCardCycle(s, p, u)
  <2>1. C!ComputeCardCycle(s, p, t) = CycleOf(s, p, d)
    BY CycleIs, Zenon
  <2>2. CycleOf(s, p, d).periodStart = C!AddDays(e, 1)
    BY SMT DEF CycleOf
  <2> HIDE DEF d, e
  <2> QED
    BY <2>1, <2>2, SMT DEF C!ComputePreviousCardCycle
<1> HIDE DEF d, e
<1>4. u = e
  <2>0. 1 \in Int /\ -1 \in Int /\ C!ToSerialDay(e) \in Int
    BY <1>2, IndexShape, SMT
  <2>1. /\ C!AddDays(e, 1) \in C!CivilDate
        /\ C!ToSerialDay(C!AddDays(e, 1)) = C!ToSerialDay(e) + 1
    BY <1>2, <2>0, AddDaysIs, Zenon
  <2>2. u \in C!CivilDate /\ C!ToSerialDay(u) = C!ToSerialDay(C!AddDays(e, 1)) + (-1)
    BY <2>0, <2>1, AddDaysIs, Zenon
  <2>3. C!ToSerialDay(u) = C!ToSerialDay(e)
    BY <2>0, <2>1, <2>2, SMT
  <2> QED
    BY <1>2, <2>2, <2>3, OneDateOfADay, Zenon
<1>5. C!StatementDate(s, e) = e
  <2>1. C!ToSerialDay(StatementBefore(e, s)) < C!ToSerialDay(e) /\ C!ToSerialDay(e) <= C!ToSerialDay(e)
    BY <1>2, StatementShape, SMT
  <2> QED
    BY <1>2, <2>1, OneStatement, Zenon
<1>6. C!ComputeCardCycle(s, p, e) = CycleOf(s, p, e)
  BY <1>2, <1>5, CycleIs, Zenon
<1> QED
  BY <1>3, <1>4, <1>6, Zenon DEF d, e

\* A bill falls due after its statement and no later than the next one is made.
LEMMA DueIs ==
    ASSUME NEW s \in 1..31, NEW p \in 1..31, NEW d, NEW e, IsStatement(d, s), IsStatement(e, s),
           IndexOf(e) = IndexOf(d) + 1
    PROVE  /\ C!DueDate(p, d) \in C!CivilDate
           /\ C!Before(d, C!DueDate(p, d)) /\ ~C!Before(e, C!DueDate(p, d))
<1> DEFINE same == C!ClampToMonthEnd(d.year, d.month, p)
           later == C!AddMonths(same, 1)
<1>1. d \in C!CivilDate /\ e \in C!CivilDate
  BY SMT DEF IsStatement
<1>2. /\ d.year \in Int /\ d.month \in 1..12 /\ IndexOf(d) \in Int /\ d.day \in 1..31
      /\ e.year \in Int /\ e.month \in 1..12 /\ IndexOf(e) \in Int /\ e.day \in 1..31
  BY <1>1, DateShape, IndexShape, SMT
<1>3. same \in C!CivilDate /\ IndexOf(same) = IndexOf(d) /\ same.day = Clamped(d.year, d.month, p)
  <2>1. PICK y \in Int, m \in 1..12 : y = d.year /\ m = d.month
    BY <1>2, Zenon
  <2>2. IndexOf(d) = Index(y, m)
    BY <2>1, SMT DEF Index, IndexOf
  <2>3. /\ C!ClampToMonthEnd(y, m, p) \in C!CivilDate
        /\ IndexOf(C!ClampToMonthEnd(y, m, p)) = Index(y, m)
        /\ C!ClampToMonthEnd(y, m, p).day = Clamped(y, m, p)
    BY ONLY ClampShape, y \in Int, m \in 1..12, p \in 1..31, ZenonT(60)
  <2>4. same = C!ClampToMonthEnd(y, m, p)
    BY ONLY <2>1, same = C!ClampToMonthEnd(d.year, d.month, p), Zenon
  <2> HIDE DEF same
  <2> QED
    BY ONLY <2>1, <2>2, <2>3, <2>4, Zenon
<1>4. C!DueDate(p, d) = IF C!Before(d, same) THEN same ELSE later
  BY Zenon DEF C!DueDate
<1> HIDE DEF same
<1>5. /\ later \in C!CivilDate /\ IndexOf(later) = IndexOf(same) + 1
      /\ later.day = Clamped(later.year, later.month, same.day)
  <2>1. 1 \in Int
    BY SMT
  <2> QED
    BY <1>3, <2>1, AddMonthsIs, Zenon
<1> HIDE DEF later
<1>6. CASE C!Before(d, same)
  <2>1. IndexOf(same) < IndexOf(e) /\ IndexOf(e) # IndexOf(same)
    BY <1>2, <1>3, SMT
  <2>2. ~(IndexOf(e) < IndexOf(same))
    BY <1>2, <1>3, SMT
  <2>3. ~C!Before(e, same)
    BY <1>1, <1>3, <2>1, <2>2, BeforeIs, Zenon
  <2> QED
    BY <1>3, <1>4, <1>6, <2>3, Zenon
<1>7. CASE ~C!Before(d, same)
  <2>1. same.day \in 1..31 /\ later.day \in 1..31 /\ later.year \in Int /\ later.month \in 1..12
    BY <1>3, <1>5, DateShape, SMT
  <2>2. same.day <= d.day
    <3>1. ~(d.day < same.day)
      BY <1>1, <1>3, <1>7, BeforeIs, Zenon
    <3> QED
      BY <1>2, <2>1, <3>1, SMT
  <2>3. d.day <= s
    <3>1. C!DaysInMonth(d.year, d.month) \in 28..31
      BY <1>2, MonthLength, SMT
    <3>2. d.day = Clamped(d.year, d.month, s)
      BY SMT DEF IsStatement
    <3> QED
      BY <3>1, <3>2, SMT DEF Clamped
  <2>4. later.year = e.year /\ later.month = e.month /\ IndexOf(later) = IndexOf(e)
    <3>1. IndexOf(later) = IndexOf(e)
      BY <1>2, <1>3, <1>5, SMT
    <3> QED
      BY <1>2, <2>1, <3>1, SMT DEF IndexOf
  <2>5. later.day <= e.day
    <3>1. C!DaysInMonth(e.year, e.month) \in 28..31
      BY <1>2, MonthLength, SMT
    <3>2. e.day = Clamped(e.year, e.month, s) /\ later.day = Clamped(e.year, e.month, same.day)
      BY <1>5, <2>4, SMT DEF IsStatement
    <3>3. same.day <= s
      BY <1>2, <2>1, <2>2, <2>3, SMT
    <3> QED
      BY <2>1, <3>1, <3>2, <3>3, SMT DEF Clamped
  <2>6. ~(e.day < later.day) /\ ~(IndexOf(e) < IndexOf(later))
    BY <1>2, <2>1, <2>4, <2>5, SMT
  <2>7. ~C!Before(e, later)
    BY <1>1, <1>5, <2>6, BeforeIs, Zenon
  <2>8. IndexOf(d) < IndexOf(later)
    BY <1>2, <1>3, <1>5, SMT
  <2>9. C!Before(d, later)
    BY <1>1, <1>5, <2>8, BeforeIs, Zenon
  <2> QED
    BY <1>4, <1>5, <1>7, <2>7, <2>9, Zenon
<1> QED
  BY <1>6, <1>7, Zenon

-------------------------------------------------------------------------------
(* The expected dates of rules.                                            *)

\* What a rule's schedule asks of its expected date.
RuleShape ==
    [freq : C!Schedule, interval : Nat \ {0}, day : 1..31, month : 1..12, days : Nat \ {0},
     first : C!CivilDate]

\* A date on its rule's day, or on the last one of a month without it.
OnItsDay(r, d) ==
    /\ r.freq \in {"monthly", "yearly"} => d.day = Clamped(d.year, d.month, r.day)
    /\ r.freq = "yearly" => d.month = r.month

\* nextExpectedDate goes on to a later date, on the rule's day.
LEMMA NextExpected ==
    ASSUME NEW r \in RuleShape, NEW d \in C!CivilDate,
           NEW n, n = C!NextExpectedDate(r, d)
    PROVE  n \in C!CivilDate /\ C!Before(d, n) /\ OnItsDay(r, n)
<1>1. /\ r.freq \in {"weekly", "monthly", "yearly", "custom_days"}
      /\ r.interval \in Int /\ r.interval > 0 /\ r.day \in 1..31 /\ r.month \in 1..12
      /\ r.days \in Int /\ r.days > 0
  BY SMT DEF RuleShape, C!Schedule
<1>2. d.year \in Int /\ d.month \in 1..12 /\ d.day \in 1..31 /\ IndexOf(d) \in Int /\ C!ToSerialDay(d) \in Int
  BY DateShape, IndexShape, SMT
<1>3. ASSUME NEW k \in Int, k > 0, n = C!AddDays(d, k)
      PROVE  n \in C!CivilDate /\ C!Before(d, n)
  <2>1. n \in C!CivilDate /\ C!ToSerialDay(n) = C!ToSerialDay(d) + k
    BY <1>3, AddDaysIs, Zenon
  <2> QED
    BY <1>2, <1>3, <2>1, SMT DEF C!Before
<1>4. ASSUME NEW y \in Int, NEW m \in 1..12, NEW k \in 1..31, n = C!ClampToMonthEnd(y, m, k),
             IndexOf(d) < Index(y, m)
      PROVE  /\ n \in C!CivilDate /\ C!Before(d, n)
             /\ n.year = y /\ n.month = m /\ n.day = Clamped(n.year, n.month, k)
  <2>1. /\ n \in C!CivilDate /\ n.year = y /\ n.month = m /\ n.day = Clamped(y, m, k)
        /\ IndexOf(n) = Index(y, m)
    <3>1. LET c == C!ClampToMonthEnd(y, m, k) IN
          /\ c \in C!CivilDate /\ c.year = y /\ c.month = m /\ c.day = Clamped(y, m, k)
          /\ IndexOf(c) = Index(y, m)
      BY ClampShape, Zenon
    <3> QED
      BY <1>4, <3>1, Zenon
  <2>2. C!Before(d, n)
    BY <1>4, <2>1, BeforeIs, Zenon
  <2> QED
    BY <2>1, <2>2, Zenon
<1>5. CASE r.freq = "weekly"
  <2>1. n = C!AddDays(d, 7 * r.interval) /\ 7 * r.interval \in Int /\ 7 * r.interval > 0
    BY <1>1, <1>5, SMT DEF C!NextExpectedDate
  <2>2. n \in C!CivilDate /\ C!Before(d, n)
    BY <1>3, <2>1, Zenon
  <2> QED
    BY <1>5, <2>2, SMT DEF OnItsDay
<1>6. CASE r.freq = "custom_days"
  <2>1. n = C!AddDays(d, r.days)
    BY <1>1, <1>6, SMT DEF C!NextExpectedDate
  <2>2. n \in C!CivilDate /\ C!Before(d, n)
    BY <1>1, <1>3, <2>1, Zenon
  <2> QED
    BY <1>6, <2>2, SMT DEF OnItsDay
<1>7. CASE r.freq = "monthly"
  <2> DEFINE a == C!AddMonths(d, r.interval)
  <2>1. n = C!ClampToMonthEnd(a.year, a.month, r.day)
    BY <1>1, <1>7, SMT DEF C!NextExpectedDate
  <2>2. a \in C!CivilDate /\ IndexOf(a) = IndexOf(d) + r.interval
    BY <1>1, AddMonthsIs, Zenon
  <2> HIDE DEF a
  <2>3. a.year \in Int /\ a.month \in 1..12
    BY <2>2, DateShape, SMT
  <2>4. IndexOf(d) < Index(a.year, a.month)
    <3>1. IndexOf(a) = Index(a.year, a.month)
      BY SMT DEF Index, IndexOf
    <3> QED
      BY <1>1, <1>2, <2>2, <3>1, SMT
  <2>5. n \in C!CivilDate /\ C!Before(d, n) /\ n.day = Clamped(n.year, n.month, r.day)
    BY <1>1, <1>4, <2>1, <2>3, <2>4, Zenon
  <2> QED
    BY <1>7, <2>5, SMT DEF OnItsDay
<1>8. CASE r.freq = "yearly"
  <2> DEFINE y == d.year + r.interval
  <2>1. n = C!ClampToMonthEnd(y, r.month, r.day)
    BY <1>1, <1>8, SMT DEF C!NextExpectedDate
  <2>2. y \in Int
    BY <1>1, <1>2, SMT
  <2>3. ~(IndexOf(d) < Index(y, r.month)) => FALSE
    BY <1>1, <1>2, SMT DEF Index, IndexOf
  <2> HIDE DEF y
  <2>5. /\ n \in C!CivilDate /\ C!Before(d, n) /\ n.month = r.month
        /\ n.day = Clamped(n.year, n.month, r.day)
    BY <1>1, <1>4, <2>1, <2>2, <2>3, Zenon
  <2> QED
    BY <1>8, <2>5, SMT DEF OnItsDay
<1> QED
  BY <1>1, <1>5, <1>6, <1>7, <1>8, Zenon

-------------------------------------------------------------------------------
(* The invariant of the cards, from day to day.                            *)

\* The settings of the cards, as the schema lets them in.
SettingShape == [Billed -> [statementDay : 1..31, dueDay : 1..31]]

\* What a card's bill is, and what of it is left to be paid.
Billing(c, p) ==
    LET last == C!CardPeriodSums(c, p.periodStart, p.statementDate)
    IN  last.posted + last.pending - last.refunded

Paid(c, p) ==
    C!Total({r \in book : r.card = c /\ r.type = "card_payment"
                          /\ C!Before(p.statementDate, r.date)})

Owed(c, p) == IF Billing(c, p) > Paid(c, p) THEN Billing(c, p) - Paid(c, p) ELSE 0

\* What cardCycleView shows of a card.
LEMMA ViewShape ==
    ASSUME NEW day, NEW c \in Billed
    PROVE  LET v == C!View(day)[c]
               cur == C!ComputeCardCycle(setting[c].statementDay, setting[c].dueDay, day)
               pre == C!ComputePreviousCardCycle(setting[c].statementDay, setting[c].dueDay, day)
           IN  /\ v.current = cur /\ v.previous = pre
               /\ v.now = C!CardPeriodSums(c, cur.periodStart, cur.statementDate)
               /\ v.total = Billing(c, pre) /\ v.unpaid = Owed(c, pre)
<1> DEFINE cur == C!ComputeCardCycle(setting[c].statementDay, setting[c].dueDay, day)
           pre == C!ComputePreviousCardCycle(setting[c].statementDay, setting[c].dueDay, day)
           now == C!CardPeriodSums(c, cur.periodStart, cur.statementDate)
           last == C!CardPeriodSums(c, pre.periodStart, pre.statementDate)
           v == C!ViewOf(c, cur, pre, now, last)
<1>1. C!View(day)[c] = C!CardCycleView(c, cur, pre)
  BY SMT DEF C!View
<1>2. C!CardCycleView(c, cur, pre) = v
  BY SMT DEF C!CardCycleView
<1>3. last.posted + last.pending - last.refunded = Billing(c, pre)
  BY SMT DEF Billing
<1> HIDE DEF cur, pre, now, last
<1>4. /\ v.current = cur /\ v.previous = pre /\ v.now = now
      /\ v.total = last.posted + last.pending - last.refunded
  BY SMT DEF C!ViewOf
<1>5. v.unpaid = Owed(c, pre)
  BY <1>3, SMT DEF C!ViewOf, Owed, Paid
<1> HIDE DEF v
<1> QED
  BY <1>1, <1>2, <1>3, <1>4, <1>5, Zenon DEF cur, pre, now

\* The periods of a card on a day, by its statement.
LEMMA PeriodsOf ==
    ASSUME setting \in SettingShape, NEW c \in Billed, NEW day \in C!CivilDate
    PROVE  LET s == setting[c].statementDay
               p == setting[c].dueDay
               d == C!StatementDate(s, day)
               v == C!View(day)[c]
           IN  /\ s \in 1..31 /\ p \in 1..31
               /\ v.current = CycleOf(s, p, d)
               /\ v.previous = CycleOf(s, p, StatementBefore(d, s))
               /\ IsStatement(d, s) /\ IsStatement(StatementBefore(d, s), s)
               /\ C!ToSerialDay(day) <= C!ToSerialDay(d)
               /\ C!ToSerialDay(StatementBefore(d, s)) < C!ToSerialDay(day)
<1> DEFINE s == setting[c].statementDay
           p == setting[c].dueDay
           d == C!StatementDate(s, day)
           v == C!View(day)[c]
<1>1. s \in 1..31 /\ p \in 1..31
  BY SMT DEF SettingShape
<1>2. v.current = C!ComputeCardCycle(s, p, day) /\ v.previous = C!ComputePreviousCardCycle(s, p, day)
  BY ViewShape, Zenon
<1> HIDE DEF s, p, v
<1>3. v.current = CycleOf(s, p, d)
  BY <1>1, <1>2, CycleIs, Zenon
<1>4. v.previous = CycleOf(s, p, StatementBefore(d, s))
  BY <1>1, <1>2, PreviousIs, Zenon
<1>5. /\ IsStatement(d, s)
      /\ C!ToSerialDay(day) <= C!ToSerialDay(d)
      /\ C!ToSerialDay(StatementBefore(d, s)) < C!ToSerialDay(day)
  BY <1>1, StatementIs, Zenon
<1>6. IsStatement(StatementBefore(d, s), s)
  BY <1>1, <1>5, StatementShape, Zenon
<1> QED
  BY <1>1, <1>3, <1>4, <1>5, <1>6, Zenon DEF s, p, v

\* What is computed for a day depends on the transactions and the settings only.
LEMMA SumsStay ==
    ASSUME book' = book, NEW c
    PROVE  /\ \A from, to : C!CardPeriodSums(c, from, to)' = C!CardPeriodSums(c, from, to)
           /\ C!Outstanding(c)' = C!Outstanding(c)
<1>1. ASSUME NEW from, NEW to
      PROVE  C!CardPeriodSums(c, from, to)' = C!CardPeriodSums(c, from, to)
  BY SMTT(30) DEF C!CardPeriodSums, C!Total
<1>2. C!Outstanding(c)' = C!Outstanding(c)
  BY SMTT(30) DEF C!Outstanding, C!Total
<1> QED
  BY <1>1, <1>2, Zenon

\* ... and so does what is made of those sums,
LEMMA CardViewStays ==
    ASSUME book' = book, NEW c, NEW cur, NEW pre, NEW now, NEW last
    PROVE  C!ViewOf(c, cur, pre, now, last)' = C!ViewOf(c, cur, pre, now, last)
<1>1. C!SumFunction([card \in Billed |-> C!Outstanding(card)])'
        = C!SumFunction([card \in Billed |-> C!Outstanding(card)])
  BY SumsStay, SMT
<1>2. {r \in book : r.card = c /\ r.type = "card_payment" /\ C!Before(pre.statementDate, r.date)}'
        = {r \in book : r.card = c /\ r.type = "card_payment" /\ C!Before(pre.statementDate, r.date)}
  BY Zenon
<1> DEFINE paying == {r \in book : r.card = c /\ r.type = "card_payment"
                                   /\ C!Before(pre.statementDate, r.date)}
<1>3. C!Total(paying)' = C!Total(paying)
  BY <1>2, Zenon DEF C!Total
<1> QED
  BY <1>1, <1>3, Zenon DEF C!ViewOf

\* ... and the whole view of a day.
LEMMA ViewStays ==
    ASSUME book' = book, setting' = setting, NEW day
    PROVE  C!View(day)' = C!View(day)
<1>1. ASSUME NEW c \in Billed, NEW cur, NEW pre
      PROVE  C!CardCycleView(c, cur, pre)' = C!CardCycleView(c, cur, pre)
  BY SumsStay, CardViewStays, SMT DEF C!CardCycleView
<1> QED
  BY <1>1, SMT DEF C!View

\* A view is the one computed for a day.
Shows(v, t) == \A day : day = t => v = C!View(day)

\* A date comes before another one, or is the day before it, or is a rule's: its first
\* one, or one on its day.
NotPast(n, t) == \A date, day : date = n /\ day = t => ~C!Before(date, day)
DayAfter(t, y) == \A day, eve : day = t /\ eve = y => day = C!AddDays(eve, 1)
KeepsDay(r, n) ==
    \A plan, date : plan = r /\ date = n => date = plan.first \/ OnItsDay(plan, date)

\* Yesterday's reminders of what falls due.
Reminded(y) ==
    \A c \in Billed : \A day, due :
        /\ day = y.date /\ due = y.view[c].previous.dueDate
        /\ C!ToSerialDay(due) - C!ToSerialDay(day) \in {1, 3}
        /\ y.view[c].unpaid > 0
        => <<"due", due>> \in y.sent[c]

\* What the days have shown so far: today is a date, its view is the one computed for
\* it, and so was yesterday's, whose reminders were sent; the rule's date is its first one
\* or on its day.
CardsInv ==
    /\ today \in C!CivilDate /\ setting \in SettingShape /\ schedule \in RuleShape
    /\ Shows(view, today)
    /\ next \in C!CivilDate /\ NotPast(next, today) /\ KeepsDay(schedule, next)
    /\ yesterday # None =>
         /\ yesterday.date \in C!CivilDate
         /\ DayAfter(today, yesterday.date)
         /\ Shows(yesterday.view, yesterday.date)
         /\ Reminded(yesterday)

\* It holds on the first day.
LEMMA CardsInit ==
    ASSUME C!Init
    PROVE  CardsInv
<1>1. PICK s \in Scenario :
        /\ today = s.start /\ setting = s.setting /\ schedule = s.rule
        /\ next = s.rule.first
        /\ view = C!View(today) /\ yesterday = None
  BY Zenon DEF C!Init
<1>2. /\ today \in C!CivilDate /\ setting \in SettingShape /\ schedule \in RuleShape
      /\ ~C!Before(next, today)
  BY <1>1, BookAssumption, Zenon DEF C!CycleAssumption, SettingShape, RuleShape
<1>3. next \in C!CivilDate /\ next = schedule.first
  BY <1>1, <1>2, SMT DEF RuleShape
<1> QED
  BY <1>1, <1>2, <1>3, Zenon DEF CardsInv, Shows, NotPast, KeepsDay

\* It holds on the next day.
LEMMA DayPassing ==
    ASSUME CardsInv, C!DayPasses
    PROVE  CardsInv'
<1>1. /\ today' = C!AddDays(today, 1) /\ view' = C!View(today')
      /\ next' = (IF next = today THEN C!NextExpectedDate(schedule, next) ELSE next)
      /\ yesterday' = [date |-> today, view |-> view, sent |-> [c \in Billed |-> C!Upcoming(c)]]
      /\ setting' = setting /\ book' = book /\ schedule' = schedule
  BY Zenon DEF C!DayPasses
<1>2. /\ today \in C!CivilDate /\ setting \in SettingShape /\ schedule \in RuleShape
      /\ Shows(view, today)
      /\ next \in C!CivilDate /\ ~C!Before(next, today)
      /\ next = schedule.first \/ OnItsDay(schedule, next)
  BY Zenon DEF CardsInv, NotPast, KeepsDay
<1>3. today' \in C!CivilDate /\ C!ToSerialDay(today') = C!ToSerialDay(today) + 1
      /\ C!ToSerialDay(today) \in Int
  <2>1. 1 \in Int
    BY SMT
  <2> QED
    BY <1>1, <1>2, <2>1, AddDaysIs, IndexShape, Zenon
<1>4. /\ yesterday'.date = today /\ yesterday'.view = view
      /\ \A c \in Billed : yesterday'.sent[c] = C!Upcoming(c)
  BY <1>1, SMT
<1>5. /\ next' \in C!CivilDate /\ ~C!Before(next', today')
      /\ next' = schedule.first \/ OnItsDay(schedule, next')
  <2>0. C!ToSerialDay(next) \in Int
    BY <1>2, IndexShape, Zenon
  <2>1. CASE next = today
    <3>1. next' \in C!CivilDate /\ C!Before(today, next') /\ OnItsDay(schedule, next')
      BY <1>1, <1>2, <2>1, NextExpected, Zenon
    <3>2. C!ToSerialDay(next') \in Int
      BY <3>1, IndexShape, Zenon
    <3> QED
      BY <1>3, <3>1, <3>2, SMT DEF C!Before
  <2>2. CASE next # today
    <3>1. C!ToSerialDay(next) # C!ToSerialDay(today)
      BY <1>2, <2>2, OneDateOfADay, Zenon
    <3>2. ~(C!ToSerialDay(next) < C!ToSerialDay(today'))
      BY <1>2, <1>3, <2>0, <3>1, SMT DEF C!Before
    <3> QED
      BY <1>1, <1>2, <2>2, <3>2, Zenon DEF C!Before
  <2> QED
    BY <2>1, <2>2, Zenon
<1>6. ASSUME NEW c \in Billed,
             C!ToSerialDay(view[c].previous.dueDate) - C!ToSerialDay(today) \in {1, 3},
             view[c].unpaid > 0
      PROVE  <<"due", view[c].previous.dueDate>> \in yesterday'.sent[c]
  BY <1>4, <1>6, SMT DEF C!Upcoming, C!DaysTo
<1>7. Shows(view, today)' /\ Shows(yesterday.view, yesterday.date)'
  <2>1. ASSUME NEW day, day = today'
        PROVE  view' = C!View(day)'
    BY <1>1, <2>1, ViewStays, Zenon
  <2>2. ASSUME NEW day, day = yesterday'.date
        PROVE  yesterday'.view = C!View(day)'
    BY <1>1, <1>2, <1>4, <2>2, ViewStays, Zenon DEF Shows
  <2> QED
    BY <2>1, <2>2, Zenon DEF Shows
<1>8. (today \in C!CivilDate)' /\ (setting \in SettingShape)' /\ (schedule \in RuleShape)'
  BY <1>1, <1>2, <1>3, Zenon DEF SettingShape, RuleShape
<1>9. (next \in C!CivilDate)' /\ NotPast(next, today)' /\ KeepsDay(schedule, next)'
  BY <1>1, <1>2, <1>5, Zenon DEF NotPast, KeepsDay
<1>10. (yesterday.date \in C!CivilDate)' /\ DayAfter(today, yesterday.date)'
  BY <1>1, <1>2, <1>4, Zenon DEF DayAfter
<1>11. Reminded(yesterday)'
  BY <1>4, <1>6, Zenon DEF Reminded
<1> QED
  BY <1>7, <1>8, <1>9, <1>10, <1>11, Zenon DEF CardsInv

\* It stays while nothing of it changes.
LEMMA CardsStay ==
    ASSUME CardsInv, UNCHANGED cards
    PROVE  CardsInv'
<1>1. /\ today' = today /\ setting' = setting /\ book' = book /\ schedule' = schedule
      /\ next' = next /\ view' = view /\ yesterday' = yesterday
  BY Zenon DEF cards
<1>2. ASSUME NEW v, NEW t, Shows(v, t)
      PROVE  \A day : day = t => v = C!View(day)'
  BY <1>1, <1>2, ViewStays, Zenon DEF Shows
<1>3. Shows(view, today)'
  BY <1>1, <1>2, Zenon DEF CardsInv, Shows
<1>4. ASSUME yesterday # None
      PROVE  Shows(yesterday.view, yesterday.date)'
  BY <1>1, <1>2, <1>4, Zenon DEF CardsInv, Shows
<1>5. /\ (today \in C!CivilDate)' /\ (setting \in SettingShape)' /\ (schedule \in RuleShape)'
      /\ (next \in C!CivilDate)' /\ NotPast(next, today)' /\ KeepsDay(schedule, next)'
  BY <1>1, Zenon DEF CardsInv, SettingShape, RuleShape, NotPast, KeepsDay
<1>6. ASSUME yesterday # None
      PROVE  /\ (yesterday.date \in C!CivilDate)' /\ DayAfter(today, yesterday.date)'
             /\ Reminded(yesterday)'
  BY <1>1, <1>6, Zenon DEF CardsInv, DayAfter, Reminded
<1> QED
  BY <1>1, <1>3, <1>4, <1>5, <1>6, Zenon DEF CardsInv

\* Yesterday is a day before today, and each has the view computed for it.
LEMMA Apart ==
    ASSUME CardsInv, yesterday # None
    PROVE  /\ yesterday.date \in C!CivilDate /\ today \in C!CivilDate
           /\ today = C!AddDays(yesterday.date, 1)
           /\ C!ToSerialDay(yesterday.date) \in Int /\ C!ToSerialDay(today) \in Int
           /\ C!ToSerialDay(today) = C!ToSerialDay(yesterday.date) + 1
           /\ view = C!View(today) /\ yesterday.view = C!View(yesterday.date)
           /\ setting \in SettingShape
<1>1. /\ yesterday.date \in C!CivilDate /\ today \in C!CivilDate
      /\ today = C!AddDays(yesterday.date, 1)
      /\ view = C!View(today) /\ yesterday.view = C!View(yesterday.date)
      /\ setting \in SettingShape
  BY Zenon DEF CardsInv, DayAfter, Shows
<1>2. 1 \in Int
  BY SMT
<1> QED
  BY <1>1, <1>2, AddDaysIs, IndexShape, Zenon

\* From yesterday to today a card's periods stay, or they move on by one: the period
\* that ended yesterday is the previous one.
LEMMA TwoDays ==
    ASSUME CardsInv, yesterday # None, NEW c \in Billed
    PROVE  \/ /\ view[c].current = yesterday.view[c].current
              /\ view[c].previous = yesterday.view[c].previous
           \/ /\ yesterday.date = yesterday.view[c].current.statementDate
              /\ view[c].current.periodStart = today
              /\ view[c].previous = yesterday.view[c].current
<1> DEFINE s == setting[c].statementDay
           p == setting[c].dueDay
           d == C!StatementDate(s, yesterday.date)
           e == C!StatementDate(s, today)
<1>1. /\ yesterday.date \in C!CivilDate /\ today \in C!CivilDate
      /\ today = C!AddDays(yesterday.date, 1)
      /\ C!ToSerialDay(today) = C!ToSerialDay(yesterday.date) + 1
      /\ view = C!View(today) /\ yesterday.view = C!View(yesterday.date)
      /\ setting \in SettingShape
  BY Apart, Zenon
<1>2. /\ s \in 1..31
      /\ yesterday.view[c].current = CycleOf(s, p, d)
      /\ yesterday.view[c].previous = CycleOf(s, p, StatementBefore(d, s))
  BY <1>1, PeriodsOf, ZenonT(60)
<1>3. /\ view[c].current = CycleOf(s, p, e)
      /\ view[c].previous = CycleOf(s, p, StatementBefore(e, s))
  BY <1>1, PeriodsOf, Zenon
<1> HIDE DEF s, p
<1>4. \/ e = d
      \/ yesterday.date = d /\ StatementBefore(e, s) = d
  BY <1>1, <1>2, NextDay, ZenonT(60)
<1> HIDE DEF d, e
<1>5. CycleOf(s, p, d).statementDate = d
      /\ CycleOf(s, p, e).periodStart = C!AddDays(StatementBefore(e, s), 1)
  BY SMT DEF CycleOf
<1> QED
  BY <1>1, <1>2, <1>3, <1>4, <1>5, Zenon

\* Serial days are the calendar.
LEMMA CalendarHolds ==
    ASSUME CardsInv
    PROVE  C!CalendarIsRight
<1>1. today \in C!CivilDate
  BY Zenon DEF CardsInv
<1>2. yesterday # None => today = C!Tomorrow(yesterday.date)
  BY Apart, TomorrowIs, Zenon
<1>3. C!FromSerialDay(C!ToSerialDay(today)) = today
  BY <1>1, SerialOfDate, Zenon
<1>4. C!AddDays(C!AddDays(today, 31), -31) = today
  <2> DEFINE later == C!AddDays(today, 31)
             back == C!AddDays(later, -31)
  <2>1. 31 \in Int /\ -31 \in Int /\ C!ToSerialDay(today) \in Int
    BY <1>1, IndexShape, SMT
  <2>2. later \in C!CivilDate /\ C!ToSerialDay(later) = C!ToSerialDay(today) + 31
    BY <1>1, <2>1, AddDaysIs, Zenon
  <2> HIDE DEF later
  <2>3. back \in C!CivilDate /\ C!ToSerialDay(back) = C!ToSerialDay(later) + (-31)
    BY <2>1, <2>2, AddDaysIs, Zenon
  <2> HIDE DEF back
  <2>4. C!ToSerialDay(back) = C!ToSerialDay(today)
    BY <2>1, <2>2, <2>3, SMT
  <2>5. back = today
    BY <1>1, <2>3, <2>4, OneDateOfADay, Zenon
  <2> QED
    BY <2>5, Zenon DEF back, later
<1> QED
  BY <1>2, <1>3, <1>4, Zenon DEF C!CalendarIsRight

\* Today is in its period, and the last bill falls due between its statement and the
\* next one.
LEMMA PeriodsHoldToday ==
    ASSUME CardsInv, NEW c \in Billed
    PROVE  /\ ~C!Before(today, view[c].current.periodStart)
           /\ ~C!Before(view[c].current.statementDate, today)
           /\ C!Before(view[c].previous.statementDate, view[c].previous.dueDate)
           /\ ~C!Before(view[c].current.statementDate, view[c].previous.dueDate)
<1> DEFINE s == setting[c].statementDay
           p == setting[c].dueDay
           d == C!StatementDate(s, today)
           b == StatementBefore(d, s)
<1>1. today \in C!CivilDate /\ view = C!View(today) /\ setting \in SettingShape
  BY Zenon DEF CardsInv, Shows
<1>2. /\ s \in 1..31 /\ p \in 1..31
      /\ view[c].current = CycleOf(s, p, d) /\ view[c].previous = CycleOf(s, p, b)
      /\ IsStatement(d, s) /\ IsStatement(b, s)
      /\ C!ToSerialDay(today) <= C!ToSerialDay(d) /\ C!ToSerialDay(b) < C!ToSerialDay(today)
  BY <1>1, PeriodsOf, Zenon
<1> HIDE DEF s, p
<1>3. /\ IndexOf(b) = IndexOf(d) - 1 /\ IndexOf(d) \in Int
      /\ b \in C!CivilDate /\ d \in C!CivilDate
  BY <1>2, StatementShape, Zenon
<1> HIDE DEF b, d
<1>4. C!ToSerialDay(b) \in Int /\ C!ToSerialDay(d) \in Int /\ C!ToSerialDay(today) \in Int
  BY <1>1, <1>3, IndexShape, Zenon
<1>5. C!Before(b, C!DueDate(p, b)) /\ ~C!Before(d, C!DueDate(p, b))
  <2>1. IndexOf(d) = IndexOf(b) + 1
    BY <1>3, SMT
  <2> QED
    BY <1>2, <2>1, DueIs, Zenon
<1>6. C!ToSerialDay(C!AddDays(b, 1)) = C!ToSerialDay(b) + 1
  <2>1. 1 \in Int
    BY SMT
  <2> QED
    BY <1>3, <2>1, AddDaysIs, Zenon
<1>7. ~C!Before(today, C!AddDays(b, 1)) /\ ~C!Before(d, today)
  BY <1>2, <1>4, <1>6, SMT DEF C!Before
<1>8. /\ CycleOf(s, p, d).periodStart = C!AddDays(b, 1) /\ CycleOf(s, p, d).statementDate = d
      /\ CycleOf(s, p, b).statementDate = b /\ CycleOf(s, p, b).dueDate = C!DueDate(p, b)
  BY SMT DEF CycleOf, b
<1> QED
  BY <1>2, <1>5, <1>7, <1>8, Zenon

\* Periods tile the days.
LEMMA PeriodsAreTiled ==
    ASSUME CardsInv
    PROVE  C!PeriodsTile
  BY PeriodsHoldToday, TwoDays, Zenon DEF C!PeriodsTile

\* What is shown of a card, by the periods that are shown of it.
LEMMA ShownOfACard ==
    ASSUME NEW day, NEW c \in Billed
    PROVE  LET v == C!View(day)[c]
           IN  /\ v.total = Billing(c, v.previous) /\ v.unpaid = Owed(c, v.previous)
               /\ v.now = C!CardPeriodSums(c, v.current.periodStart, v.current.statementDate)
<1> DEFINE cur == C!ComputeCardCycle(setting[c].statementDay, setting[c].dueDay, day)
           pre == C!ComputePreviousCardCycle(setting[c].statementDay, setting[c].dueDay, day)
           v == C!View(day)[c]
<1>1. /\ v.current = cur /\ v.previous = pre
      /\ v.now = C!CardPeriodSums(c, cur.periodStart, cur.statementDate)
      /\ v.total = Billing(c, pre) /\ v.unpaid = Owed(c, pre)
  BY ViewShape, Zenon
<1> HIDE DEF cur, pre, v
<1>2. /\ v.total = Billing(c, v.previous) /\ v.unpaid = Owed(c, v.previous)
      /\ v.now = C!CardPeriodSums(c, v.current.periodStart, v.current.statementDate)
  BY <1>1, Zenon
<1> QED
  BY <1>2, Zenon DEF v

\* What is owed of a period is the same on both days.
LEMMA OneBill ==
    ASSUME CardsInv, yesterday # None, NEW c \in Billed
    PROVE  /\ view[c].total = Billing(c, view[c].previous)
           /\ view[c].unpaid = Owed(c, view[c].previous)
           /\ yesterday.view[c].unpaid = Owed(c, yesterday.view[c].previous)
           /\ yesterday.view[c].now
                = C!CardPeriodSums(c, yesterday.view[c].current.periodStart,
                                   yesterday.view[c].current.statementDate)
<1>1. view = C!View(today) /\ yesterday.view = C!View(yesterday.date)
  BY Apart, Zenon
<1>2. /\ view[c].total = Billing(c, view[c].previous)
      /\ view[c].unpaid = Owed(c, view[c].previous)
  BY <1>1, ShownOfACard, Zenon
<1>3. /\ yesterday.view[c].unpaid = Owed(c, yesterday.view[c].previous)
      /\ yesterday.view[c].now
           = C!CardPeriodSums(c, yesterday.view[c].current.periodStart,
                              yesterday.view[c].current.statementDate)
  BY <1>1, ShownOfACard, ZenonT(60)
<1> QED
  BY <1>2, <1>3, Zenon

\* A bill is what its period showed when it ended.
LEMMA BillsHold ==
    ASSUME CardsInv
    PROVE  C!BillIsWhatThePeriodShowed
<1>1. ASSUME NEW c \in Billed, yesterday # None, view[c].previous # yesterday.view[c].previous
      PROVE  view[c].total = yesterday.view[c].now.posted + yesterday.view[c].now.pending
                               - yesterday.view[c].now.refunded
  <2>1. view[c].previous = yesterday.view[c].current
    BY <1>1, TwoDays, Zenon
  <2>2. view[c].total = Billing(c, yesterday.view[c].current)
    BY <1>1, <2>1, OneBill, Zenon
  <2>3. yesterday.view[c].now
          = C!CardPeriodSums(c, yesterday.view[c].current.periodStart,
                             yesterday.view[c].current.statementDate)
    BY <1>1, OneBill, Zenon
  <2> QED
    BY <2>2, <2>3, Zenon DEF Billing
<1> QED
  BY <1>1, PeriodsHoldToday, Zenon DEF C!BillIsWhatThePeriodShowed

\* What falls due today was reminded of yesterday: the bill was there and as unpaid.
LEMMA UnpaidReminded ==
    ASSUME CardsInv
    PROVE  C!UnpaidIsRemindedOf
<1>1. ASSUME NEW c \in Billed, yesterday # None, view[c].previous.dueDate = today,
             view[c].unpaid > 0, C!Before(view[c].previous.statementDate, yesterday.date)
      PROVE  <<"due", today>> \in yesterday.sent[c]
  <2>1. /\ C!ToSerialDay(yesterday.date) \in Int
        /\ C!ToSerialDay(today) = C!ToSerialDay(yesterday.date) + 1
    BY <1>1, Apart, Zenon
  <2>2. view[c].previous = yesterday.view[c].previous
    <3>1. CASE /\ yesterday.date = yesterday.view[c].current.statementDate
               /\ view[c].previous = yesterday.view[c].current
      <4>1. C!Before(yesterday.date, yesterday.date)
        BY <1>1, <3>1, Zenon
      <4> QED
        BY <2>1, <4>1, SMT DEF C!Before
    <3> QED
      BY <1>1, <3>1, TwoDays, Zenon
  <2>3. yesterday.view[c].unpaid > 0
    BY <1>1, <2>2, OneBill, Zenon
  <2>4. C!ToSerialDay(today) - C!ToSerialDay(yesterday.date) \in {1, 3}
    BY <2>1, SMT
  <2> QED
    BY <1>1, <2>2, <2>3, <2>4, Zenon DEF CardsInv, Reminded
<1> QED
  BY <1>1, Zenon DEF C!UnpaidIsRemindedOf

\* A rule's date is its first one, or on its day, or on the last of a month that does not
\* have it.
LEMMA RuleKept ==
    ASSUME CardsInv
    PROVE  C!RuleKeepsItsDay
<1>1. /\ next \in C!CivilDate /\ schedule \in RuleShape
      /\ ~C!Before(next, today) /\ (next = schedule.first \/ OnItsDay(schedule, next))
  BY Zenon DEF CardsInv, NotPast, KeepsDay
<1> DEFINE len == C!DaysInMonth(next.year, next.month)
<1>2. /\ next.year \in Int /\ next.month \in 1..12 /\ schedule.day \in 1..31
  BY <1>1, DateShape, SMT DEF RuleShape
<1>3. len \in 1..31
  BY <1>2, MonthLength, SMT
<1>4. next.day = len => C!Tomorrow(next).day = 1
  BY <1>1, TomorrowIs, Zenon
<1>5. Clamped(next.year, next.month, schedule.day)
        = (IF schedule.day <= len THEN schedule.day ELSE len)
  BY Zenon DEF Clamped
<1> HIDE DEF len
<1>6. \/ Clamped(next.year, next.month, schedule.day) = schedule.day
      \/ /\ Clamped(next.year, next.month, schedule.day) = len
         /\ len < schedule.day
  BY <1>2, <1>3, <1>5, SMT
<1> QED
  BY <1>1, <1>4, <1>6, Zenon DEF C!RuleKeepsItsDay, OnItsDay

\* The invariant, as one of the project's module.
PeriodsInv == part = "cards" => CardsInv

\* It holds at first,
LEMMA PeriodsStart ==
    ASSUME BookInit
    PROVE  PeriodsInv
BY CardsInit, Zenon DEF BookInit, PeriodsInv

\* ... and after every step.
LEMMA PeriodsStep ==
    ASSUME PeriodsInv, [BookNext]_vars
    PROVE  PeriodsInv'
<1>1. CASE part = "cards" /\ C!Next /\ part' = part
  BY <1>1, DayPassing, Zenon DEF PeriodsInv, C!Next
<1>2. CASE part' = part /\ UNCHANGED cards
  BY <1>2, CardsStay, Zenon DEF PeriodsInv
<1>3. CASE part # "cards" /\ part' = part
  BY <1>3, Zenon DEF PeriodsInv
<1> QED
  BY <1>1, <1>2, <1>3, Zenon DEF BookNext, vars

\* Billing periods tile the calendar, a bill is what its period showed, what is unpaid
\* is reminded of, and a rule keeps its day, whatever the day, the cards' settings, the
\* transactions and the rule (dates.ts, statements.ts, recurring.ts, queries.ts).
THEOREM PeriodsHold == BookSpec => []PeriodsAndBills
<1>1. BookInit => PeriodsInv
  BY PeriodsStart
<1>2. PeriodsInv /\ [BookNext]_vars => PeriodsInv'
  BY PeriodsStep
<1>3. PeriodsInv => PeriodsAndBills
  BY CalendarHolds, PeriodsAreTiled, BillsHold, UnpaidReminded, RuleKept, Zenon
     DEF PeriodsInv, PeriodsAndBills
<1> QED
  BY <1>1, <1>2, <1>3, PTL DEF BookSpec

-------------------------------------------------------------------------------
(* The lists and the sums of the matching of bills.                        *)

\* The sizes of sets AuditEngine speaks of are those of the library,
LEMMA CardinalityIs == ASSUME NEW T PROVE E!Cardinality(T) = Cardinality(T)
BY Zenon DEF E!Cardinality, Cardinality

\* A list of positions in their order has each of them, and none twice.
LEMMA InOrderIs ==
    ASSUME NEW T \in SUBSET Int, IsFiniteSet(T)
    PROVE  LET o == E!InOrder(T)
               n == Cardinality(T)
           IN  /\ n \in Nat
               /\ \A k \in 1..n : o[k] \in T
               /\ \A j \in 1..n : \A k \in 1..n : j # k => o[j] # o[k]
<1> DEFINE o == E!InOrder(T)
           n == Cardinality(T)
<1>1. n \in Nat
  BY FS_CardinalityType, Zenon
<1>2. ASSUME NEW k \in 1..n
      PROVE  o[k] \in T /\ Cardinality(Upto(T, o[k])) = k
  <2>1. \E x \in T : Cardinality(Upto(T, x)) = k
    BY RankExists, Zenon
  <2>2. o[k] = CHOOSE x \in T : Cardinality(Upto(T, x)) = k
    BY CardinalityIs, Zenon DEF E!InOrder, Upto
  <2> QED
    BY <2>1, <2>2, Zenon
<1> QED
  BY <1>1, <1>2, Zenon

\* ... and so are its sums,
LEMMA SumIs == ASSUME NEW f PROVE E!SumFunction(f) = SumFunction(f)
BY Zenon DEF E!SumFunction, SumFunction, E!SumFunctionOnSet, SumFunctionOnSet, E!FoldFunctionOnSet, FoldFunctionOnSet, E!MapThenFoldSet, MapThenFoldSet

\* ... and its sums over a part.
LEMMA PartialSumIs == ASSUME NEW f, NEW T PROVE E!SumFunctionOnSet(f, T) = SumFunctionOnSet(f, T)
BY Zenon DEF E!SumFunctionOnSet, SumFunctionOnSet, E!FoldFunctionOnSet, FoldFunctionOnSet, E!MapThenFoldSet, MapThenFoldSet

\* The least of some numbers is one of them,
LEMMA LeastIs ==
    ASSUME NEW T \in SUBSET Int, IsFiniteSet(T), T # {}
    PROVE  E!Min(T) \in T /\ \A y \in T : E!Min(T) <= y
<1> DEFINE f == [x \in T |-> -x]
<1>1. f \in [T -> Int]
  BY SMT
<1>2. PICK m \in T : \A k \in T : f[k] <= f[m]
  <2> HIDE DEF f
  <2> QED
    BY <1>1, Greatest, Zenon
<1>3. \A k \in T : m <= k
  BY <1>2, SMT
<1> QED
  BY <1>3, Zenon DEF E!Min

\* ... and of two it is the one that is not greater; the greatest is the other.
LEMMA LeastOfTwo ==
    ASSUME NEW a \in Int, NEW b \in Int
    PROVE  /\ E!Min({a, b}) = IF a <= b THEN a ELSE b
           /\ E!Max({a, b}) = IF a <= b THEN b ELSE a
BY SMT DEF E!Min, E!Max

-------------------------------------------------------------------------------
(* One line of a bill after the other.                                     *)

\* A list of lines and the transactions that are looked at, with whole amounts.
Shape(I, R) ==
    /\ Len(I) \in Nat /\ DOMAIN I = 1..Len(I) /\ \A i \in DOMAIN I : I[i].amount \in Int
    /\ DOMAIN R \subseteq Int /\ IsFiniteSet(DOMAIN R) /\ \A t \in DOMAIN R : R[t].amount \in Int

\* What a transaction is subtracted as.
Signed(t) == E!SignedLedgerAmount(t)

\* It is whole.
LEMMA SignedIs == ASSUME NEW t, t.amount \in Int PROVE Signed(t) \in Int
BY SMT DEF Signed, E!SignedLedgerAmount, E!Abs

\* The matches among the candidates, what they sum to by their transactions and by
\* their lines, and those lines.
Matches(K) == {c \in K : c.kind = "match"}
SpentOn(R, K) == SumFunction([c \in Matches(K) |-> Signed(R[c.row])])
OfLines(I, K) == SumFunction([c \in Matches(K) |-> I[c.item].amount])
LinesOf(K) == {c.item : c \in Matches(K)}

\* Each of the first lines has one candidate, and no other line has any.
Answers(p, K) ==
    /\ \A c \in K : c.item \in 1..p \/ c.item = None
    /\ \A i \in 1..p : \E d \in K : d.item = i /\ \A c \in K : c.item = i => c = d

\* A score from which a transaction is taken for a line's.
Likely(score) == score \in Int /\ 6000 <= score /\ score <= 10000

\* What was used is matched once, and what was not used is not matched.
MatchedWell(R, p, u, K) ==
    /\ \A c \in Matches(K) : c.item \in 1..p /\ c.row \in DOMAIN R \ u /\ Likely(c.score)
    /\ \A t \in DOMAIN R \ u :
        \E d \in Matches(K) : d.row = t /\ \A c \in Matches(K) : c.row = t => c = d
    /\ Cardinality(Matches(K)) = Cardinality(DOMAIN R \ u)

\* The sum that is kept is the sum of the matches, and each line counts once in theirs.
AddsUp(I, R, e, K) ==
    /\ e = SpentOn(R, K)
    /\ SumFunction([i \in LinesOf(K) |-> I[i].amount]) = OfLines(I, K)

\* The candidates the report adds: a transaction without a line, and a difference
\* nothing is left to explain.
LeftOver(t) == E!Candidate(None, t, "missing_in_statement", 0, "acknowledge_unresolved")
Unresolved == E!Candidate(None, None, "unresolved_difference", 0, "acknowledge_unresolved")

\* What is true after the first p lines.
Looked(I, R, p, u, e, K) ==
    /\ IsFiniteSet(K) /\ p \in Nat /\ p <= Len(I) /\ u \subseteq DOMAIN R
    /\ Answers(p, K) /\ MatchedWell(R, p, u, K) /\ AddsUp(I, R, e, K)
    /\ \A c \in K : c.kind = "missing_in_statement" => c.row \in u /\ c = LeftOver(c.row)

\* No line has the number None.
LEMMA NoneIsNoNumber == None \notin Int
BY BookAssumption, Zenon DEF E!EngineAssumption

\* The next line has its candidate, too.
LEMMA AnswerAdded ==
    ASSUME NEW p \in Nat, NEW K, Answers(p, K), NEW d, d.item = p + 1
    PROVE  Answers(p + 1, K \cup {d})
<1>1. \A i \in 1..p : i \in 1..(p + 1) /\ i # p + 1
  BY SMT
<1>2. \A i \in 1..(p + 1) : i \in 1..p \/ i = p + 1
  BY SMT
<1>3. p + 1 \in 1..(p + 1) /\ p + 1 \notin 1..p /\ p + 1 # None
  BY NoneIsNoNumber, SMT
<1> DEFINE q == p + 1
<1> HIDE DEF q
<1>4. \A c \in K \cup {d} : c.item \in 1..q \/ c.item = None
  BY <1>1, <1>3, Zenon DEF Answers, q
<1>5. ASSUME NEW i \in 1..q
      PROVE  \E e \in K \cup {d} : e.item = i /\ \A c \in K \cup {d} : c.item = i => c = e
  <2>1. CASE i = q
    <3>1. \A c \in K \cup {d} : c.item = i => c = d
      BY <1>3, <2>1, Zenon DEF Answers, q
    <3> QED
      BY <2>1, <3>1, Zenon DEF q
  <2>2. CASE i # q
    <3>1. i \in 1..p
      BY <1>2, <2>2, Zenon DEF q
    <3>2. PICK e \in K : e.item = i /\ \A c \in K : c.item = i => c = e
      BY <3>1, Zenon DEF Answers
    <3>3. \A c \in K \cup {d} : c.item = i => c = e
      BY <2>2, <3>2, Zenon DEF q
    <3> QED
      BY <3>2, <3>3, Zenon
  <2> QED
    BY <2>1, <2>2, Zenon
<1> QED
  BY <1>4, <1>5, Zenon DEF Answers, q

\* A line that is not matched.
LEMMA LineAdded ==
    ASSUME NEW I, NEW R, NEW p, NEW u, NEW e, NEW K, Looked(I, R, p, u, e, K), p < Len(I), Shape(I, R),
           NEW d, d.item = p + 1, d.kind \in {"amount_mismatch", "missing_in_ledger"}
    PROVE  Looked(I, R, p + 1, u, e, K \cup {d})
<1>1. IsFiniteSet(K \cup {d}) /\ p + 1 \in Nat /\ p + 1 <= Len(I) /\ u \subseteq DOMAIN R /\ p \in Nat
  <2>1. IsFiniteSet(K \cup {d})
    BY FS_AddElement, Zenon DEF Looked
  <2> QED
    BY <2>1, SMT DEF Looked, Shape
<1>2. Answers(p + 1, K \cup {d})
  BY <1>1, AnswerAdded, Zenon DEF Looked
<1>3. Matches(K \cup {d}) = Matches(K)
  BY Zenon DEF Matches
<1>4. MatchedWell(R, p + 1, u, K \cup {d})
  <2>1. \A i \in 1..p : i \in 1..(p + 1)
    BY <1>1, SMT
  <2> QED
    BY <1>3, <2>1, Zenon DEF Looked, MatchedWell
<1>5. AddsUp(I, R, e, K \cup {d})
  BY <1>3, Zenon DEF Looked, AddsUp, SpentOn, OfLines, LinesOf
<1>6. \A c \in K \cup {d} : c.kind = "missing_in_statement" => c.row \in u /\ c = LeftOver(c.row)
  BY Zenon DEF Looked
<1> QED
  BY <1>1, <1>2, <1>4, <1>5, <1>6, Zenon DEF Looked

\* The sums grow by the match.
LEMMA MatchSums ==
    ASSUME NEW I, NEW R, NEW p, NEW u, NEW e, NEW K, Looked(I, R, p, u, e, K), p < Len(I), Shape(I, R),
           NEW d, d.item = p + 1, d.kind = "match", d.row \in u
    PROVE  AddsUp(I, R, e + Signed(R[d.row]), K \cup {d})
<1>1. /\ IsFiniteSet(K) /\ p \in Nat /\ u \subseteq DOMAIN R
      /\ Answers(p, K) /\ MatchedWell(R, p, u, K) /\ AddsUp(I, R, e, K)
  BY Zenon DEF Looked
<1>2. IsFiniteSet(Matches(K))
  BY <1>1, FS_Subset, Zenon DEF Matches
<1>3. Matches(K \cup {d}) = Matches(K) \cup {d}
  BY Zenon DEF Matches
<1>4. p + 1 \notin 1..p /\ p + 1 # None /\ p + 1 \in DOMAIN I /\ \A i \in 1..p : i \in DOMAIN I
  BY <1>1, NoneIsNoNumber, SMT DEF Shape
<1>5. d \notin Matches(K)
  BY <1>1, <1>4, Zenon DEF MatchedWell
<1>6. \A c \in Matches(K) : c.item \in 1..p /\ c.row \in DOMAIN R
  BY <1>1, Zenon DEF MatchedWell
<1>7. SpentOn(R, K \cup {d}) = e + Signed(R[d.row])
  <2> DEFINE f == [c \in Matches(K) |-> Signed(R[c.row])]
             g == [c \in Matches(K) \cup {d} |-> Signed(R[c.row])]
  <2>1. f \in [Matches(K) -> Int] /\ g \in [Matches(K) \cup {d} -> Int]
    BY <1>1, <1>6, SignedIs, Zenon DEF Shape
  <2>2. \A c \in Matches(K) : g[c] = f[c]
    BY Zenon
  <2>3. g[d] = Signed(R[d.row])
    BY Zenon
  <2>4. SpentOn(R, K) = SumFunction(f) /\ SpentOn(R, K \cup {d}) = SumFunction(g)
    BY <1>3, Zenon DEF SpentOn
  <2>5. SumFunction(g) = SumFunction(f) + g[d]
    <3> DEFINE S == Matches(K)
    <3>1. /\ IsFiniteSet(S) /\ d \notin S /\ f \in [S -> Int] /\ g \in [S \cup {d} -> Int]
          /\ \A c \in S : g[c] = f[c]
      BY <1>2, <1>5, <2>1, <2>2, Zenon
    <3> HIDE DEF f, g, S
    <3>2. Extends(g, f, S, d)
      BY <3>1, Zenon DEF Extends
    <3> QED
      BY <3>2, SumGrows, Zenon
  <2> HIDE DEF f, g
  <2> QED
    BY <1>1, <2>3, <2>4, <2>5, Zenon DEF AddsUp
<1>8. OfLines(I, K \cup {d}) = OfLines(I, K) + I[p + 1].amount
  <2> DEFINE f == [c \in Matches(K) |-> I[c.item].amount]
             g == [c \in Matches(K) \cup {d} |-> I[c.item].amount]
  <2>1. f \in [Matches(K) -> Int] /\ g \in [Matches(K) \cup {d} -> Int]
    BY <1>4, <1>6, Zenon DEF Shape
  <2>2. \A c \in Matches(K) : g[c] = f[c]
    BY Zenon
  <2>3. g[d] = I[p + 1].amount
    BY Zenon
  <2>4. OfLines(I, K) = SumFunction(f) /\ OfLines(I, K \cup {d}) = SumFunction(g)
    BY <1>3, Zenon DEF OfLines
  <2>5. SumFunction(g) = SumFunction(f) + g[d]
    <3> DEFINE S == Matches(K)
    <3>1. /\ IsFiniteSet(S) /\ d \notin S /\ f \in [S -> Int] /\ g \in [S \cup {d} -> Int]
          /\ \A c \in S : g[c] = f[c]
      BY <1>2, <1>5, <2>1, <2>2, Zenon
    <3> HIDE DEF f, g, S
    <3>2. Extends(g, f, S, d)
      BY <3>1, Zenon DEF Extends
    <3> QED
      BY <3>2, SumGrows, Zenon
  <2> HIDE DEF f, g
  <2> QED
    BY <2>3, <2>4, <2>5, Zenon
<1>9. SumFunction([i \in LinesOf(K \cup {d}) |-> I[i].amount])
        = SumFunction([i \in LinesOf(K) |-> I[i].amount]) + I[p + 1].amount
  <2> DEFINE S == LinesOf(K)
             q == p + 1
             f == [i \in S |-> I[i].amount]
             g == [i \in S \cup {q} |-> I[i].amount]
  <2>1. LinesOf(K \cup {d}) = S \cup {q}
    BY <1>3, Zenon DEF LinesOf
  <2>2. S \subseteq 1..p /\ q \notin S
    BY <1>4, <1>6, Zenon DEF LinesOf
  <2>3. IsFiniteSet(S)
    <3>1. 1 \in Int /\ p \in Int
      BY <1>1, SMT
    <3>2. IsFiniteSet(1..p)
      BY <3>1, FS_Interval, Zenon
    <3> QED
      BY <2>2, <3>2, FS_Subset, Zenon
  <2>4. f \in [S -> Int] /\ g \in [S \cup {q} -> Int]
    BY <1>4, <2>2, Zenon DEF Shape
  <2>5. \A i \in S : g[i] = f[i]
    BY Zenon
  <2>6. g[q] = I[q].amount
    BY Zenon
  <2> HIDE DEF f, g, S, q
  <2>7. SumFunction(g) = SumFunction(f) + g[q]
    <3>1. Extends(g, f, S, q)
      BY <2>2, <2>3, <2>4, <2>5, Zenon DEF Extends
    <3> QED
      BY <3>1, SumGrows, Zenon
  <2> QED
    BY <2>1, <2>6, <2>7, Zenon DEF f, g, S, q
<1> QED
  BY <1>1, <1>7, <1>8, <1>9, Zenon DEF AddsUp

\* A line that is matched with a transaction.
LEMMA MatchAdded ==
    ASSUME NEW I, NEW R, NEW p, NEW u, NEW e, NEW K, Looked(I, R, p, u, e, K), p < Len(I), Shape(I, R),
           NEW d, d.item = p + 1, d.kind = "match", d.row \in u,
           Likely(d.score),
           \A c \in K : c.kind # "missing_in_statement"
    PROVE  Looked(I, R, p + 1, u \ {d.row}, e + Signed(R[d.row]), K \cup {d})
<1> DEFINE t == d.row
           v == u \ {t}
           D == K \cup {d}
<1>1. /\ IsFiniteSet(K) /\ p \in Nat /\ u \subseteq DOMAIN R
      /\ Answers(p, K) /\ MatchedWell(R, p, u, K) /\ AddsUp(I, R, e, K)
  BY Zenon DEF Looked
<1>2. IsFiniteSet(D) /\ p + 1 \in Nat /\ p + 1 <= Len(I) /\ v \subseteq DOMAIN R
  <2>1. IsFiniteSet(D)
    BY <1>1, FS_AddElement, Zenon
  <2> QED
    BY <1>1, <2>1, SMT DEF Shape
<1>3. Answers(p + 1, D)
  BY <1>1, AnswerAdded, Zenon
<1>4. AddsUp(I, R, e + Signed(R[t]), D)
  BY MatchSums, Zenon
<1>5. Matches(D) = Matches(K) \cup {d}
  BY Zenon DEF Matches
<1>6. DOMAIN R \ v = (DOMAIN R \ u) \cup {t} /\ t \notin DOMAIN R \ u
  BY <1>1, Zenon
<1>7. d \notin Matches(K)
  BY <1>1, <1>6, Zenon DEF MatchedWell
<1>8. Cardinality(Matches(D)) = Cardinality(DOMAIN R \ v)
  <2>1. IsFiniteSet(Matches(K)) /\ IsFiniteSet(DOMAIN R \ u)
    BY <1>1, FS_Subset, Zenon DEF Matches, Shape
  <2>2. Cardinality(Matches(D)) = Cardinality(Matches(K)) + 1
    BY <1>5, <1>7, <2>1, FS_AddElement, Zenon
  <2>3. Cardinality(DOMAIN R \ v) = Cardinality(DOMAIN R \ u) + 1
    BY <1>6, <2>1, FS_AddElement, Zenon
  <2> QED
    BY <1>1, <2>2, <2>3, Zenon DEF MatchedWell
<1>9. ASSUME NEW c \in Matches(D)
      PROVE  c.item \in 1..(p + 1) /\ c.row \in DOMAIN R \ v /\ Likely(c.score)
  <2>1. \A i \in 1..p : i \in 1..(p + 1)
    BY <1>1, SMT
  <2>2. p + 1 \in 1..(p + 1)
    BY <1>1, SMT
  <2> QED
    BY <1>1, <1>5, <1>6, <2>1, <2>2, Zenon DEF MatchedWell
<1>10. ASSUME NEW r \in DOMAIN R \ v
       PROVE  \E b \in Matches(D) : b.row = r /\ \A c \in Matches(D) : c.row = r => c = b
  <2>1. CASE r = t
    <3>1. \A c \in Matches(D) : c.row = r => c = d
      BY <1>1, <1>5, <1>6, <2>1, Zenon DEF MatchedWell
    <3> QED
      BY <1>5, <2>1, <3>1, Zenon
  <2>2. CASE r # t
    <3>1. PICK b \in Matches(K) : b.row = r /\ \A c \in Matches(K) : c.row = r => c = b
      BY <1>1, <1>6, <2>2, Zenon DEF MatchedWell
    <3> QED
      BY <1>5, <2>2, <3>1, Zenon
  <2> QED
    BY <2>1, <2>2, Zenon
<1>11. \A c \in D : c.kind = "missing_in_statement" => c.row \in v /\ c = LeftOver(c.row)
  BY Zenon
<1>12. MatchedWell(R, p + 1, v, D)
  BY <1>8, <1>9, <1>10, Zenon DEF MatchedWell
<1> QED
  BY <1>2, <1>3, <1>4, <1>11, <1>12, Zenon DEF Looked

-------------------------------------------------------------------------------
(* Scores.                                                                 *)

\* The codes that have a weight.
Codes ==
    {"AMT_EXACT", "AMT_SIGN_FLIPPED", "AMT_TENFOLD", "AMT_OFFSET_10", "AMT_OFFSET_100",
     "AMT_OFFSET_1000", "OTHER_CURRENCY", "FX_RATE_WITHIN_TOL", "FX_ROUNDING", "DATE_SAME",
     "DATE_WITHIN_TOL", "DATE_FAR", "POSTING_LAG_TYPICAL", "MERCHANT_ALIAS",
     "MERCHANT_NORMALIZED_EQ", "MERCHANT_FUZZY", "MERCHANT_MISMATCH", "CARD_LAST4_MATCH",
     "CARD_LAST4_MISMATCH", "INSTALLMENT_SEQ_MATCH", "INSTALLMENT_MISMATCH", "REFUND_PAIR",
     "DUPLICATE_SUSPECT", "USER_HISTORY_MATCH", "BALANCES_STATEMENT"}

\* Weights are whole,
LEMMA WeightIs == E!Weight \in [Codes -> Int] /\ DOMAIN E!Weight = Codes
<1>1. DOMAIN E!Weight = Codes
  BY SMT DEF E!Weight, Codes
<1>2. \A code \in Codes : E!Weight[code] \in Int
  BY SMT DEF E!Weight, Codes
<1>3. E!Weight = [code \in Codes |-> E!Weight[code]]
  BY <1>1, SMT DEF E!Weight
<1> HIDE DEF Codes
<1> QED
  BY <1>1, <1>2, <1>3, SMT

\* ... there are only so many,
LEMMA CodesAreFinite == IsFiniteSet(Codes)
<1> DEFINE V == {"AMT_EXACT", "AMT_SIGN_FLIPPED", "AMT_TENFOLD", "AMT_OFFSET_10", "AMT_OFFSET_100"}
           B == {"AMT_OFFSET_1000", "OTHER_CURRENCY", "FX_RATE_WITHIN_TOL", "FX_ROUNDING", "DATE_SAME"}
           D == {"DATE_WITHIN_TOL", "DATE_FAR", "POSTING_LAG_TYPICAL", "MERCHANT_ALIAS",
                 "MERCHANT_NORMALIZED_EQ"}
           F == {"MERCHANT_FUZZY", "MERCHANT_MISMATCH", "CARD_LAST4_MATCH",
                 "CARD_LAST4_MISMATCH", "INSTALLMENT_SEQ_MATCH"}
           G == {"INSTALLMENT_MISMATCH", "REFUND_PAIR", "DUPLICATE_SUSPECT", "USER_HISTORY_MATCH",
                 "BALANCES_STATEMENT"}
<1>1. ASSUME NEW a, NEW b, NEW c, NEW d, NEW e
      PROVE  IsFiniteSet({a, b, c, d, e})
  <2>1. IsFiniteSet({a}) /\ IsFiniteSet({b}) /\ IsFiniteSet({c}) /\ IsFiniteSet({d}) /\ IsFiniteSet({e})
    BY FS_Singleton, Zenon
  <2>2. IsFiniteSet({a} \cup {b}) /\ IsFiniteSet({c} \cup {d})
    BY <2>1, FS_Union, Zenon
  <2>3. IsFiniteSet(({a} \cup {b}) \cup ({c} \cup {d}))
    BY <2>2, FS_Union, Zenon
  <2>4. IsFiniteSet((({a} \cup {b}) \cup ({c} \cup {d})) \cup {e})
    BY <2>1, <2>3, FS_Union, Zenon
  <2>5. {a, b, c, d, e} = (({a} \cup {b}) \cup ({c} \cup {d})) \cup {e}
    BY Zenon
  <2> QED
    BY <2>4, <2>5, Zenon
<1>2. IsFiniteSet(V) /\ IsFiniteSet(B) /\ IsFiniteSet(D) /\ IsFiniteSet(F) /\ IsFiniteSet(G)
  BY <1>1, Zenon
<1>3. Codes = (((V \cup B) \cup D) \cup F) \cup G
  BY SMT DEF Codes
<1> HIDE DEF V, B, D, F, G
<1>4. IsFiniteSet(V \cup B)
  BY <1>2, FS_Union, Zenon
<1>5. IsFiniteSet((V \cup B) \cup D)
  BY <1>2, <1>4, FS_Union, Zenon
<1>6. IsFiniteSet(((V \cup B) \cup D) \cup F)
  BY <1>2, <1>5, FS_Union, Zenon
<1> QED
  BY <1>2, <1>3, <1>6, FS_Union, Zenon

\* ... and those of a pair are among them.
LEMMA CodesOfAPair ==
    ASSUME NEW a, NEW b, NEW facts \in SUBSET Codes
    PROVE  E!ReasoningCodes(a, b, facts) \subseteq Codes
<1>1. E!AmountCode(a, b) \subseteq Codes
  BY SMT DEF E!AmountCode, Codes
<1>2. E!DateCode(a, b, facts) \subseteq Codes
  BY SMT DEF E!DateCode, E!DayCode, Codes
<1>3. E!MerchantCode(a, b, facts) \subseteq Codes
  BY SMT DEF E!MerchantCode, Codes
<1>4. E!CardAndInstallmentCode(a, b) \subseteq Codes
  BY SMT DEF E!CardAndInstallmentCode, Codes
<1>5. "REFUND_PAIR" \in Codes
  BY SMT DEF Codes
<1> HIDE DEF Codes
<1> QED
  BY <1>1, <1>2, <1>3, <1>4, <1>5, SMT DEF E!ReasoningCodes

\* A sum of weights is cut at 0 and 1.
LEMMA SumIsAScore ==
    ASSUME NEW X \in SUBSET Codes
    PROVE  E!Sum(X) \in Int /\ 0 <= E!Sum(X) /\ E!Sum(X) <= 10000
<1> DEFINE s == SumFunctionOnSet(E!Weight, X)
<1>1. s \in Int
  BY WeightIs, CodesAreFinite, SumRecursion, Zenon
<1>2. E!Sum(X) = E!Max({0, E!Min({10000, s})})
  BY PartialSumIs, SMT DEF E!Sum
<1> HIDE DEF s
<1>3. E!Min({10000, s}) \in Int /\ E!Min({10000, s}) <= 10000
  BY <1>1, LeastOfTwo, SMT
<1> DEFINE m == E!Min({10000, s})
<1> HIDE DEF m
<1>4. m \in Int /\ m <= 10000 /\ E!Sum(X) = E!Max({0, m})
  BY <1>2, <1>3, SMT DEF m
<1>5. E!Max({0, m}) = IF 0 <= m THEN m ELSE 0
  BY <1>4, SMT DEF E!Max
<1> QED
  BY <1>4, <1>5, SMT

\* A score is within 0 and 1, and below 0.9 when something speaks against the pair.
LEMMA ScoreIs ==
    ASSUME NEW a, NEW b, NEW facts \in SUBSET Codes
    PROVE  LET s == E!ScorePair(a, b, facts)
           IN  /\ s \in Int /\ 0 <= s /\ s <= 10000
               /\ E!ReasoningCodes(a, b, facts) \cap E!Contradictions # {} => s < 9000
<1> DEFINE X == E!ReasoningCodes(a, b, facts)
           s == E!ScorePair(a, b, facts)
           t == E!Sum(X)
<1>1. t \in Int /\ 0 <= t /\ t <= 10000
  BY CodesOfAPair, SumIsAScore, SMT
<1>2. s = IF X \cap E!Contradictions # {} THEN E!Min({t, 8999}) ELSE t
  BY SMT DEF E!ScorePair
<1> HIDE DEF X, s, t
<1>3. E!Min({t, 8999}) = IF t <= 8999 THEN t ELSE 8999
  BY <1>1, LeastOfTwo, SMT
<1>4. s \in Int /\ 0 <= s /\ s <= 10000 /\ (X \cap E!Contradictions # {} => s < 9000)
  BY <1>1, <1>2, <1>3, SMT
<1> QED
  BY <1>4, SMT DEF X, s

\* What contradicts itself is never certain.
LEMMA NeverCertain ==
    ASSUME Shape(items, rows)
    PROVE  E!ContradictionIsNeverCertain
<1>1. ASSUME NEW a, NEW b, NEW facts \in SUBSET Codes,
             E!ReasoningCodes(a, b, facts) \cap E!Contradictions = {}
      PROVE  /\ \/ a.merchant = b.merchant \/ {a.merchant, b.merchant} \in Similar
                \/ None \in {a.merchant, b.merchant} \/ "MERCHANT_ALIAS" \in facts
             /\ None \notin {a.installment, b.installment} => a.installment = b.installment
             /\ None \notin {a.occurred, b.occurred} => E!Abs(a.occurred - b.occurred) <= 5
  <2>1. \A code \in E!Contradictions : code \notin E!ReasoningCodes(a, b, facts)
    BY <1>1, Zenon
  <2>2. \/ a.merchant = b.merchant \/ {a.merchant, b.merchant} \in Similar
        \/ None \in {a.merchant, b.merchant} \/ "MERCHANT_ALIAS" \in facts
    <3>1. "MERCHANT_MISMATCH" \notin E!MerchantCode(a, b, facts)
      BY <2>1, SMT DEF E!ReasoningCodes, E!Contradictions
    <3> QED
      BY <3>1, Zenon DEF E!MerchantCode
  <2>3. None \notin {a.installment, b.installment} => a.installment = b.installment
    <3>1. "INSTALLMENT_MISMATCH" \notin E!CardAndInstallmentCode(a, b)
      BY <2>1, SMT DEF E!ReasoningCodes, E!Contradictions
    <3> QED
      BY <3>1, Zenon DEF E!CardAndInstallmentCode
  <2>4. None \notin {a.occurred, b.occurred} => E!Abs(a.occurred - b.occurred) <= 5
    <3>1. "DATE_FAR" \notin E!DateCode(a, b, facts)
      BY <2>1, SMT DEF E!ReasoningCodes, E!Contradictions
    <3> SUFFICES ASSUME None \notin {a.occurred, b.occurred}
                 PROVE  E!Abs(a.occurred - b.occurred) <= 5
      BY Zenon
    <3>2. E!Tell(a, b, "occurred")
      BY SMT DEF E!Tell
    <3>3. E!DayCode(a, b, "occurred") # "DATE_FAR"
      BY <3>1, <3>2, Zenon DEF E!DateCode
    <3>4. a["occurred"] = a.occurred /\ b["occurred"] = b.occurred
      OBVIOUS
    <3> QED
      BY <3>3, <3>4, SMT DEF E!DayCode
  <2> QED
    BY <2>2, <2>3, <2>4, Zenon
<1>2. \A facts \in Context : facts \in SUBSET Codes
  BY BookAssumption, WeightIs, Zenon DEF E!EngineAssumption
<1>3. ASSUME NEW i \in DOMAIN items, NEW t \in DOMAIN rows, NEW facts \in Context
      PROVE  LET a == E!StatementRecord(items[i])
                 b == E!TransactionRecord(rows[t])
             IN  \/ E!ScorePair(a, b, facts) < 9000
                 \/ /\ a.merchant = b.merchant \/ {a.merchant, b.merchant} \in Similar
                       \/ None \in {a.merchant, b.merchant} \/ "MERCHANT_ALIAS" \in facts
                    /\ None \notin {a.installment, b.installment} => a.installment = b.installment
                    /\ None \notin {a.occurred, b.occurred} => E!Abs(a.occurred - b.occurred) <= 5
  <2> DEFINE a == E!StatementRecord(items[i])
             b == E!TransactionRecord(rows[t])
  <2>1. E!ReasoningCodes(a, b, facts) \cap E!Contradictions # {} => E!ScorePair(a, b, facts) < 9000
    <3> HIDE DEF a, b
    <3> QED
      BY <1>2, ScoreIs, SMT
  <2> HIDE DEF a, b
  <2>2. \/ E!ScorePair(a, b, facts) < 9000
        \/ /\ a.merchant = b.merchant \/ {a.merchant, b.merchant} \in Similar
              \/ None \in {a.merchant, b.merchant} \/ "MERCHANT_ALIAS" \in facts
           /\ None \notin {a.installment, b.installment} => a.installment = b.installment
           /\ None \notin {a.occurred, b.occurred} => E!Abs(a.occurred - b.occurred) <= 5
    <3> DEFINE low == E!ScorePair(a, b, facts) < 9000
    <3>1. E!ReasoningCodes(a, b, facts) \cap E!Contradictions # {} => low
      BY <2>1, SMT
    <3> HIDE DEF low
    <3>2. \/ low
          \/ /\ a.merchant = b.merchant \/ {a.merchant, b.merchant} \in Similar
                \/ None \in {a.merchant, b.merchant} \/ "MERCHANT_ALIAS" \in facts
             /\ None \notin {a.installment, b.installment} => a.installment = b.installment
             /\ None \notin {a.occurred, b.occurred} => E!Abs(a.occurred - b.occurred) <= 5
      BY <1>1, <1>2, <3>1, Zenon
    <3> QED
      BY <3>2, SMT DEF low
  <2> QED
    BY <2>2, SMT DEF a, b
<1> QED
  BY <1>3, SMT DEF E!ContradictionIsNeverCertain

\* A transaction is taken for a line's only with such a score.
LEMMA ScoreOfALine ==
    ASSUME NEW i, NEW t
    PROVE  E!Score(i, t) \in Int /\ (E!Score(i, t) >= E!LikelyFrom => Likely(E!Score(i, t)))
<1>1. {} \in SUBSET Codes
  OBVIOUS
<1>2. E!Score(i, t) = E!ScorePair(E!StatementRecord(items[i]), E!TransactionRecord(rows[t]), {})
  BY Zenon DEF E!Score
<1> DEFINE a == E!StatementRecord(items[i])
           b == E!TransactionRecord(rows[t])
           s == E!ScorePair(a, b, {})
<1> HIDE DEF a, b
<1>3. s \in Int /\ 0 <= s /\ s <= 10000
  BY <1>1, ScoreIs, SMT
<1> HIDE DEF s
<1>4. E!Score(i, t) = s
  BY <1>2, Zenon DEF s, a, b
<1>5. s >= E!LikelyFrom => Likely(s)
  BY <1>3, SMT DEF Likely, E!LikelyFrom
<1> QED
  BY <1>3, <1>4, <1>5, SMT

\* All scores of a line are whole.
LEMMA ScoreIsWhole == ASSUME NEW i PROVE \A t : E!Score(i, t) \in Int
BY ScoreOfALine, SMT

\* The best transaction for a line is one that was not used.
LEMMA BestIs ==
    ASSUME Shape(items, rows), unused \subseteq DOMAIN rows, NEW i, E!Best(i) # None
    PROVE  E!Best(i) \in unused
<1> DEFINE open == {t \in unused : items[i].reward => rows[t].type = "income"}
           best == {t \in open : \A u \in open : E!Score(i, u) <= E!Score(i, t)}
           f == [t \in open |-> E!Score(i, t)]
<1>1. E!Best(i) = IF open = {} THEN None ELSE E!Min(best)
  BY Zenon DEF E!Best
<1>2. open # {}
  BY <1>1, Zenon
<1>3. IsFiniteSet(open) /\ open \subseteq Int /\ best \subseteq open
  <2>1. IsFiniteSet(DOMAIN rows) /\ DOMAIN rows \subseteq Int /\ open \subseteq DOMAIN rows
    BY Zenon DEF Shape
  <2>2. best \subseteq open
    BY Zenon
  <2> HIDE DEF open, best
  <2> QED
    BY <2>1, <2>2, FS_Subset, Zenon
<1>4. f \in [open -> Int]
  <2>1. \A t : E!Score(i, t) \in Int
    BY ScoreIsWhole, Zenon
  <2> HIDE DEF open
  <2> QED
    BY <2>1, Zenon
<1>5. \E m \in open : \A k \in open : f[k] <= f[m]
  <2> HIDE DEF open, f
  <2> QED
    BY <1>2, <1>3, <1>4, Greatest, Zenon
<1>6. best # {}
  <2>1. PICK m \in open : \A k \in open : f[k] <= f[m]
    BY <1>5, Zenon
  <2>2. \A k \in open : f[k] = E!Score(i, k)
    BY Zenon
  <2>3. \A k \in open : E!Score(i, k) <= E!Score(i, m)
    BY <2>1, <2>2, Zenon
  <2> QED
    BY <2>1, <2>3, Zenon
<1>7. E!Min(best) \in best
  <2>1. best \subseteq Int /\ IsFiniteSet(best)
    <3> HIDE DEF open, best
    <3> QED
      BY <1>3, FS_Subset, Zenon
  <2> HIDE DEF best
  <2> QED
    BY <1>6, <2>1, LeastIs, Zenon
<1> QED
  BY <1>1, <1>2, <1>7, Zenon

\* The transactions that were left over are told at the end.
Closed(u, K, D) ==
    \E X \in {{}, {Unresolved}} : D = K \cup {LeftOver(t) : t \in u} \cup X

\* No match is among what is told at the end,
LEMMA ClosedMatches ==
    ASSUME NEW u, NEW K, NEW D, Closed(u, K, D)
    PROVE  Matches(D) = Matches(K)
<1>1. PICK X \in {{}, {Unresolved}} : D = K \cup {LeftOver(t) : t \in u} \cup X
  BY Zenon DEF Closed
<1> DEFINE over == {LeftOver(t) : t \in u}
<1>2. \A t : LeftOver(t).kind # "match"
  BY SMT DEF LeftOver, E!Candidate
<1>3. Unresolved.kind # "match"
  BY SMT DEF Unresolved, E!Candidate
<1>4. \A c \in over \cup X : c.kind # "match"
  BY <1>2, <1>3, Zenon
<1>5. D = K \cup over \cup X
  BY <1>1, Zenon
<1> HIDE DEF over
<1> QED
  BY <1>4, <1>5, Zenon DEF Matches

\* ... and nothing else is disturbed by it.
LEMMA OverAdded ==
    ASSUME NEW I, NEW R, NEW p, NEW u, NEW e, NEW K, Looked(I, R, p, u, e, K), Shape(I, R),
           NEW D, Closed(u, K, D)
    PROVE  Looked(I, R, p, u, e, D)
<1>0. PICK X : (X = {} \/ X = {Unresolved}) /\ D = K \cup {LeftOver(t) : t \in u} \cup X
  BY Zenon DEF Closed
<1> DEFINE over == {LeftOver(t) : t \in u}
<1>d. D = K \cup over \cup X
  BY <1>0, Zenon
<1>1. \A t : LeftOver(t).item = None /\ LeftOver(t).kind = "missing_in_statement" /\ LeftOver(t).row = t
  BY Zenon DEF LeftOver, E!Candidate
<1>2. Unresolved.item = None /\ Unresolved.kind = "unresolved_difference"
  BY Zenon DEF Unresolved, E!Candidate
<1>3. /\ \A c \in over : c.item = None /\ c.kind = "missing_in_statement" /\ c.row \in u /\ c = LeftOver(c.row)
      /\ \A c \in X : c.item = None /\ c.kind = "unresolved_difference"
  BY <1>0, <1>1, <1>2, Zenon
<1>4. IsFiniteSet(D)
  <2>1. IsFiniteSet(u)
    BY FS_Subset, Zenon DEF Looked, Shape
  <2>2. IsFiniteSet(over)
    <3> HIDE DEF over
    <3> DEFINE f == [t \in u |-> LeftOver(t)]
    <3>1. f \in Surjection(u, over)
      BY Zenon DEF Surjection, over
    <3> HIDE DEF f
    <3> QED
      BY <2>1, <3>1, FS_Surjection, Zenon
  <2>3. IsFiniteSet(X)
    BY <1>0, FS_EmptySet, FS_Singleton, ZenonT(60)
  <2>4. IsFiniteSet(K)
    BY Zenon DEF Looked
  <2> HIDE DEF over
  <2>5. IsFiniteSet(K \cup over)
    BY <2>2, <2>4, FS_Union, Zenon
  <2> QED
    BY <1>d, <2>3, <2>5, FS_Union, Zenon
<1>5. Matches(D) = Matches(K)
  BY ClosedMatches, Zenon
<1>6. Answers(p, D)
  <2>0. p \in Nat
    BY Zenon DEF Looked
  <2>1. \A i \in 1..p : i # None
    BY <2>0, NoneIsNoNumber, SMT
  <2>2. \A c \in over \cup X : c.item = None
    BY <1>3
  <2> HIDE DEF over
  <2>3. Answers(p, K)
    BY Zenon DEF Looked
  <2> QED
    BY <1>d, <2>1, <2>2, <2>3, ZenonT(60) DEF Answers
<1>7. MatchedWell(R, p, u, D) /\ AddsUp(I, R, e, D)
  BY <1>5, Zenon DEF Looked, MatchedWell, AddsUp, SpentOn, OfLines, LinesOf
<1>8. \A c \in D : c.kind = "missing_in_statement" => c.row \in u /\ c = LeftOver(c.row)
  <2>1. \A c \in X : c.kind # "missing_in_statement"
    BY <1>3
  <2>2. \A c \in over : c.row \in u /\ c = LeftOver(c.row)
    BY <1>3
  <2> HIDE DEF over
  <2> QED
    BY <1>d, <2>1, <2>2, Zenon DEF Looked
<1> QED
  BY <1>4, <1>5, <1>6, <1>7, <1>8, Zenon DEF Looked

\* The matches the report counts, with confidence and without.
Certain(K) == {c \in K : c.kind = "match" /\ c.score >= E!ConfidentFrom}
Probable(K) == {c \in K : c.kind = "match" /\ ~(c.score >= E!ConfidentFrom) /\ c.score >= E!LikelyFrom}

\* Each match is counted as one of the two.
LEMMA CertainOrProbable ==
    ASSUME NEW K, IsFiniteSet(K), \A c \in Matches(K) : Likely(c.score)
    PROVE  E!Cardinality(Certain(K)) + E!Cardinality(Probable(K)) = Cardinality(Matches(K))
<1>1. \A s : Likely(s) => s >= E!LikelyFrom
  BY SMT DEF Likely, E!LikelyFrom
<1>2. Certain(K) \subseteq K /\ Probable(K) \subseteq K
  BY SMT DEF Certain, Probable
<1>3. Certain(K) \cup Probable(K) = Matches(K) /\ Certain(K) \cap Probable(K) = {}
  <2>1. \A c \in K : c.kind = "match" => Likely(c.score)
    BY Zenon DEF Matches
  <2> QED
    BY <1>1, <2>1, SMT DEF Certain, Probable, Matches
<1>4. IsFiniteSet(Certain(K)) /\ IsFiniteSet(Probable(K))
  BY <1>2, FS_Subset, Zenon
<1> DEFINE V == Certain(K)
           B == Probable(K)
<1>5. /\ Cardinality(V \cup B) = Cardinality(V) + Cardinality(B) - Cardinality(V \cap B)
      /\ Cardinality(V) \in Nat /\ Cardinality(B) \in Nat
  <2> HIDE DEF V, B
  <2>1. IsFiniteSet(V) /\ IsFiniteSet(B)
    BY <1>4, Zenon DEF V, B
  <2> QED
    BY <2>1, FS_Union, FS_CardinalityType, Zenon
<1>6. Cardinality(V \cap B) = 0
  BY <1>3, FS_EmptySet, Zenon
<1>7. E!Cardinality(V) = Cardinality(V) /\ E!Cardinality(B) = Cardinality(B)
  BY CardinalityIs, Zenon
<1>8. Cardinality(V \cup B) = Cardinality(Matches(K))
  BY <1>3, Zenon
<1> HIDE DEF V, B
<1>9. E!Cardinality(V) + E!Cardinality(B) = Cardinality(Matches(K))
  BY <1>5, <1>6, <1>7, <1>8, SMT
<1> QED
  BY <1>9, Zenon DEF V, B

-------------------------------------------------------------------------------
(* The invariant of the matching of bills.                                 *)

\* The lines that were found missing, and what the search is made among.
MissingOf(I, K) == {n \in DOMAIN I : \E c \in K : c.item = n /\ c.kind = "missing_in_ledger"}
\* A line and a transaction as inputs of the search.
LineOf(I, n) == [id |-> <<"item", n>>, role |-> "statement_unmatched", amount |-> I[n].amount]
RowOf(R, t) == [id |-> <<"row", t>>, role |-> "ledger_unmatched", amount |-> Signed(R[t])]

\* The inputs, by what was found missing and what was not used.
InputsOf(I, R, u, K) ==
    LET lines == E!Cardinality(MissingOf(I, K))
    IN  [n \in 1..E!Min({MaxInputs, lines + E!Cardinality(u)}) |->
            IF n <= lines THEN LineOf(I, E!InOrder(MissingOf(I, K))[n])
            ELSE RowOf(R, E!InOrder(u)[n - lines])]

\* The module's Inputs are those.
LEMMA InputsAre == E!Inputs = InputsOf(items, rows, unused, candidates)
<1>1. E!Missing = MissingOf(items, candidates)
  BY Zenon DEF E!Missing, MissingOf
<1>2. \A n : E!LineInput(n) = LineOf(items, n)
  BY Zenon DEF E!LineInput, LineOf
<1>3. \A t : E!RowInput(t) = RowOf(rows, t)
  BY Zenon DEF E!RowInput, RowOf, Signed
<1> DEFINE M == MissingOf(items, candidates)
           lines == E!Cardinality(M)
           top == E!Min({MaxInputs, lines + E!Cardinality(unused)})
<1>4. E!Inputs = [n \in 1..top |-> IF n <= lines THEN E!LineInput(E!InOrder(M)[n])
                                  ELSE E!RowInput(E!InOrder(unused)[n - lines])]
  BY <1>1, Zenon DEF E!Inputs
<1>5. InputsOf(items, rows, unused, candidates)
        = [n \in 1..top |-> IF n <= lines THEN LineOf(items, E!InOrder(M)[n])
                            ELSE RowOf(rows, E!InOrder(unused)[n - lines])]
  BY Zenon DEF InputsOf
<1> HIDE DEF M, lines, top
<1> QED
  BY <1>2, <1>3, <1>4, <1>5, Zenon

\* What is said of a bill when all of it was looked at.
Reported(I, R, tot, u, e, K, rep) ==
    /\ \A t \in u : LeftOver(t) \in K
    /\ rep.difference = tot - e
    /\ rep.high + rep.low = Cardinality(Matches(K))
    /\ rep.hypotheses = E!SolveDiscrepancy(rep.difference, InputsOf(I, R, u, K), rep.gaveUp)

\* The invariant of the matching of a bill.
EngineState(I, R, tot, p, u, e, K, rep) ==
    /\ Shape(I, R) /\ tot \in Int /\ Looked(I, R, p, u, e, K)
    /\ \A c \in K : c.kind = "missing_in_statement" => p = Len(I)
    /\ rep # None => p = Len(I) /\ Reported(I, R, tot, u, e, K, rep)

\* The invariant of the state.
EngineInv == EngineState(items, rows, total, position, unused, matched, candidates, report)

\* The transactions that are listed are as the ledger has them.
LEMMA ListedShape ==
    ASSUME NEW s, E!ListOfRecords(s.items), E!ListOfRecords(s.rows)
    PROVE  Shape(s.items, E!Listed(s.rows))
<1> DEFINE ledger == s.rows
           kept == {n \in DOMAIN ledger : ~ledger[n].deleted}
           top == E!Min({MaxRows, E!Cardinality(kept)})
<1>1. /\ Len(ledger) \in Nat /\ DOMAIN ledger = 1..Len(ledger)
      /\ \A n \in DOMAIN ledger : ledger[n].amount \in Int
  BY Zenon DEF E!ListOfRecords
<1>2. IsFiniteSet(DOMAIN ledger) /\ DOMAIN ledger \subseteq Int
  <2>1. 1 \in Int /\ Len(ledger) \in Int /\ 1..Len(ledger) \subseteq Int
    BY <1>1, SMT
  <2> QED
    BY <1>1, <2>1, FS_Interval, Zenon
<1>3. IsFiniteSet(kept) /\ kept \subseteq Int /\ kept \subseteq DOMAIN ledger
  <2>1. kept \subseteq DOMAIN ledger
    BY Zenon
  <2> HIDE DEF kept
  <2> QED
    BY <1>2, <2>1, FS_Subset, Zenon
<1> HIDE DEF kept
<1>4. Cardinality(kept) \in Nat /\ E!Cardinality(kept) = Cardinality(kept) /\ MaxRows \in Nat
  BY <1>3, FS_CardinalityType, CardinalityIs, BookAssumption, Zenon DEF E!EngineAssumption
<1>5. top \in Nat /\ top <= Cardinality(kept)
  <2>1. E!Min({MaxRows, Cardinality(kept)})
          = (IF MaxRows <= Cardinality(kept) THEN MaxRows ELSE Cardinality(kept))
    BY <1>4, LeastOfTwo, SMT
  <2> QED
    BY <1>4, <2>1, SMT
<1>6. E!Listed(ledger) = [n \in 1..top |-> ledger[E!InOrder(kept)[n]]]
  BY Zenon DEF E!Listed, kept
<1> HIDE DEF top
<1>7. \A n \in 1..top : E!InOrder(kept)[n] \in kept
  <2>1. \A n \in 1..Cardinality(kept) : E!InOrder(kept)[n] \in kept
    BY <1>3, InOrderIs, Zenon
  <2>2. \A n \in 1..top : n \in 1..Cardinality(kept)
    BY <1>4, <1>5, SMT
  <2> QED
    BY <2>1, <2>2, Zenon
<1>8. DOMAIN E!Listed(ledger) = 1..top
  BY <1>6, Zenon
<1>9. IsFiniteSet(1..top) /\ 1..top \subseteq Int
  <2>1. 1 \in Int /\ top \in Int /\ 1..top \subseteq Int
    BY <1>5, SMT
  <2> QED
    BY <2>1, FS_Interval, Zenon
<1>10. \A t \in DOMAIN E!Listed(ledger) : E!Listed(ledger)[t].amount \in Int
  BY <1>1, <1>3, <1>6, <1>7, <1>8, Zenon
<1> QED
  BY <1>8, <1>9, <1>10, Zenon DEF Shape, E!ListOfRecords

\* Before the first line there is nothing to be true of,
LEMMA NothingLooked ==
    ASSUME NEW I, NEW R, Shape(I, R)
    PROVE  Looked(I, R, 0, DOMAIN R, 0, {})
<1>1. Matches({}) = {} /\ LinesOf({}) = {}
  BY Zenon DEF Matches, LinesOf
<1>2. Cardinality({}) = 0 /\ IsFiniteSet({}) /\ DOMAIN R \ DOMAIN R = {}
  BY FS_EmptySet, Zenon
<1>3. \A g : g \in [{} -> Int] => SumFunction(g) = 0
  BY SumOfNone
<1>4. SpentOn(R, {}) = 0
  <2> DEFINE g == [c \in {} |-> Signed(R[c.row])]
  <2>1. g \in [{} -> Int]
    BY Zenon
  <2>2. SpentOn(R, {}) = SumFunction(g)
    BY <1>1, Zenon DEF SpentOn
  <2> HIDE DEF g
  <2> QED
    BY <1>3, <2>1, <2>2, Zenon
<1>5. OfLines(I, {}) = 0
  <2> DEFINE g == [c \in {} |-> I[c.item].amount]
  <2>1. g \in [{} -> Int]
    BY Zenon
  <2>2. OfLines(I, {}) = SumFunction(g)
    BY <1>1, Zenon DEF OfLines
  <2> HIDE DEF g
  <2> QED
    BY <1>3, <2>1, <2>2, Zenon
<1>6. SumFunction([i \in LinesOf({}) |-> I[i].amount]) = 0
  <2> DEFINE g == [i \in {} |-> I[i].amount]
  <2>1. g \in [{} -> Int]
    BY Zenon
  <2>2. [i \in LinesOf({}) |-> I[i].amount] = g
    BY <1>1, Zenon
  <2> HIDE DEF g
  <2> QED
    BY <1>3, <2>1, <2>2, Zenon
<1>7. AddsUp(I, R, 0, {})
  BY <1>4, <1>5, <1>6, Zenon DEF AddsUp
<1>8. MatchedWell(R, 0, DOMAIN R, {})
  BY <1>1, <1>2, Zenon DEF MatchedWell
<1>9. Answers(0, {})
  <2>1. 1..0 = {}
    BY SMT
  <2> QED
    BY <2>1, Zenon DEF Answers
<1>10. 0 \in Nat /\ 0 <= Len(I)
  BY SMT DEF Shape
<1> QED
  BY <1>2, <1>7, <1>8, <1>9, <1>10, Zenon DEF Looked

\* ... so the invariant holds at first.
LEMMA EngineInit ==
    ASSUME E!Init
    PROVE  EngineInv
<1>1. PICK s \in Statement :
        /\ items = s.items /\ rows = E!Listed(s.rows) /\ total = s.total
        /\ position = 0 /\ unused = DOMAIN rows /\ matched = 0
        /\ candidates = {} /\ report = None
  BY Zenon DEF E!Init
<1>2. E!ListOfRecords(s.items) /\ E!ListOfRecords(s.rows) /\ s.total \in Int
  BY BookAssumption, Zenon DEF E!EngineAssumption
<1>3. Shape(items, rows) /\ total \in Int
  BY <1>1, <1>2, ListedShape, Zenon
<1>4. Looked(items, rows, position, unused, matched, candidates)
  BY <1>1, <1>3, NothingLooked, Zenon
<1> QED
  BY <1>1, <1>3, <1>4, Zenon DEF EngineInv, EngineState

\* It holds when a line was looked at, whatever was found,
LEMMA LineLooked ==
    ASSUME EngineInv, E!MatchLine
    PROVE  EngineInv'
<1> DEFINE i == position + 1
           t == E!Best(i)
           near == t # None /\ E!Score(i, t) >= E!LikelyFrom
<1>1. /\ report = None /\ position < Len(items) /\ position' = i
      /\ items' = items /\ rows' = rows /\ total' = total /\ report' = report
  BY Zenon DEF E!MatchLine
<1>2. \/ /\ near /\ unused' = unused \ {t}
         /\ matched' = matched + Signed(rows[t])
         /\ candidates' = candidates
               \cup {E!Candidate(i, t, "match", E!Score(i, t), "assign_statement")}
      \/ /\ candidates' = candidates
               \cup {E!Candidate(i, t, "amount_mismatch", E!Score(i, t), "acknowledge_unresolved")}
         /\ unused' = unused /\ matched' = matched
      \/ /\ candidates' = candidates
               \cup {E!Candidate(i, None, "missing_in_ledger", 0, E!MissingPatch(i))}
         /\ unused' = unused /\ matched' = matched
  BY Zenon DEF E!MatchLine, E!WithoutMatched, Signed
<1>3. /\ Shape(items, rows) /\ total \in Int
      /\ Looked(items, rows, position, unused, matched, candidates)
      /\ \A c \in candidates : c.kind = "missing_in_statement" => position = Len(items)
  BY Zenon DEF EngineInv, EngineState
<1>4. \A c \in candidates : c.kind # "missing_in_statement"
  <2>1. position # Len(items)
    <3>1. position \in Nat /\ Len(items) \in Nat
      BY <1>3, Zenon DEF Looked, Shape
    <3>2. position < Len(items)
      BY <1>1, Zenon
    <3> QED
      BY <3>1, <3>2, SMT
  <2> QED
    BY <1>3, <2>1, Zenon
<1>5. unused \subseteq DOMAIN rows
  BY <1>3, Zenon DEF Looked
<1> HIDE DEF t
<1>6. \A k \in {"amount_mismatch", "missing_in_ledger", "match"} : k # "missing_in_statement"
  BY SMT
<1>7. /\ Looked(items, rows, i, unused', matched', candidates')
      /\ \A c \in candidates' : c.kind # "missing_in_statement"
  <2>1. CASE /\ near /\ unused' = unused \ {t}
             /\ matched' = matched + Signed(rows[t])
             /\ candidates' = candidates
                   \cup {E!Candidate(i, t, "match", E!Score(i, t), "assign_statement")}
    <3> DEFINE d == E!Candidate(i, t, "match", E!Score(i, t), "assign_statement")
    <3>1. d.item = i /\ d.row = t /\ d.kind = "match" /\ d.score = E!Score(i, t)
      BY Zenon DEF E!Candidate
    <3>2. t \in unused
      BY <1>3, <1>5, <2>1, BestIs, Zenon DEF t
    <3>3. Likely(E!Score(i, t))
      BY <2>1, ScoreOfALine, SMT
    <3> HIDE DEF d
    <3>4. Looked(items, rows, i, unused \ {d.row}, matched + Signed(rows[d.row]), candidates \cup {d})
      BY <1>1, <1>3, <1>4, <3>1, <3>2, <3>3, MatchAdded, Zenon
    <3>5. candidates' = candidates \cup {d}
      BY <2>1, Zenon DEF d
    <3> QED
      BY <1>4, <1>6, <2>1, <3>1, <3>4, <3>5, Zenon
  <2>2. CASE /\ candidates' = candidates
                   \cup {E!Candidate(i, t, "amount_mismatch", E!Score(i, t), "acknowledge_unresolved")}
             /\ unused' = unused /\ matched' = matched
    <3> DEFINE d == E!Candidate(i, t, "amount_mismatch", E!Score(i, t), "acknowledge_unresolved")
    <3>1. d.item = i /\ d.kind = "amount_mismatch"
      BY Zenon DEF E!Candidate
    <3>2. candidates' = candidates \cup {d}
      BY <2>2, Zenon DEF d
    <3> HIDE DEF d
    <3>3. Looked(items, rows, i, unused, matched, candidates \cup {d})
      BY <1>1, <1>3, <3>1, LineAdded, Zenon
    <3> QED
      BY <1>4, <1>6, <2>2, <3>1, <3>2, <3>3, Zenon
  <2>3. CASE /\ candidates' = candidates
                   \cup {E!Candidate(i, None, "missing_in_ledger", 0, E!MissingPatch(i))}
             /\ unused' = unused /\ matched' = matched
    <3> DEFINE d == E!Candidate(i, None, "missing_in_ledger", 0, E!MissingPatch(i))
    <3>1. d.item = i /\ d.kind = "missing_in_ledger"
      BY Zenon DEF E!Candidate
    <3>2. candidates' = candidates \cup {d}
      BY <2>3, Zenon DEF d
    <3> HIDE DEF d
    <3>3. Looked(items, rows, i, unused, matched, candidates \cup {d})
      BY <1>1, <1>3, <3>1, LineAdded, Zenon
    <3> QED
      BY <1>4, <1>6, <2>3, <3>1, <3>2, <3>3, Zenon
  <2> HIDE DEF near
  <2> QED
    BY <1>2, <2>1, <2>2, <2>3, Zenon
<1> HIDE DEF i, near
<1>8. /\ items' = items /\ rows' = rows /\ total' = total /\ report' = None /\ position' = i
  BY <1>1, Zenon
<1>9. EngineState(items, rows, total, i, unused', matched', candidates', None)
  BY <1>3, <1>7, Zenon DEF EngineState
<1> QED
  BY <1>8, <1>9, Zenon DEF EngineInv

\* Nothing is missing that was not missing before.
LEMMA InputsStay ==
    ASSUME NEW I, NEW R, NEW u, NEW K, NEW D, K \subseteq D,
           \A d \in D \ K : d.kind # "missing_in_ledger"
    PROVE  InputsOf(I, R, u, D) = InputsOf(I, R, u, K)
<1>1. MissingOf(I, D) = MissingOf(I, K)
  BY Zenon DEF MissingOf
<1> QED
  BY <1>1, Zenon DEF InputsOf

\* ... when the report was made,
LEMMA ReportMade ==
    ASSUME EngineInv, E!MakeReport
    PROVE  EngineInv'
<1> DEFINE difference == total - matched
           over == {LeftOver(t) : t \in unused}
           X == IF difference # 0 /\ E!Inputs = <<>> THEN {Unresolved} ELSE {}
           D == candidates \cup over \cup X
<1>1. /\ position = Len(items) /\ candidates' = D
      /\ items' = items /\ rows' = rows /\ total' = total /\ position' = position
      /\ unused' = unused /\ matched' = matched
  BY Zenon DEF E!MakeReport, LeftOver, Unresolved
<1>2. PICK gaveUp \in BOOLEAN :
        report' = [difference |-> difference,
                   high |-> E!Cardinality(Certain(D)), low |-> E!Cardinality(Probable(D)),
                   hypotheses |-> E!SolveDiscrepancy(difference, E!Inputs, gaveUp),
                   gaveUp |-> gaveUp, balanced |-> difference = 0]
  BY Zenon DEF E!MakeReport, LeftOver, Unresolved, Certain, Probable
<1>3. /\ Shape(items, rows) /\ total \in Int
      /\ Looked(items, rows, position, unused, matched, candidates)
  BY Zenon DEF EngineInv, EngineState
<1>4. X = {} \/ X = {Unresolved}
  BY Zenon
<1>5. /\ \A c \in over : c.kind = "missing_in_statement"
      /\ \A c \in X : c.kind = "unresolved_difference"
  BY SMT DEF LeftOver, Unresolved, E!Candidate
<1> HIDE DEF X
<1>6. Looked(items, rows, position, unused, matched, D) /\ Matches(D) = Matches(candidates)
  <2>1. Closed(unused, candidates, D)
    BY <1>4, Zenon DEF Closed
  <2> HIDE DEF D
  <2>2. Looked(items, rows, position, unused, matched, D)
    BY <1>3, <2>1, OverAdded, Zenon
  <2>3. Matches(D) = Matches(candidates)
    BY <2>1, ClosedMatches, Zenon
  <2> QED
    BY <2>2, <2>3, Zenon
<1>7. InputsOf(items, rows, unused, D) = E!Inputs
  <2>1. \A d \in D \ candidates : d.kind # "missing_in_ledger"
    BY <1>5, SMT
  <2>2. candidates \subseteq D
    BY Zenon
  <2> HIDE DEF D
  <2> QED
    <3>1. InputsOf(items, rows, unused, D) = InputsOf(items, rows, unused, candidates)
      BY ONLY <2>1, <2>2, InputsStay
    <3> QED
      BY <3>1, InputsAre, Zenon
<1>8. E!Cardinality(Certain(D)) + E!Cardinality(Probable(D)) = Cardinality(Matches(D))
  <2> HIDE DEF D
  <2>1. IsFiniteSet(D) /\ \A c \in Matches(D) : Likely(c.score)
    BY <1>6, Zenon DEF Looked, MatchedWell
  <2> QED
    BY <2>1, CertainOrProbable, Zenon
<1>9. \A t \in unused : LeftOver(t) \in D
  BY Zenon
<1> HIDE DEF D, over, difference
<1>10. /\ report'.difference = difference
       /\ report'.high = E!Cardinality(Certain(D)) /\ report'.low = E!Cardinality(Probable(D))
       /\ report'.hypotheses = E!SolveDiscrepancy(difference, E!Inputs, gaveUp)
       /\ report'.gaveUp = gaveUp
  BY <1>2, Zenon
<1>11. Reported(items, rows, total, unused, matched, D, report')
  <2>1. report'.high + report'.low = Cardinality(Matches(D))
    BY <1>8, <1>10, Zenon
  <2>2. report'.hypotheses
          = E!SolveDiscrepancy(report'.difference, InputsOf(items, rows, unused, D), report'.gaveUp)
    BY <1>7, <1>10, Zenon
  <2> QED
    BY <1>9, <1>10, <2>1, <2>2, Zenon DEF Reported, difference
<1>12. EngineState(items, rows, total, position, unused, matched, D, report')
  BY <1>1, <1>3, <1>6, <1>11, Zenon DEF EngineState
<1> QED
  BY <1>1, <1>12, Zenon DEF EngineInv

\* ... and while nothing of it changes.
LEMMA EngineStays ==
    ASSUME EngineInv, UNCHANGED engine
    PROVE  EngineInv'
<1>1. /\ items' = items /\ rows' = rows /\ total' = total /\ position' = position
      /\ unused' = unused /\ matched' = matched /\ candidates' = candidates /\ report' = report
  BY Zenon DEF engine
<1> QED
  BY <1>1, Zenon DEF EngineInv

\* Every line is answered and no transaction is used twice.
LEMMA LinesAnswered ==
    ASSUME EngineInv
    PROVE  E!EveryLineIsAnswered
<1> SUFFICES ASSUME report # None
             PROVE  /\ \A i \in DOMAIN items : E!Cardinality({c \in candidates : c.item = i}) = 1
                    /\ \A t \in DOMAIN rows :
                          E!Cardinality({c \in candidates :
                              c.row = t /\ c.kind \in {"match", "missing_in_statement"}}) = 1
                    /\ report.high + report.low = E!Cardinality((DOMAIN rows) \ unused)
  BY Zenon DEF E!EveryLineIsAnswered
<1>1. /\ Shape(items, rows) /\ Answers(position, candidates) /\ position = Len(items)
      /\ MatchedWell(rows, position, unused, candidates) /\ unused \subseteq DOMAIN rows
      /\ \A c \in candidates : c.kind = "missing_in_statement" => c.row \in unused /\ c = LeftOver(c.row)
      /\ \A t \in unused : LeftOver(t) \in candidates
      /\ report.high + report.low = Cardinality(Matches(candidates))
  BY Zenon DEF EngineInv, EngineState, Looked, Reported
<1>2. \A x : E!Cardinality({x}) = 1
  BY FS_Singleton, CardinalityIs, Zenon
<1>3. ASSUME NEW i \in DOMAIN items
      PROVE  E!Cardinality({c \in candidates : c.item = i}) = 1
  <2>1. i \in 1..position
    BY <1>1, Zenon DEF Shape
  <2>2. PICK d \in candidates : d.item = i /\ \A c \in candidates : c.item = i => c = d
    BY <1>1, <2>1, Zenon DEF Answers
  <2>3. {c \in candidates : c.item = i} = {d}
    BY <2>2, Zenon
  <2> QED
    BY <1>2, <2>3, Zenon
<1>4. ASSUME NEW t \in DOMAIN rows
      PROVE  E!Cardinality({c \in candidates :
                 c.row = t /\ c.kind \in {"match", "missing_in_statement"}}) = 1
  <2>1. \E d : {c \in candidates : c.row = t /\ c.kind \in {"match", "missing_in_statement"}} = {d}
    <3>1. CASE t \in unused
      <4>w. MatchedWell(rows, position, unused, candidates)
        BY <1>1, Zenon
      <4>r. \A c \in Matches(candidates) : c.row \in DOMAIN rows \ unused
        BY <4>w, Zenon DEF MatchedWell
      <4>1. \A c \in candidates : c.kind = "match" => c.row # t
        BY <3>1, <4>r, ZenonT(60) DEF Matches
      <4>0. LeftOver(t).row = t /\ LeftOver(t).kind = "missing_in_statement"
        BY Zenon DEF LeftOver, E!Candidate
      <4>m. LeftOver(t) \in candidates
        BY <1>1, <3>1, Zenon
      <4>2. LeftOver(t) \in candidates /\ LeftOver(t).row = t /\ LeftOver(t).kind = "missing_in_statement"
        BY <4>0, <4>m, Zenon
      <4>3. \A c \in candidates : c.kind = "missing_in_statement" /\ c.row = t => c = LeftOver(t)
        BY <1>1, Zenon
      <4> QED
        BY <4>1, <4>2, <4>3, Zenon
    <3>2. CASE t \notin unused
      <4>w. MatchedWell(rows, position, unused, candidates)
        BY <1>1, Zenon
      <4>1. PICK d \in Matches(candidates) : d.row = t /\ \A c \in Matches(candidates) : c.row = t => c = d
        BY <3>2, <4>w, Zenon DEF MatchedWell
      <4>2. d \in candidates /\ d.kind = "match" /\ \A c \in candidates : c.kind = "match" /\ c.row = t => c = d
        BY <4>1, Zenon DEF Matches
      <4>3. \A c \in candidates : c.kind = "missing_in_statement" => c.row # t
        BY <1>1, <3>2, Zenon
      <4> QED
        BY <4>1, <4>2, <4>3, Zenon
    <3> QED
      BY <3>1, <3>2, Zenon
  <2> QED
    BY <1>2, <2>1, Zenon
<1>5. report.high + report.low = E!Cardinality((DOMAIN rows) \ unused)
  BY <1>1, CardinalityIs, Zenon DEF MatchedWell
<1> QED
  BY <1>3, <1>4, <1>5, Zenon

-------------------------------------------------------------------------------
(* The report adds up.                                                     *)

\* What a transaction counts for in the search is what it is subtracted as.
LEMMA AmountOfRow ==
    ASSUME NEW t, rows[t].amount \in Int
    PROVE  E!Amount(<<"row", t>>) = -Signed(rows[t]) /\ E!Amount(<<"row", t>>) \in Int
<1> DEFINE r == rows[t]
           id == <<"row", t>>
<1>1. id[1] # "item" /\ id[2] = t
  BY SMT
<1> HIDE DEF id
<1>2. E!Amount(id) = IF rows[t].type \in {"refund", "income"} THEN E!Abs(rows[t].amount)
                     ELSE -E!Abs(rows[t].amount)
  BY <1>1, Zenon DEF E!Amount
<1>3. E!Abs(rows[t].amount) \in Int
  BY SMT DEF E!Abs
<1>4. Signed(rows[t]) = IF rows[t].type \in {"refund", "income"} THEN -E!Abs(rows[t].amount)
                        ELSE E!Abs(rows[t].amount)
  BY Zenon DEF Signed, E!SignedLedgerAmount
<1>5. E!Amount(id) = -Signed(rows[t]) /\ E!Amount(id) \in Int
  BY <1>2, <1>3, <1>4, SMT
<1> QED
  BY <1>5, Zenon DEF id

\* A line counts for its amount.
LEMMA AmountOfLine == ASSUME NEW n PROVE E!Amount(<<"item", n>>) = items[n].amount
<1> DEFINE id == <<"item", n>>
<1>1. id[1] = "item" /\ id[2] = n
  BY SMT
<1> HIDE DEF id
<1>2. E!Amount(id) = items[n].amount
  BY <1>1, Zenon DEF E!Amount
<1> QED
  BY <1>2, Zenon DEF id

\* The lines that were not matched, and by how much a match is not the line.
Alone(I, K) == SumFunction([i \in (DOMAIN I) \ LinesOf(K) |-> I[i].amount])
OffBy(I, R, K) == SumFunction([c \in Matches(K) |-> I[c.item].amount + -Signed(R[c.row])])

\* The lines sum to what was matched, to what was not, and to what matches are off by.
LinesAddUp(I, R, e, K) ==
    /\ e \in Int /\ Alone(I, K) \in Int /\ OffBy(I, R, K) \in Int
    /\ SumFunction([i \in DOMAIN I |-> I[i].amount]) = Alone(I, K) + OffBy(I, R, K) + e

\* That is so after any number of lines.
LEMMA SumsOfMatches ==
    ASSUME NEW I, NEW R, NEW p, NEW u, NEW e, NEW K, Looked(I, R, p, u, e, K), Shape(I, R)
    PROVE  LinesAddUp(I, R, e, K)
<1>1. /\ IsFiniteSet(K) /\ p \in Nat /\ p <= Len(I) /\ u \subseteq DOMAIN R
      /\ MatchedWell(R, p, u, K) /\ AddsUp(I, R, e, K)
  BY Zenon DEF Looked
<1>2. /\ Len(I) \in Nat /\ DOMAIN I = 1..Len(I) /\ \A i \in DOMAIN I : I[i].amount \in Int
      /\ \A t \in DOMAIN R : Signed(R[t]) \in Int
  BY SignedIs, Zenon DEF Shape
<1> DEFINE M == Matches(K)
           L == LinesOf(K)
           D == DOMAIN I
           f == [i \in D |-> I[i].amount]
           g == [i \in L |-> I[i].amount]
           h == [i \in D \ L |-> I[i].amount]
           a == [c \in M |-> I[c.item].amount]
           b == [c \in M |-> Signed(R[c.row])]
           k == [c \in M |-> I[c.item].amount + -Signed(R[c.row])]
<1>3. IsFiniteSet(M) /\ IsFiniteSet(D)
  <2>1. M \subseteq K
    BY Zenon DEF Matches
  <2>2. 1 \in Int /\ Len(I) \in Int
    BY <1>2, SMT
  <2> HIDE DEF M
  <2> QED
    BY <1>1, <1>2, <2>1, <2>2, FS_Interval, FS_Subset, Zenon
<1>4. \A c \in M : c.item \in D /\ c.row \in DOMAIN R
  <2>1. \A i \in 1..p : i \in D
    BY <1>1, <1>2, SMT
  <2> QED
    BY <1>1, <2>1, Zenon DEF MatchedWell
<1>5. L \subseteq D
  BY <1>4, Zenon DEF LinesOf
<1>6. /\ f \in [D -> Int] /\ g \in [L -> Int] /\ h \in [D \ L -> Int]
      /\ \A i \in L : g[i] = f[i]
      /\ \A i \in D \ L : h[i] = f[i]
  <2> HIDE DEF L, D
  <2>1. \A i \in D : I[i].amount \in Int
    BY <1>2, Zenon DEF D
  <2> QED
    BY <1>5, <2>1, Zenon
<1>7. SumFunction(f) = SumFunction(g) + SumFunction(h)
  <2> HIDE DEF f, g, h, L, D
  <2>1. Parts(D, f, L, g, h)
    BY <1>3, <1>5, <1>6, Zenon DEF Parts
  <2> QED
    BY <2>1, SumSplits
<1>8. a \in [M -> Int] /\ b \in [M -> Int] /\ k \in [M -> Int] /\ \A c \in M : a[c] = b[c] + k[c]
  <2>1. \A c \in M : I[c.item].amount \in Int /\ Signed(R[c.row]) \in Int
    BY <1>2, <1>4, Zenon
  <2> HIDE DEF M
  <2> QED
    BY <2>1, SMT
<1>9. SumFunction(a) = SumFunction(b) + SumFunction(k)
  <2> HIDE DEF a, b, k, M
  <2>1. SumFunctionOnSet(a, M) = SumFunctionOnSet(b, M) + SumFunctionOnSet(k, M)
    BY <1>3, <1>8, SumOfBoth, M \in SUBSET M
  <2>2. DOMAIN a = M /\ DOMAIN b = M /\ DOMAIN k = M
    BY <1>8, Zenon
  <2> QED
    BY <2>1, <2>2, Zenon DEF SumFunction
<1>10. ASSUME NEW T, IsFiniteSet(T), NEW q \in [T -> Int] PROVE SumFunction(q) \in Int
  <2>1. SumFunctionOnSet(q, T) \in Int
    BY <1>10, SumRecursion, T \in SUBSET T
  <2> QED
    BY <2>1, Zenon DEF SumFunction
<1>11. SumFunction(b) \in Int /\ SumFunction(k) \in Int /\ SumFunction(h) \in Int
  <2>1. IsFiniteSet(D \ L)
    BY <1>3, FS_Difference, Zenon
  <2> HIDE DEF b, k, h, M, D, L
  <2> QED
    BY <1>3, <1>6, <1>8, <1>10, <2>1, Zenon
<1>12. e = SumFunction(b) /\ SumFunction(g) = SumFunction(a)
  BY <1>1, Zenon DEF AddsUp, SpentOn, OfLines
<1>13. Alone(I, K) = SumFunction(h) /\ OffBy(I, R, K) = SumFunction(k)
  BY Zenon DEF Alone, OffBy
<1>14. SumFunction([i \in DOMAIN I |-> I[i].amount]) = SumFunction(f)
  BY Zenon
<1> HIDE DEF f, g, h, a, b, k
<1> QED
  BY <1>7, <1>9, <1>11, <1>12, <1>13, <1>14, SMT DEF LinesAddUp

\* The report adds up.
LEMMA DifferenceAddsUp ==
    ASSUME EngineInv, report # None
    PROVE  LET paired == {c \in candidates : c.kind = "match"}
               lines == (DOMAIN items) \ {c.item : c \in paired}
           IN  report.difference =
                 total - E!SumFunction([i \in DOMAIN items |-> items[i].amount])
                 + E!SumFunction([i \in lines |-> items[i].amount])
                 + E!SumFunction([c \in paired |-> items[c.item].amount + E!Amount(<<"row", c.row>>)])
<1> DEFINE paired == {c \in candidates : c.kind = "match"}
           lines == (DOMAIN items) \ {c.item : c \in paired}
<1>1. /\ Shape(items, rows) /\ total \in Int
      /\ Looked(items, rows, position, unused, matched, candidates)
      /\ report.difference = total - matched
  BY Zenon DEF EngineInv, EngineState, Reported
<1>2. paired = Matches(candidates) /\ lines = (DOMAIN items) \ LinesOf(candidates)
  BY Zenon DEF Matches, LinesOf
<1> DEFINE off == [c \in paired |-> items[c.item].amount + E!Amount(<<"row", c.row>>)]
<1>3. off = [c \in Matches(candidates) |-> items[c.item].amount + -Signed(rows[c.row])]
  <2>1. \A c \in Matches(candidates) : c.row \in DOMAIN rows
    BY <1>1, Zenon DEF Looked, MatchedWell
  <2>2. \A c \in Matches(candidates) : E!Amount(<<"row", c.row>>) = -Signed(rows[c.row])
    BY <1>1, <2>1, AmountOfRow, Zenon DEF Shape
  <2> HIDE DEF paired
  <2> QED
    BY <1>2, <2>2, Zenon
<1>4. /\ matched \in Int /\ Alone(items, candidates) \in Int /\ OffBy(items, rows, candidates) \in Int
      /\ SumFunction([i \in DOMAIN items |-> items[i].amount])
            = Alone(items, candidates) + OffBy(items, rows, candidates) + matched
  <2>1. LinesAddUp(items, rows, matched, candidates)
    BY <1>1, SumsOfMatches, Zenon
  <2> QED
    BY <2>1, Zenon DEF LinesAddUp
<1>5. SumFunction([i \in lines |-> items[i].amount]) = Alone(items, candidates)
  <2> HIDE DEF lines
  <2> QED
    BY <1>2, Zenon DEF Alone
<1>6. SumFunction(off) = OffBy(items, rows, candidates)
  <2> HIDE DEF off
  <2> QED
    BY <1>3, Zenon DEF OffBy
<1> HIDE DEF lines, off
<1>7. report.difference =
        total - SumFunction([i \in DOMAIN items |-> items[i].amount])
        + SumFunction([i \in lines |-> items[i].amount]) + SumFunction(off)
  <2> DEFINE all == SumFunction([i \in DOMAIN items |-> items[i].amount])
             some == SumFunction([i \in lines |-> items[i].amount])
  <2>1. all = Alone(items, candidates) + OffBy(items, rows, candidates) + matched
    BY <1>4, Zenon
  <2>2. some = Alone(items, candidates)
    BY <1>5, Zenon
  <2> HIDE DEF all, some
  <2>3. report.difference = total - all + some + SumFunction(off)
    BY <1>1, <1>4, <1>6, <2>1, <2>2, SMT
  <2> QED
    BY <2>3, Zenon DEF all, some
<1>8. \A q : E!SumFunction(q) = SumFunction(q)
  BY SumIs, Zenon
<1>9. report.difference =
        total - E!SumFunction([i \in DOMAIN items |-> items[i].amount])
        + E!SumFunction([i \in lines |-> items[i].amount]) + E!SumFunction(off)
  BY <1>7, <1>8, Zenon
<1> QED
  BY <1>9, Zenon DEF lines, off

-------------------------------------------------------------------------------
(* What explains a difference.                                             *)

\* What the search is made among: each thing once, with a whole amount.
Searchable(in, N) ==
    /\ N \in Nat /\ DOMAIN in = 1..N
    /\ \A n \in 1..N : /\ in[n].role \in {"statement_unmatched", "ledger_unmatched"}
                       /\ E!CombinationDelta(in[n]) \in Int
    /\ \A m \in 1..N : \A n \in 1..N : m # n => in[m].id # in[n].id

\* The things that hypotheses and inputs name.
IdsOf(H) == {h.ids : h \in H}
AllOf(in) == {in[n] : n \in DOMAIN in}
NamesOf(in) == {in[n].id : n \in DOMAIN in}
NameOf(in) == [n \in DOMAIN in |-> in[n].id]

\* The amounts are those of the names.
Told(in, w) == \A n \in DOMAIN in : w[in[n].id] = E!CombinationDelta(in[n])

\* The inputs number their names.
LEMMA NamesNumbered ==
    ASSUME NEW in, NEW N, Searchable(in, N)
    PROVE  Numbered(NamesOf(in), N, NameOf(in)) /\ IsFiniteSet(NamesOf(in))
<1>1. N \in Nat /\ DOMAIN in = 1..N /\ \A m \in 1..N : \A n \in 1..N : m # n => in[m].id # in[n].id
  BY Zenon DEF Searchable
<1>2. Numbered(NamesOf(in), N, NameOf(in))
  BY <1>1, Zenon DEF Numbered, NamesOf, NameOf
<1>3. NameOf(in) \in Surjection(1..N, NamesOf(in))
  BY <1>1, Zenon DEF Surjection, NamesOf, NameOf
<1>4. IsFiniteSet(1..N)
  <2>1. 1 \in Int /\ N \in Int
    BY <1>1, SMT
  <2> QED
    BY <2>1, FS_Interval, Zenon
<1>5. IsFiniteSet(NamesOf(in))
  BY <1>3, <1>4, FS_Surjection, Zenon
<1> QED
  BY <1>2, <1>5, Zenon

\* Nothing that is searched is of a kind with a common mistake.
LEMMA NothingCommon ==
    ASSUME NEW in, NEW N, Searchable(in, N), NEW d
    PROVE  E!CommonHypotheses(d, AllOf(in)) = {}
<1>1. \A c \in AllOf(in) : c.role \in {"statement_unmatched", "ledger_unmatched"}
  BY Zenon DEF AllOf, Searchable
<1>2. \A c \in AllOf(in) : c.role # "matched"
  BY <1>1, SMT
<1>3. \A c \in AllOf(in) : d \notin E!CommonDeltas(c)
  <2> SUFFICES ASSUME NEW c \in AllOf(in) PROVE d \notin E!CommonDeltas(c)
    OBVIOUS
  <2>1. c.role = "statement_unmatched" \/ c.role = "ledger_unmatched"
    BY <1>1, Zenon
  <2> QED
    BY <2>1, SMT DEF E!CommonDeltas
<1> QED
  BY <1>2, <1>3, Zenon DEF E!CommonHypotheses

\* A hypothesis names the things it is made of.
LEMMA IdsOfHypothesis == ASSUME NEW k, NEW ids, NEW d PROVE E!Hypothesis(k, ids, d).ids = ids
BY Zenon DEF E!Hypothesis

\* The search for one finds the sets of one of these numbers.
LEMMA SingleIs ==
    ASSUME NEW in, NEW N, Searchable(in, N), NEW w, Told(in, w), NEW d, NEW S
    PROVE  S \in IdsOf(E!SingleHypotheses(d, AllOf(in))) <=> OneOf(N, NameOf(in), w, d, S)
<1>1. DOMAIN in = 1..N
  BY Zenon DEF Searchable
<1>2. ASSUME NEW n \in 1..N
      PROVE  /\ w[NameOf(in)[n]] = E!CombinationDelta(in[n]) /\ NameOf(in)[n] = in[n].id
             /\ (E!CombinationDelta(in[n]) = d)
                   <=> (\/ in[n].role = "statement_unmatched" /\ in[n].amount = d
                        \/ in[n].role = "ledger_unmatched" /\ -in[n].amount = d)
  <2>1. NameOf(in)[n] = in[n].id
    BY <1>1, Zenon DEF NameOf
  <2>2. w[in[n].id] = E!CombinationDelta(in[n])
    BY <1>1, Zenon DEF Told
  <2>3. in[n].role = "statement_unmatched" \/ in[n].role = "ledger_unmatched"
    BY Zenon DEF Searchable
  <2>4. E!CombinationDelta(in[n])
          = IF in[n].role = "ledger_unmatched" THEN -in[n].amount ELSE in[n].amount
    BY Zenon DEF E!CombinationDelta
  <2>5. (E!CombinationDelta(in[n]) = d)
           <=> (\/ in[n].role = "statement_unmatched" /\ in[n].amount = d
                \/ in[n].role = "ledger_unmatched" /\ -in[n].amount = d)
    BY <2>3, <2>4, SMT
  <2> QED
    BY <2>1, <2>2, <2>5, Zenon
<1> DEFINE fits(c) == \/ c.role = "statement_unmatched" /\ c.amount = d
                      \/ c.role = "ledger_unmatched" /\ -c.amount = d
<1>3. S \in IdsOf(E!SingleHypotheses(d, AllOf(in)))
         <=> \E c \in AllOf(in) : fits(c) /\ S = {c.id}
  <2>1. E!SingleHypotheses(d, AllOf(in))
          = {E!Hypothesis("single_missing", {c.id}, d) : c \in {c \in AllOf(in) : fits(c)}}
    BY Zenon DEF E!SingleHypotheses
  <2> DEFINE G == {c \in AllOf(in) : fits(c)}
  <2>2. IdsOf(E!SingleHypotheses(d, AllOf(in))) = {E!Hypothesis("single_missing", {c.id}, d).ids : c \in G}
    BY <2>1, ZenonT(60) DEF IdsOf
  <2>3. \A c \in G : E!Hypothesis("single_missing", {c.id}, d).ids = {c.id}
    BY IdsOfHypothesis, Zenon
  <2>4. S \in IdsOf(E!SingleHypotheses(d, AllOf(in))) <=> \E c \in G : S = {c.id}
    <3> HIDE DEF G
    <3> QED
      BY <2>2, <2>3, Zenon
  <2>5. \A c : c \in G <=> c \in AllOf(in) /\ fits(c)
    BY Zenon
  <2> HIDE DEF G, fits
  <2> QED
    BY <2>4, <2>5, Zenon
<1>4. \A n \in 1..N : fits(in[n]) <=> E!CombinationDelta(in[n]) = d
  BY <1>2, Zenon
<1> HIDE DEF fits
<1>5. (\E c \in AllOf(in) : fits(c) /\ S = {c.id}) <=> \E n \in 1..N : fits(in[n]) /\ S = {in[n].id}
  BY <1>1, Zenon DEF AllOf
<1>6. (\E n \in 1..N : fits(in[n]) /\ S = {in[n].id}) <=> OneOf(N, NameOf(in), w, d, S)
  <2>1. \A n \in 1..N : w[NameOf(in)[n]] = E!CombinationDelta(in[n]) /\ NameOf(in)[n] = in[n].id
    BY <1>2, Zenon
  <2> QED
    BY <1>4, <2>1, Zenon DEF OneOf
<1> QED
  BY <1>3, <1>5, <1>6, Zenon

\* All inputs are terms of a sum.
LEMMA TermsAre ==
    ASSUME NEW in, NEW N, Searchable(in, N)
    PROVE  E!CombinationTerms(in) = 1..N
BY Zenon DEF Searchable, E!CombinationTerms

\* The search for two finds those of two, ...
LEMMA TwoSumIs ==
    ASSUME NEW in, NEW N, Searchable(in, N), NEW w, Told(in, w), NEW d, NEW S
    PROVE  S \in IdsOf(E!TwoSum(d, in)) <=> TwoOf(N, NameOf(in), w, d, S)
<1>1. DOMAIN in = 1..N /\ E!CombinationTerms(in) = 1..N
  BY TermsAre, Zenon DEF Searchable
<1>2. \A n \in 1..N : w[NameOf(in)[n]] = E!CombinationDelta(in[n]) /\ NameOf(in)[n] = in[n].id
  BY <1>1, Zenon DEF Told, NameOf
<1> DEFINE J == 1..N
           fit(m, n) == m < n /\ E!CombinationDelta(in[m]) + E!CombinationDelta(in[n]) = d
           H(p) == E!Hypothesis("two_sum", {in[p[1]].id, in[p[2]].id}, d)
<1>3. E!TwoSum(d, in) = {H(p) : p \in {p \in J \X J : fit(p[1], p[2])}}
  <2>1. E!TwoSum(d, in)
          = {E!Hypothesis("two_sum", {in[p[1]].id, in[p[2]].id}, d) :
               p \in {p \in E!CombinationTerms(in) \X E!CombinationTerms(in) :
                  p[1] < p[2]
                  /\ E!CombinationDelta(in[p[1]]) + E!CombinationDelta(in[p[2]]) = d}}
    BY Zenon DEF E!TwoSum
  <2> QED
    BY <1>1, <2>1, Zenon
<1>h. ASSUME NEW p PROVE H(p).ids = {in[p[1]].id, in[p[2]].id}
  BY IdsOfHypothesis, Zenon
<1>4. TwoOf(N, NameOf(in), w, d, S)
        <=> \E m \in J : \E n \in J : fit(m, n) /\ S = {in[m].id, in[n].id}
  BY <1>2, ZenonT(60) DEF TwoOf
<1> HIDE DEF J, fit, H
<1>5. S \in IdsOf(E!TwoSum(d, in)) <=> \E p \in J \X J : fit(p[1], p[2]) /\ S = {in[p[1]].id, in[p[2]].id}
  <2> DEFINE Q == {p \in J \X J : fit(p[1], p[2])}
  <2>0. \A p : p \in Q <=> p \in J \X J /\ fit(p[1], p[2])
    BY Zenon
  <2> HIDE DEF Q
  <2>1. ASSUME S \in IdsOf(E!TwoSum(d, in))
        PROVE  \E p \in J \X J : fit(p[1], p[2]) /\ S = {in[p[1]].id, in[p[2]].id}
    <3>1. PICK h \in E!TwoSum(d, in) : S = h.ids
      BY <2>1, Zenon DEF IdsOf
    <3>2. PICK p \in Q : h = H(p)
      BY <1>3, <3>1, Zenon DEF Q
    <3>3. S = {in[p[1]].id, in[p[2]].id}
      BY <1>h, <3>1, <3>2, Zenon
    <3> QED
      BY <2>0, <3>2, <3>3, Zenon
  <2>2. ASSUME NEW p \in J \X J, fit(p[1], p[2]) /\ S = {in[p[1]].id, in[p[2]].id}
        PROVE  S \in IdsOf(E!TwoSum(d, in))
    <3>1. p \in Q
      BY <2>0, <2>2, Zenon
    <3>2. H(p) \in E!TwoSum(d, in)
      BY <1>3, <3>1, Zenon DEF Q
    <3>3. S = H(p).ids
      BY <1>h, <2>2, Zenon
    <3> QED
      BY <3>2, <3>3, Zenon DEF IdsOf
  <2> QED
    BY <2>1, <2>2, Zenon
<1>6. (\E p \in J \X J : fit(p[1], p[2]) /\ S = {in[p[1]].id, in[p[2]].id})
        <=> \E m \in J : \E n \in J : fit(m, n) /\ S = {in[m].id, in[n].id}
  <2>1. ASSUME NEW p \in J \X J PROVE p[1] \in J /\ p[2] \in J
    BY <2>1, SMT
  <2>2. ASSUME NEW m \in J, NEW n \in J PROVE <<m, n>> \in J \X J /\ <<m, n>>[1] = m /\ <<m, n>>[2] = n
    BY <2>2, SMT
  <2>3. ASSUME NEW p \in J \X J, fit(p[1], p[2]) /\ S = {in[p[1]].id, in[p[2]].id}
        PROVE  \E m \in J : \E n \in J : fit(m, n) /\ S = {in[m].id, in[n].id}
    BY <2>1, <2>3, Zenon
  <2>4. ASSUME NEW m \in J, NEW n \in J, fit(m, n) /\ S = {in[m].id, in[n].id}
        PROVE  \E p \in J \X J : fit(p[1], p[2]) /\ S = {in[p[1]].id, in[p[2]].id}
    <3> DEFINE q == <<m, n>>
    <3>1. q \in J \X J /\ q[1] = m /\ q[2] = n
      BY <2>2, Zenon
    <3> HIDE DEF q
    <3>2. fit(q[1], q[2]) /\ S = {in[q[1]].id, in[q[2]].id}
      BY <2>4, <3>1, Zenon
    <3> QED
      BY <3>1, <3>2, Zenon
  <2> QED
    BY <2>3, <2>4, Zenon
<1> QED
  BY <1>4, <1>5, <1>6, Zenon

\* ... and the search for three those of three.
LEMMA ThreeSumIs ==
    ASSUME NEW in, NEW N, Searchable(in, N), NEW w, Told(in, w), NEW d, NEW S
    PROVE  S \in IdsOf(E!ThreeSum(d, in)) <=> ThreeOf(N, NameOf(in), w, d, S)
<1>1. DOMAIN in = 1..N /\ E!CombinationTerms(in) = 1..N
  BY TermsAre, Zenon DEF Searchable
<1>2. \A n \in 1..N : w[NameOf(in)[n]] = E!CombinationDelta(in[n]) /\ NameOf(in)[n] = in[n].id
  BY <1>1, Zenon DEF Told, NameOf
<1> DEFINE J == 1..N
           fit(l, m, n) == /\ l < m /\ m < n
                           /\ E!CombinationDelta(in[l]) + E!CombinationDelta(in[m])
                                + E!CombinationDelta(in[n]) = d
           H(p) == E!Hypothesis("three_sum", {in[p[1]].id, in[p[2]].id, in[p[3]].id}, d)
<1>3. E!ThreeSum(d, in) = {H(p) : p \in {p \in J \X J \X J : fit(p[1], p[2], p[3])}}
  <2>1. E!ThreeSum(d, in) = E!ThreeSumFrom(E!CombinationTerms(in), d, in)
    BY Zenon DEF E!ThreeSum
  <2>2. E!ThreeSumFrom(1..N, d, in)
          = {E!Hypothesis("three_sum", {in[p[1]].id, in[p[2]].id, in[p[3]].id}, d) :
               p \in {p \in (1..N) \X E!CombinationTerms(in) \X E!CombinationTerms(in) :
                  p[1] < p[2] /\ p[2] < p[3]
                  /\ E!CombinationDelta(in[p[1]]) + E!CombinationDelta(in[p[2]])
                       + E!CombinationDelta(in[p[3]]) = d}}
    BY Zenon DEF E!ThreeSumFrom
  <2>3. E!ThreeSumFrom(1..N, d, in)
          = {H(p) :
               p \in {p \in J \X J \X J :
                  p[1] < p[2] /\ p[2] < p[3]
                  /\ E!CombinationDelta(in[p[1]]) + E!CombinationDelta(in[p[2]])
                       + E!CombinationDelta(in[p[3]]) = d}}
    BY <1>1, <2>2, Zenon
  <2>4. ASSUME NEW p
        PROVE  (p[1] < p[2] /\ p[2] < p[3]
                  /\ E!CombinationDelta(in[p[1]]) + E!CombinationDelta(in[p[2]])
                       + E!CombinationDelta(in[p[3]]) = d) = fit(p[1], p[2], p[3])
    BY Zenon
  <2> HIDE DEF fit, J, H
  <2> QED
    BY <1>1, <2>1, <2>3, <2>4, Zenon
<1>h. ASSUME NEW p PROVE H(p).ids = {in[p[1]].id, in[p[2]].id, in[p[3]].id}
  BY IdsOfHypothesis, Zenon
<1>4. ThreeOf(N, NameOf(in), w, d, S)
        <=> \E l \in J : \E m \in J : \E n \in J :
              fit(l, m, n) /\ S = {in[l].id, in[m].id, in[n].id}
  <2>1. ASSUME NEW l \in 1..N, NEW m \in 1..N, NEW n \in 1..N
        PROVE  (l < m /\ m < n /\ w[NameOf(in)[l]] + w[NameOf(in)[m]] + w[NameOf(in)[n]] = d
                  /\ S = {NameOf(in)[l], NameOf(in)[m], NameOf(in)[n]})
               <=> fit(l, m, n) /\ S = {in[l].id, in[m].id, in[n].id}
    <3>1. /\ w[NameOf(in)[l]] = E!CombinationDelta(in[l]) /\ NameOf(in)[l] = in[l].id
          /\ w[NameOf(in)[m]] = E!CombinationDelta(in[m]) /\ NameOf(in)[m] = in[m].id
          /\ w[NameOf(in)[n]] = E!CombinationDelta(in[n]) /\ NameOf(in)[n] = in[n].id
      BY <1>2, Zenon
    <3> QED
      BY <3>1, Zenon
  <2> DEFINE sums(l, m, n) ==
               l < m /\ m < n /\ w[NameOf(in)[l]] + w[NameOf(in)[m]] + w[NameOf(in)[n]] = d
               /\ S = {NameOf(in)[l], NameOf(in)[m], NameOf(in)[n]}
             meant(l, m, n) == fit(l, m, n) /\ S = {in[l].id, in[m].id, in[n].id}
  <2>2. \A l \in 1..N : \A m \in 1..N : \A n \in 1..N : sums(l, m, n) <=> meant(l, m, n)
    BY <2>1, Zenon
  <2>3. ThreeOf(N, NameOf(in), w, d, S)
          <=> \E l \in 1..N : \E m \in 1..N : \E n \in 1..N : sums(l, m, n)
    BY Zenon DEF ThreeOf
  <2>4. (\E l \in J : \E m \in J : \E n \in J : fit(l, m, n) /\ S = {in[l].id, in[m].id, in[n].id})
          <=> \E l \in 1..N : \E m \in 1..N : \E n \in 1..N : meant(l, m, n)
    BY Zenon
  <2> HIDE DEF fit, sums, meant, J
  <2>5. (\E l \in 1..N : \E m \in 1..N : \E n \in 1..N : sums(l, m, n))
          <=> \E l \in 1..N : \E m \in 1..N : \E n \in 1..N : meant(l, m, n)
    BY <2>2, Zenon
  <2> QED
    BY <2>3, <2>4, <2>5, Zenon
<1> HIDE DEF J, fit, H
<1>5. S \in IdsOf(E!ThreeSum(d, in))
        <=> \E p \in J \X J \X J :
              fit(p[1], p[2], p[3]) /\ S = {in[p[1]].id, in[p[2]].id, in[p[3]].id}
  <2> DEFINE Q == {p \in J \X J \X J : fit(p[1], p[2], p[3])}
  <2>0. \A p : p \in Q <=> p \in J \X J \X J /\ fit(p[1], p[2], p[3])
    BY Zenon
  <2> HIDE DEF Q
  <2>1. ASSUME S \in IdsOf(E!ThreeSum(d, in))
        PROVE  \E p \in J \X J \X J : fit(p[1], p[2], p[3]) /\ S = {in[p[1]].id, in[p[2]].id, in[p[3]].id}
    <3>1. PICK h \in E!ThreeSum(d, in) : S = h.ids
      BY <2>1, Zenon DEF IdsOf
    <3>2. PICK p \in Q : h = H(p)
      BY <1>3, <3>1, Zenon DEF Q
    <3>3. S = {in[p[1]].id, in[p[2]].id, in[p[3]].id}
      BY <1>h, <3>1, <3>2, Zenon
    <3> QED
      BY <2>0, <3>2, <3>3, Zenon
  <2>2. ASSUME NEW p \in J \X J \X J, fit(p[1], p[2], p[3]) /\ S = {in[p[1]].id, in[p[2]].id, in[p[3]].id}
        PROVE  S \in IdsOf(E!ThreeSum(d, in))
    <3>1. p \in Q
      BY <2>0, <2>2, Zenon
    <3>2. H(p) \in E!ThreeSum(d, in)
      BY <1>3, <3>1, Zenon DEF Q
    <3>3. S = H(p).ids
      BY <1>h, <2>2, Zenon
    <3> QED
      BY <3>2, <3>3, Zenon DEF IdsOf
  <2> QED
    BY <2>1, <2>2, Zenon
<1>6. (\E p \in J \X J \X J :
          fit(p[1], p[2], p[3]) /\ S = {in[p[1]].id, in[p[2]].id, in[p[3]].id})
        <=> \E l \in J : \E m \in J : \E n \in J :
              fit(l, m, n) /\ S = {in[l].id, in[m].id, in[n].id}
  <2>1. ASSUME NEW p \in J \X J \X J PROVE p[1] \in J /\ p[2] \in J /\ p[3] \in J
    BY <2>1, SMT
  <2>2. ASSUME NEW l \in J, NEW m \in J, NEW n \in J
        PROVE  /\ <<l, m, n>> \in J \X J \X J
               /\ <<l, m, n>>[1] = l /\ <<l, m, n>>[2] = m /\ <<l, m, n>>[3] = n
    BY <2>2, SMT
  <2>3. ASSUME NEW p \in J \X J \X J,
               fit(p[1], p[2], p[3]) /\ S = {in[p[1]].id, in[p[2]].id, in[p[3]].id}
        PROVE  \E l \in J : \E m \in J : \E n \in J :
                 fit(l, m, n) /\ S = {in[l].id, in[m].id, in[n].id}
    BY <2>1, <2>3, Zenon
  <2>4. ASSUME NEW l \in J, NEW m \in J, NEW n \in J,
               fit(l, m, n) /\ S = {in[l].id, in[m].id, in[n].id}
        PROVE  \E p \in J \X J \X J :
                 fit(p[1], p[2], p[3]) /\ S = {in[p[1]].id, in[p[2]].id, in[p[3]].id}
    <3> DEFINE q == <<l, m, n>>
    <3>1. q \in J \X J \X J /\ q[1] = l /\ q[2] = m /\ q[3] = n
      BY <2>2, Zenon
    <3> HIDE DEF q
    <3>2. fit(q[1], q[2], q[3]) /\ S = {in[q[1]].id, in[q[2]].id, in[q[3]].id}
      BY <2>4, <3>1, Zenon
    <3> QED
      BY <3>1, <3>2, Zenon
  <2> QED
    BY <2>3, <2>4, Zenon
<1> QED
  BY <1>4, <1>5, <1>6, Zenon

\* What a line adds to the difference.
LEMMA LineCounts ==
    ASSUME NEW I, NEW n
    PROVE  /\ E!CombinationDelta(LineOf(I, n)) = I[n].amount
           /\ LineOf(I, n).role = "statement_unmatched" /\ LineOf(I, n).id = <<"item", n>>
<1>1. /\ LineOf(I, n).role = "statement_unmatched" /\ LineOf(I, n).id = <<"item", n>>
      /\ LineOf(I, n).amount = I[n].amount
  BY Zenon DEF LineOf
<1>2. LineOf(I, n).role # "ledger_unmatched"
  BY <1>1, SMT
<1>3. E!CombinationDelta(LineOf(I, n)) = LineOf(I, n).amount
  BY <1>2, Zenon DEF E!CombinationDelta
<1> QED
  BY <1>1, <1>3, Zenon

\* What a transaction adds to it.
LEMMA RowCounts ==
    ASSUME NEW R, NEW t
    PROVE  /\ E!CombinationDelta(RowOf(R, t)) = -Signed(R[t])
           /\ RowOf(R, t).role = "ledger_unmatched" /\ RowOf(R, t).id = <<"row", t>>
<1>1. /\ RowOf(R, t).role = "ledger_unmatched" /\ RowOf(R, t).id = <<"row", t>>
      /\ RowOf(R, t).amount = Signed(R[t])
  BY Zenon DEF RowOf
<1>3. E!CombinationDelta(RowOf(R, t)) = -RowOf(R, t).amount
  BY <1>1, Zenon DEF E!CombinationDelta
<1> QED
  BY <1>1, <1>3, Zenon

\* How many things are searched, and where the n-th comes from.
SizeOf(I, u, K) == E!Min({MaxInputs, E!Cardinality(MissingOf(I, K)) + E!Cardinality(u)})

\* The n-th input is a missing line, or behind them an unused transaction.
ComesFrom(I, R, u, K, c, n) ==
    \/ /\ n <= E!Cardinality(MissingOf(I, K))
       /\ E!InOrder(MissingOf(I, K))[n] \in DOMAIN I
       /\ c = LineOf(I, E!InOrder(MissingOf(I, K))[n])
    \/ /\ ~(n <= E!Cardinality(MissingOf(I, K)))
       /\ E!InOrder(u)[n - E!Cardinality(MissingOf(I, K))] \in DOMAIN R
       /\ c = RowOf(R, E!InOrder(u)[n - E!Cardinality(MissingOf(I, K))])

\* The inputs are the missing lines and then the unused transactions, as many as are
\* taken, and none twice;
LEMMA InputsCome ==
    ASSUME NEW I, NEW R, Shape(I, R), NEW u, u \subseteq DOMAIN R, NEW K
    PROVE  /\ SizeOf(I, u, K) \in Nat /\ DOMAIN InputsOf(I, R, u, K) = 1..SizeOf(I, u, K)
           /\ \A n \in 1..SizeOf(I, u, K) : ComesFrom(I, R, u, K, InputsOf(I, R, u, K)[n], n)
           /\ \A m \in 1..SizeOf(I, u, K) : \A n \in 1..SizeOf(I, u, K) :
                 m # n => InputsOf(I, R, u, K)[m].id # InputsOf(I, R, u, K)[n].id
<1> DEFINE M == MissingOf(I, K)
           m == E!Cardinality(M)
           q == E!Cardinality(u)
           N == SizeOf(I, u, K)
           o == E!InOrder(M)
           r == E!InOrder(u)
           in == InputsOf(I, R, u, K)
<1>1. /\ M \in SUBSET Int /\ M \subseteq DOMAIN I /\ IsFiniteSet(M)
      /\ u \in SUBSET Int /\ IsFiniteSet(u)
  <2>1. /\ DOMAIN I \subseteq Int /\ IsFiniteSet(DOMAIN I)
        /\ DOMAIN R \subseteq Int /\ IsFiniteSet(DOMAIN R)
    <3>1. DOMAIN I = 1..Len(I) /\ Len(I) \in Nat /\ DOMAIN R \subseteq Int /\ IsFiniteSet(DOMAIN R)
      BY Zenon DEF Shape
    <3>2. 1 \in Int /\ Len(I) \in Int /\ 1..Len(I) \subseteq Int
      BY <3>1, SMT
    <3> QED
      BY <3>1, <3>2, FS_Interval, Zenon
  <2>2. M \subseteq DOMAIN I
    BY Zenon DEF MissingOf
  <2> HIDE DEF M
  <2> QED
    BY <2>1, <2>2, FS_Subset, Zenon
<1>2. m \in Nat /\ q \in Nat
  BY <1>1, FS_CardinalityType, CardinalityIs, Zenon
<1>o. /\ \A k \in 1..m : o[k] \in M
      /\ \A j \in 1..m : \A k \in 1..m : j # k => o[j] # o[k]
  BY <1>1, InOrderIs, CardinalityIs, Zenon
<1>r. /\ \A k \in 1..q : r[k] \in u
      /\ \A j \in 1..q : \A k \in 1..q : j # k => r[j] # r[k]
  BY <1>1, InOrderIs, CardinalityIs, Zenon
<1>3. in = [n \in 1..N |-> IF n <= m THEN LineOf(I, o[n]) ELSE RowOf(R, r[n - m])]
  BY Zenon DEF InputsOf, SizeOf
<1>4. N = E!Min({MaxInputs, m + q})
  BY Zenon DEF SizeOf
<1>5. /\ ComesFrom(I, R, u, K, in[1], 1) = ComesFrom(I, R, u, K, in[1], 1)
      /\ \A c : \A n : ComesFrom(I, R, u, K, c, n)
           <=> \/ n <= m /\ o[n] \in DOMAIN I /\ c = LineOf(I, o[n])
               \/ ~(n <= m) /\ r[n - m] \in DOMAIN R /\ c = RowOf(R, r[n - m])
  BY Zenon DEF ComesFrom
<1> HIDE DEF M, m, q, N, o, r, in
<1>6. N \in Nat /\ N <= m + q
  <2>1. MaxInputs \in Nat
    BY BookAssumption, Zenon DEF E!EngineAssumption
  <2>2. E!Min({MaxInputs, m + q}) = (IF MaxInputs <= m + q THEN MaxInputs ELSE m + q)
    BY <1>2, <2>1, LeastOfTwo, SMT
  <2> QED
    BY <1>2, <1>4, <2>1, <2>2, SMT
<1>7. ASSUME NEW n \in 1..N
      PROVE  /\ n <= m => /\ o[n] \in DOMAIN I /\ in[n] = LineOf(I, o[n]) /\ in[n].id = <<"item", o[n]>>
                          /\ n \in 1..m
             /\ ~(n <= m) => /\ r[n - m] \in DOMAIN R /\ in[n] = RowOf(R, r[n - m])
                             /\ in[n].id = <<"row", r[n - m]>> /\ n - m \in 1..q
  <2>1. (n <= m => n \in 1..m) /\ (~(n <= m) => n - m \in 1..q)
    BY <1>2, <1>6, SMT
  <2>2. in[n] = IF n <= m THEN LineOf(I, o[n]) ELSE RowOf(R, r[n - m])
    BY <1>3, Zenon
  <2>3. CASE n <= m
    <3>1. o[n] \in M
      BY <1>o, <2>1, <2>3, Zenon
    <3>2. LineOf(I, o[n]).id = <<"item", o[n]>>
      BY LineCounts
    <3>3. in[n] = LineOf(I, o[n]) /\ o[n] \in DOMAIN I
      BY <1>1, <2>2, <2>3, <3>1, Zenon
    <3> QED
      BY <2>1, <2>3, <3>2, <3>3, Zenon
  <2>4. CASE ~(n <= m)
    <3>1. r[n - m] \in u
      BY <1>r, <2>1, <2>4, Zenon
    <3>2. RowOf(R, r[n - m]).id = <<"row", r[n - m]>>
      BY RowCounts
    <3>3. in[n] = RowOf(R, r[n - m]) /\ r[n - m] \in DOMAIN R
      BY <2>2, <2>4, <3>1, Zenon
    <3> QED
      BY <2>1, <2>4, <3>2, <3>3, Zenon
  <2> QED
    BY <2>3, <2>4, Zenon
<1>8. \A n \in 1..N : ComesFrom(I, R, u, K, in[n], n)
  BY <1>5, <1>7, Zenon
<1>9. ASSUME NEW j \in 1..N, NEW k \in 1..N, j # k
      PROVE  in[j].id # in[k].id
  <2>1. CASE j <= m /\ k <= m
    <3>1. o[j] # o[k] /\ in[j].id = <<"item", o[j]>> /\ in[k].id = <<"item", o[k]>>
      BY <1>7, <1>9, <1>o, <2>1, Zenon
    <3> QED
      BY <3>1, SMT
  <2>2. CASE ~(j <= m) /\ ~(k <= m)
    <3>1. j - m # k - m
      BY <1>2, <1>6, <1>9, SMT
    <3>2. r[j - m] # r[k - m] /\ in[j].id = <<"row", r[j - m]>> /\ in[k].id = <<"row", r[k - m]>>
      BY <1>7, <1>r, <2>2, <3>1, Zenon
    <3> QED
      BY <3>2, SMT
  <2>3. CASE j <= m /\ ~(k <= m)
    <3>1. in[j].id = <<"item", o[j]>> /\ in[k].id = <<"row", r[k - m]>>
      BY <1>7, <2>3, Zenon
    <3> QED
      BY <3>1, SMT
  <2>4. CASE ~(j <= m) /\ k <= m
    <3>1. in[k].id = <<"item", o[k]>> /\ in[j].id = <<"row", r[j - m]>>
      BY <1>7, <2>4, Zenon
    <3> QED
      BY <3>1, SMT
  <2> QED
    BY <2>1, <2>2, <2>3, <2>4, Zenon
<1>10. DOMAIN in = 1..N
  BY <1>3, Zenon
<1> QED
  BY <1>6, <1>8, <1>9, <1>10, Zenon DEF N, in

\* ... so the search is among things with whole amounts.
LEMMA InputsAreSearchable ==
    ASSUME NEW I, NEW R, Shape(I, R), NEW u, u \subseteq DOMAIN R, NEW K
    PROVE  Searchable(InputsOf(I, R, u, K), SizeOf(I, u, K))
<1> DEFINE in == InputsOf(I, R, u, K)
           N == SizeOf(I, u, K)
<1>1. /\ N \in Nat /\ DOMAIN in = 1..N
      /\ \A m \in 1..N : \A n \in 1..N : m # n => in[m].id # in[n].id
  BY InputsCome
<1>2. ASSUME NEW n \in 1..N
      PROVE  /\ in[n].role \in {"statement_unmatched", "ledger_unmatched"}
             /\ E!CombinationDelta(in[n]) \in Int
  <2>1. ComesFrom(I, R, u, K, in[n], n)
    BY InputsCome, Zenon
  <2> HIDE DEF in
  <2>2. \/ \E x \in DOMAIN I : in[n] = LineOf(I, x)
        \/ \E t \in DOMAIN R : in[n] = RowOf(R, t)
    BY <2>1, Zenon DEF ComesFrom
  <2>3. CASE \E x \in DOMAIN I : in[n] = LineOf(I, x)
    <3>1. PICK x \in DOMAIN I : in[n] = LineOf(I, x)
      BY <2>3, Zenon
    <3>2. E!CombinationDelta(in[n]) = I[x].amount /\ in[n].role = "statement_unmatched"
      BY <3>1, LineCounts, Zenon
    <3>3. I[x].amount \in Int
      BY Zenon DEF Shape
    <3> QED
      BY <3>2, <3>3, Zenon
  <2>4. CASE \E t \in DOMAIN R : in[n] = RowOf(R, t)
    <3>1. PICK t \in DOMAIN R : in[n] = RowOf(R, t)
      BY <2>4, Zenon
    <3>2. E!CombinationDelta(in[n]) = -Signed(R[t]) /\ in[n].role = "ledger_unmatched"
      BY <3>1, RowCounts, Zenon
    <3>3. R[t].amount \in Int
      BY Zenon DEF Shape
    <3>4. -Signed(R[t]) \in Int
      BY <3>3, SignedIs, SMT
    <3> QED
      BY <3>2, <3>4, Zenon
  <2> QED
    BY <2>2, <2>3, <2>4, Zenon
<1> HIDE DEF in, N
<1>3. Searchable(in, N)
  BY <1>1, <1>2, Zenon DEF Searchable
<1> QED
  BY <1>3, Zenon DEF in, N

\* What a name counts for in the property is what the thing adds to the difference.
LEMMA NamesAreTold ==
    ASSUME Shape(items, rows), NEW u, u \subseteq DOMAIN rows, NEW K,
           NEW n \in 1..SizeOf(items, u, K)
    PROVE  E!Amount(InputsOf(items, rows, u, K)[n].id) = E!CombinationDelta(InputsOf(items, rows, u, K)[n])
<1> DEFINE c == InputsOf(items, rows, u, K)[n]
<1>1. ComesFrom(items, rows, u, K, c, n)
  BY InputsCome, Zenon
<1> HIDE DEF c
<1>2. \/ \E x \in DOMAIN items : c = LineOf(items, x)
      \/ \E t \in DOMAIN rows : c = RowOf(rows, t)
  BY <1>1, Zenon DEF ComesFrom
<1>3. CASE \E x \in DOMAIN items : c = LineOf(items, x)
  <2>1. PICK x \in DOMAIN items : c = LineOf(items, x)
    BY <1>3, Zenon
  <2>2. c.id = <<"item", x>> /\ E!CombinationDelta(c) = items[x].amount
    BY <2>1, LineCounts, Zenon
  <2>3. E!Amount(<<"item", x>>) = items[x].amount
    BY AmountOfLine, Zenon
  <2>4. E!Amount(c.id) = E!CombinationDelta(c)
    BY <2>2, <2>3, Zenon
  <2> QED
    BY <2>4, Zenon DEF c
<1>4. CASE \E t \in DOMAIN rows : c = RowOf(rows, t)
  <2>1. PICK t \in DOMAIN rows : c = RowOf(rows, t)
    BY <1>4, Zenon
  <2>2. c.id = <<"row", t>> /\ E!CombinationDelta(c) = -Signed(rows[t])
    BY <2>1, RowCounts, Zenon
  <2>3. rows[t].amount \in Int
    BY Zenon DEF Shape
  <2>4. E!Amount(<<"row", t>>) = -Signed(rows[t])
    BY <2>3, AmountOfRow, Zenon
  <2>5. E!Amount(c.id) = E!CombinationDelta(c)
    BY <2>2, <2>4, Zenon
  <2> QED
    BY <2>5, Zenon DEF c
<1> QED
  BY <1>2, <1>3, <1>4, Zenon

\* The sets of things of a size that amount to the whole difference, as the property
\* looks for them.
Explaining(k, F, d) ==
    {S \in E!kSubset(k, F) : E!SumFunction([id \in S |-> E!Amount(id)]) = d}

\* They are the sets that explain it.
LEMMA ExplainingIs ==
    ASSUME NEW F, NEW w, w = [x \in F |-> E!Amount(x)], NEW k, NEW d, NEW S
    PROVE  S \in Explaining(k, F, d) <=> Explains(k, F, w, d, S)
<1> DEFINE f == [id \in S |-> E!Amount(id)]
<1>1. S \in E!kSubset(k, F) <=> S \in SUBSET F /\ Cardinality(S) = k
  <2>1. S \in E!kSubset(k, F) <=> S \in SUBSET F /\ E!Cardinality(S) = k
    BY Zenon DEF E!kSubset
  <2>2. E!Cardinality(S) = Cardinality(S)
    BY CardinalityIs
  <2> QED
    BY <2>1, <2>2, Zenon
<1>2. S \in Explaining(k, F, d) <=> S \in E!kSubset(k, F) /\ E!SumFunction(f) = d
  BY Zenon DEF Explaining
<1>3. E!SumFunction(f) = SumFunction(f)
  BY SumIs
<1>4. ASSUME S \in SUBSET F PROVE f = [x \in S |-> w[x]]
  BY <1>4, Zenon
<1>5. ASSUME S \in SUBSET F PROVE SumFunction(f) = SumOn(w, S)
  BY <1>4, <1>5, Zenon DEF SumOn
<1> HIDE DEF f
<1> QED
  BY <1>1, <1>2, <1>3, <1>5, Zenon DEF Explains

\* What the solver finds is what there is to find.
SolvedAll(h, d, F, gaveUp) ==
    /\ d = 0 => IdsOf(h) = {}
    /\ d # 0 =>
         \/ Explaining(1, F, d) # {} /\ IdsOf(h) = Explaining(1, F, d)
         \/ Explaining(1, F, d) = {} /\ Explaining(2, F, d) # {} /\ IdsOf(h) = Explaining(2, F, d)
         \/ /\ Explaining(1, F, d) \cup Explaining(2, F, d) = {}
            /\ IdsOf(h) = IF gaveUp THEN {} ELSE Explaining(3, F, d)

\* That is so whenever the inputs are as said.
LEMMA SearchFinds ==
    ASSUME NEW in, NEW N, Searchable(in, N), NEW d, NEW gaveUp,
           \A n \in 1..N : E!Amount(in[n].id) = E!CombinationDelta(in[n])
    PROVE  SolvedAll(E!SolveDiscrepancy(d, in, gaveUp), d, NamesOf(in), gaveUp)
<1> DEFINE F == NamesOf(in)
           w == [x \in F |-> E!Amount(x)]
           X(k) == Explaining(k, F, d)
<1>1. /\ N \in Nat /\ DOMAIN in = 1..N
      /\ \A n \in 1..N : E!CombinationDelta(in[n]) \in Int
  BY Zenon DEF Searchable
<1>2. Numbered(F, N, NameOf(in)) /\ IsFiniteSet(F)
  BY NamesNumbered
<1>3. \A n \in 1..N : in[n].id \in F
  BY <1>1, Zenon DEF NamesOf
<1>4. \A x \in F : \E n \in 1..N : x = in[n].id
  BY <1>1, Zenon DEF NamesOf
<1>5. Weighs(F, w)
  <2>1. ASSUME NEW x \in F PROVE E!Amount(x) \in Int
    BY <1>1, <1>4, ZenonT(60)
  <2>2. w \in [F -> Int]
    <3> HIDE DEF F
    <3> QED
      BY <2>1, Zenon
  <2> QED
    BY <1>2, <2>2, Zenon DEF Weighs
<1>6. Told(in, w)
  BY <1>1, <1>3, Zenon DEF Told
<1>7. w = [x \in F |-> E!Amount(x)]
  OBVIOUS
<1> HIDE DEF F, w
<1>8. \A k : \A S : S \in X(k) <=> Explains(k, F, w, d, S)
  BY <1>7, ExplainingIs, Zenon
<1> DEFINE one == E!SingleHypotheses(d, AllOf(in))
           two == E!TwoSum(d, in)
           three == E!ThreeSum(d, in)
           common == E!CommonHypotheses(d, AllOf(in))
           h == E!SolveDiscrepancy(d, in, gaveUp)
<1>9. IdsOf(one) = X(1)
  <2>1. ASSUME NEW S PROVE S \in IdsOf(one) <=> S \in X(1)
    <3>1. S \in IdsOf(one) <=> OneOf(N, NameOf(in), w, d, S)
      BY <1>6, SingleIs
    <3>2. Explains(1, F, w, d, S) <=> OneOf(N, NameOf(in), w, d, S)
      BY <1>2, <1>5, OneExplains
    <3> QED
      BY <1>8, <3>1, <3>2, Zenon
  <2> HIDE DEF one, X
  <2> QED
    BY <2>1, Zenon
<1>10. IdsOf(two) = X(2)
  <2>1. ASSUME NEW S PROVE S \in IdsOf(two) <=> S \in X(2)
    <3>1. S \in IdsOf(two) <=> TwoOf(N, NameOf(in), w, d, S)
      BY <1>6, TwoSumIs
    <3>2. Explains(2, F, w, d, S) <=> TwoOf(N, NameOf(in), w, d, S)
      BY <1>2, <1>5, TwoExplain
    <3> QED
      BY <1>8, <3>1, <3>2, Zenon
  <2> HIDE DEF two, X
  <2> QED
    BY <2>1, Zenon
<1>11. IdsOf(three) = X(3)
  <2>1. ASSUME NEW S PROVE S \in IdsOf(three) <=> S \in X(3)
    <3>1. S \in IdsOf(three) <=> ThreeOf(N, NameOf(in), w, d, S)
      BY <1>6, ThreeSumIs
    <3>2. Explains(3, F, w, d, S) <=> ThreeOf(N, NameOf(in), w, d, S)
      BY <1>2, <1>5, ThreeExplain
    <3> QED
      BY <1>8, <3>1, <3>2, Zenon
  <2> HIDE DEF three, X
  <2> QED
    BY <2>1, Zenon
<1>12. common = {}
  BY NothingCommon
<1>13. h = CASE d = 0 -> {}
             [] d # 0 /\ one # {} -> one
             [] d # 0 /\ one = {} /\ common # {} -> common
             [] d # 0 /\ one = {} /\ common = {} /\ two # {} -> two
             [] OTHER -> IF gaveUp THEN {} ELSE three
  BY Zenon DEF E!SolveDiscrepancy, AllOf
<1>14. /\ \A Y : IdsOf(Y) = {} <=> Y = {}
       /\ IdsOf({}) = {}
  BY Zenon DEF IdsOf
<1>15. SolvedAll(h, d, F, gaveUp)
         <=> /\ d = 0 => IdsOf(h) = {}
             /\ d # 0 =>
                  \/ X(1) # {} /\ IdsOf(h) = X(1)
                  \/ X(1) = {} /\ X(2) # {} /\ IdsOf(h) = X(2)
                  \/ X(1) \cup X(2) = {} /\ IdsOf(h) = IF gaveUp THEN {} ELSE X(3)
  BY Zenon DEF SolvedAll
<1> HIDE DEF one, two, three, common, h, X
<1>16. CASE d = 0
  <2>1. h = {}
    BY <1>13, <1>16, Zenon
  <2> QED
    BY <1>14, <1>15, <1>16, <2>1, Zenon DEF h, F
<1>17. CASE d # 0 /\ one # {}
  <2>1. h = one
    BY <1>13, <1>17, Zenon
  <2>2. X(1) # {} /\ IdsOf(h) = X(1)
    BY <1>9, <1>14, <1>17, <2>1, Zenon
  <2> QED
    BY <1>15, <1>17, <2>2, Zenon DEF h, F
<1>18. CASE d # 0 /\ one = {} /\ two # {}
  <2>1. h = two
    BY <1>12, <1>13, <1>18, Zenon
  <2>2. X(1) = {} /\ X(2) # {} /\ IdsOf(h) = X(2)
    BY <1>9, <1>10, <1>14, <1>18, <2>1, Zenon
  <2> QED
    BY <1>15, <1>18, <2>2, Zenon DEF h, F
<1>19. CASE d # 0 /\ one = {} /\ two = {}
  <2>1. h = IF gaveUp THEN {} ELSE three
    BY <1>12, <1>13, <1>19, Zenon
  <2>2. X(1) \cup X(2) = {}
    BY <1>9, <1>10, <1>14, <1>19, Zenon
  <2>3. IdsOf(h) = IF gaveUp THEN {} ELSE X(3)
    BY <1>11, <1>14, <2>1, Zenon
  <2> QED
    BY <1>15, <1>19, <2>2, <2>3, Zenon DEF h, F
<1> QED
  BY <1>16, <1>17, <1>18, <1>19, ZenonT(60)

\* The difference adds up, and what explains it is found.
LEMMA Explained ==
    ASSUME EngineInv
    PROVE  E!DifferenceIsExplained
<1> SUFFICES ASSUME report # None PROVE E!DifferenceIsExplained
  BY Zenon DEF E!DifferenceIsExplained
<1> DEFINE in == InputsOf(items, rows, unused, candidates)
           N == SizeOf(items, unused, candidates)
           d == report.difference
           paired == {c \in candidates : c.kind = "match"}
           lines == (DOMAIN items) \ {c.item : c \in paired}
           sum == total - E!SumFunction([i \in DOMAIN items |-> items[i].amount])
                  + E!SumFunction([i \in lines |-> items[i].amount])
                  + E!SumFunction([c \in paired |-> items[c.item].amount + E!Amount(<<"row", c.row>>)])
<1>1. /\ Shape(items, rows)
      /\ Looked(items, rows, position, unused, matched, candidates)
      /\ report.hypotheses = E!SolveDiscrepancy(d, in, report.gaveUp)
  BY Zenon DEF EngineInv, EngineState, Reported
<1>2. unused \subseteq DOMAIN rows
  BY <1>1, Zenon DEF Looked, MatchedWell
<1>3. d = sum
  BY DifferenceAddsUp
<1>4. Searchable(in, N)
  BY <1>1, <1>2, InputsAreSearchable
<1>5. \A n \in 1..N : E!Amount(in[n].id) = E!CombinationDelta(in[n])
  BY <1>1, <1>2, NamesAreTold
<1>6. E!Inputs = in
  BY InputsAre
<1> HIDE DEF in, N, d, sum
<1>7. SolvedAll(report.hypotheses, d, NamesOf(in), report.gaveUp)
  <2>1. SolvedAll(E!SolveDiscrepancy(d, in, report.gaveUp), d, NamesOf(in), report.gaveUp)
    BY <1>1, <1>4, <1>5, SearchFinds
  <2> QED
    BY <1>1, <2>1, Zenon
<1> DEFINE free == {in[n].id : n \in DOMAIN in}
           explains(n) == {S \in E!kSubset(n, free) : E!SumFunction([id \in S |-> E!Amount(id)]) = d}
           found == {hyp.ids : hyp \in report.hypotheses}
<1>8. /\ NamesOf(in) = free /\ found = IdsOf(report.hypotheses)
      /\ \A n : explains(n) = Explaining(n, NamesOf(in), d)
  BY Zenon DEF NamesOf, IdsOf, Explaining
<1>9. E!DifferenceIsExplained
        <=> /\ d = sum
            /\ d = 0 => found = {}
            /\ d # 0 =>
                 \/ explains(1) # {} /\ found = explains(1)
                 \/ explains(1) = {} /\ explains(2) # {} /\ found = explains(2)
                 \/ /\ explains(1) \cup explains(2) = {}
                    /\ found = IF report.gaveUp THEN {} ELSE explains(3)
  <2> DEFINE things == {E!Inputs[n].id : n \in DOMAIN E!Inputs}
             ways(n) == {S \in E!kSubset(n, things) :
                           E!SumFunction([id \in S |-> E!Amount(id)]) = report.difference}
  <2>1. E!DifferenceIsExplained
          <=> /\ report.difference = sum
              /\ report.difference = 0 => found = {}
              /\ report.difference # 0 =>
                   \/ ways(1) # {} /\ found = ways(1)
                   \/ ways(1) = {} /\ ways(2) # {} /\ found = ways(2)
                   \/ /\ ways(1) \cup ways(2) = {}
                      /\ found = IF report.gaveUp THEN {} ELSE ways(3)
    BY SMT DEF E!DifferenceIsExplained, sum
  <2>2. \A n : ways(n) = explains(n)
    BY <1>6, Zenon DEF d
  <2>3. report.difference = d
    BY Zenon DEF d
  <2> HIDE DEF ways, explains, found
  <2> QED
    BY <2>1, <2>2, <2>3, Zenon
<1> HIDE DEF free, explains, found
<1> QED
  BY <1>3, <1>7, <1>8, <1>9, Zenon DEF SolvedAll

-------------------------------------------------------------------------------
(* The matching of bills, in the project's module.                         *)

\* The invariant, as one of the project's module.
BillsInv == part = "engine" => EngineInv

\* It holds at first,
LEMMA BillsStart ==
    ASSUME BookInit
    PROVE  BillsInv
BY EngineInit, Zenon DEF BookInit, BillsInv

\* ... and after every step.
LEMMA BillsStep ==
    ASSUME BillsInv, [BookNext]_vars
    PROVE  BillsInv'
<1>1. CASE part = "engine" /\ E!Next /\ part' = part
  BY <1>1, LineLooked, ReportMade, Zenon DEF BillsInv, E!Next
<1>2. CASE part' = part /\ UNCHANGED engine
  BY <1>2, EngineStays, Zenon DEF BillsInv
<1>3. CASE part # "engine" /\ part' = part
  BY <1>3, Zenon DEF BillsInv
<1> QED
  BY <1>1, <1>2, <1>3, Zenon DEF BookNext, vars

\* Every line of a bill has one answer and no transaction two, the report's difference
\* adds up and the smallest explanations of it are all found unless the search was given
\* up, and what contradicts itself is never certain, whatever the bill, the ledger, the
\* similar names and the bounds of the search (matching.ts, discrepancy.ts,
\* audit-routes.ts).
THEOREM BillsExplained == BookSpec => []BillsAreExplained
<1>1. BookInit => BillsInv
  BY BillsStart
<1>2. BillsInv /\ [BookNext]_vars => BillsInv'
  BY BillsStep
<1>3. BillsInv => BillsAreExplained
  <2>1. EngineInv => Shape(items, rows)
    BY Zenon DEF EngineInv, EngineState
  <2> QED
    BY <2>1, LinesAnswered, Explained, NeverCertain, Zenon DEF BillsInv, BillsAreExplained
<1> QED
  BY <1>1, <1>2, <1>3, PTL DEF BookSpec

===============================================================================
