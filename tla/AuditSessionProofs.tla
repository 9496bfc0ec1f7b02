--------------------------- MODULE AuditSessionProofs ---------------------------
(***************************************************************************)
(* Proofs about AuditSession, for any number of imports, bills, lines,     *)
(* transactions and edits.                                                 *)
(***************************************************************************)
EXTENDS AuditSession, TLAPS

\* An import works on sessions of its own, which begin when it inserts them and have
\* no candidates until it has matched them.
ImportsAreApart ==
    \A i \in Import :
        /\ todo[i] \subseteq {i} \X Bill
        /\ flow[i] \in {"new", "insert"} => \A b \in Bill : statement[<<i, b>>] = "none" /\ patches[<<i, b>>] = {}
        /\ flow[i] \in {"match", "fail"} => \A s \in todo[i] : statement[s] # "none"
        /\ flow[i] = "match" => \A s \in todo[i] : patches[s] = {}
        /\ \A s \in prior[i] : statement[s] # "none"

\* A candidate is about what it is for, and a line has one of them.
PatchesAreSound ==
    \A s \in Session : \A p \in patches[s] :
        /\ p.kind = "create_transaction" => p.line \in Line /\ p.txn = <<s, p.line>>
        /\ p.kind = "assign_statement" => p.line \in Line /\ p.txn \in TxnId
        /\ p.status = "proposed" => p.decision = "pending"
        /\ \A q \in patches[s] : p.line = q.line /\ (p.line \in Line \/ p.txn = q.txn) => p = q

\* What has been looked at has been made, ...
Made(t) == ledger[t].version # 0
TouchedIsMade ==
    /\ \A t \in TxnId : ledger[t].live => Made(t)
    /\ \A s \in Session, l \in Line : matched[s][l] # None => Made(matched[s][l])
    /\ \A s \in Session : assigning[s] # None => Made(assigning[s].patch.txn)
    /\ \A e \in edits : Made(e.txn)

\* ... and what is still to be made for a line has not.
ProposedIsNotMade ==
    \A s \in Session :
        /\ \A p \in patches[s] : p.kind = "create_transaction" /\ p.status = "proposed" => ~Made(p.txn)
        /\ patches[s] = {} => \A l \in Line : ~Made(<<s, l>>)

\* A decision under way holds its statement, and the version that it has read is the
\* row's only if nobody else has taken the row.
AssigningIsSound ==
    \A s \in Session : assigning[s] # None =>
        LET p == assigning[s].patch
            v == assigning[s].version
        IN  /\ statement[s] # "superseded"
            /\ p.kind = "assign_statement"
            /\ p.txn \notin rewound =>
                 /\ v <= ledger[p.txn].version
                 /\ ledger[p.txn].version = v => ledger[p.txn].of \in {None, s}

\* A session that is completed, or counted as ready to be, has nothing left to decide.
CountedIsSettled ==
    \A s \in Session :
        (session[s] = "completed" /\ s \notin early) \/ (\E c \in counted : c.session = s /\ c.saved) =>
            Settled(s) /\ patches[s] # {}

IInv ==
    /\ TypeOK
    /\ ImportsAreApart
    /\ PatchesAreSound
    /\ TouchedIsMade
    /\ ProposedIsNotMade
    /\ AssigningIsSound
    /\ CountedIsSettled
    /\ MatchedOnce

-------------------------------------------------------------------------------
(* Patches                                                                 *)

\* Patch p of session s becomes n.
Resolve(s, p, n) ==
    /\ patches' = [patches EXCEPT ![s] = (@ \ {p}) \cup {n}]
    /\ n \in Patch /\ n.line = p.line /\ n.txn = p.txn /\ n.kind = p.kind
    /\ n.status # "proposed"

LEMMA MadeTxn ==
    ASSUME PatchesAreSound, NEW s \in Session, NEW p \in patches[s], p.kind = "create_transaction"
    PROVE  p.line \in Line /\ p.txn = <<s, p.line>> /\ p.txn \in TxnId
<1>1. p.line \in Line /\ p.txn = <<s, p.line>>
  BY DEF PatchesAreSound
<1>2. <<s, p.line>> \in TxnId
  BY <1>1 DEF TxnId
<1> QED
  BY <1>1, <1>2

LEMMA SettleOne ==
    ASSUME TypeOK, PatchesAreSound, NEW s \in Session, NEW p \in patches[s],
           NEW status \in {"applied", "rejected", "failed"}, NEW decision \in {"pending", "accepted", "rejected"},
           Settle(s, p, status, decision)
    PROVE  \E n \in Patch : Resolve(s, p, n) /\ n.status = status /\ n.decision = decision
<1> DEFINE n == [p EXCEPT !.status = status, !.decision = decision]
           rest == {q \in patches[s] : <<q.line, q.txn>> # <<p.line, p.txn>>}
<1>1. p \in Patch /\ patches[s] \subseteq Patch /\ patches \in [Session -> SUBSET Patch]
  BY DEF TypeOK
<1>2. n \in Patch /\ n.line = p.line /\ n.txn = p.txn /\ n.kind = p.kind
        /\ n.status = status /\ n.decision = decision
  BY <1>1 DEF Patch
<1>3. rest = patches[s] \ {p}
  BY DEF PatchesAreSound
<1>4. patches' = [patches EXCEPT ![s] = rest \cup {n}]
  BY <1>1 DEF Settle
<1> HIDE DEF n, rest
<1>5. Resolve(s, p, n)
  BY <1>2, <1>3, <1>4 DEF Resolve
<1> QED
  BY <1>2, <1>5

LEMMA ResolveSession ==
    ASSUME TypeOK, NEW s \in Session, NEW p \in patches[s], NEW n, Resolve(s, p, n)
    PROVE  /\ patches'[s] = (patches[s] \ {p}) \cup {n}
           /\ \A r \in Session \ {s} : patches'[r] = patches[r]
           /\ patches' \in [Session -> SUBSET Patch]
           /\ \A r \in Session : patches'[r] = {} <=> patches[r] = {}
BY DEF TypeOK, Resolve

\* Patches stay what they are about, one for each line.
LEMMA ResolveSound ==
    ASSUME TypeOK, PatchesAreSound, NEW s \in Session, NEW p \in patches[s], NEW n, Resolve(s, p, n)
    PROVE  PatchesAreSound'
<1> SUFFICES ASSUME NEW r \in Session, NEW k \in patches'[r]
             PROVE  /\ k.kind = "create_transaction" => k.line \in Line /\ k.txn = <<r, k.line>>
                    /\ k.kind = "assign_statement" => k.line \in Line /\ k.txn \in TxnId
                    /\ k.status = "proposed" => k.decision = "pending"
                    /\ \A q \in patches'[r] :
                         k.line = q.line /\ (k.line \in Line \/ k.txn = q.txn) => k = q
  BY DEF PatchesAreSound
<1>1. CASE r # s
  BY <1>1, ResolveSession DEF PatchesAreSound
<1>2. CASE r = s
  <2>1. patches'[s] = (patches[s] \ {p}) \cup {n}
    BY ResolveSession
  <2>2. n.line = p.line /\ n.txn = p.txn /\ n.kind = p.kind /\ n.status # "proposed"
    BY DEF Resolve
  <2> QED
    BY <1>2, <2>1, <2>2 DEF PatchesAreSound
<1> QED
  BY <1>1, <1>2

-------------------------------------------------------------------------------
(* What a decision does                                                    *)

\* It disposes of patch p, which becomes n, and holds its session no longer.
Disposes(s, p, n) ==
    /\ p \in patches[s] /\ Resolve(s, p, n)
    /\ p.decision = "pending" /\ p.status # "applied"
    /\ assigning' = [assigning EXCEPT ![s] = None]

\* It writes nothing else, ...
Declines(s, p, n) ==
    /\ Disposes(s, p, n)
    /\ n.status = "applied" => p.kind = "acknowledge_unresolved"
    /\ UNCHANGED <<ledger, matched>>

\* ... or makes the transaction of a line, for the statement or not, ...
Makes(s, p, n) ==
    /\ Disposes(s, p, n)
    /\ p.kind = "create_transaction" /\ p.status = "proposed"
    /\ IF statement[s] # "superseded"
       THEN /\ n.status = "applied"
            /\ ledger' = [ledger EXCEPT ![p.txn] = [version |-> 2, live |-> TRUE, of |-> s]]
            /\ matched' = [matched EXCEPT ![s][p.line] = p.txn]
       ELSE /\ n.status = "failed"
            /\ ledger' = [ledger EXCEPT ![p.txn] = [version |-> 1, live |-> TRUE, of |-> None]]
            /\ UNCHANGED matched

\* ... or takes the row that it has read.
Takes(s, p, n) ==
    /\ Disposes(s, p, n)
    /\ assigning[s] # None /\ p = assigning[s].patch /\ n.status = "applied"
    /\ ledger[p.txn].version = assigning[s].version
    /\ ledger' = [ledger EXCEPT ![p.txn].of = s, ![p.txn].version = @ + 1]
    /\ matched' = [matched EXCEPT ![s][p.line] = p.txn]

\* Or it reads its row, or is given up.
Reads(s, p) ==
    /\ Accepts(s, p, "assign_statement") /\ Assignable(s, p)
    /\ assigning' = [assigning EXCEPT ![s] = [patch |-> p, version |-> ledger[p.txn].version]]
    /\ UNCHANGED <<patches, ledger, matched>>
Drops(s) ==
    assigning' = [assigning EXCEPT ![s] = None] /\ UNCHANGED <<patches, ledger, matched>>

LEMMA DecidingDoes ==
    ASSUME TypeOK, PatchesAreSound, NEW s \in Session, Deciding(s)
    PROVE  /\ UNCHANGED <<importVars, statement, session, counted, editVars, early>>
           /\ \/ \E p \in patches[s] : \E n \in Patch : Declines(s, p, n) \/ Makes(s, p, n) \/ Takes(s, p, n)
              \/ \E p \in patches[s] : Reads(s, p)
              \/ Drops(s)
<1>0. assigning[s] = None => assigning = [assigning EXCEPT ![s] = None]
  BY DEF TypeOK
<1>1. UNCHANGED <<importVars, statement, session, counted, editVars, early>>
  BY DEF Deciding, Reject, Acknowledge, CreateRefused, Create, AssignRead, AssignWrite, AssignAbort, auditVars
<1>2. ASSUME NEW p \in patches[s],
             NEW status \in {"applied", "rejected", "failed"}, NEW decision \in {"pending", "accepted", "rejected"},
             Settle(s, p, status, decision),
             p.decision = "pending", p.status # "applied",
             assigning' = [assigning EXCEPT ![s] = None]
      PROVE  \E n \in Patch : Disposes(s, p, n) /\ n.status = status
  BY <1>2, SettleOne DEF Disposes
<1>3. \A p \in patches[s] : p.status = "proposed" => p.decision = "pending"
  BY DEF PatchesAreSound
<1>4. ASSUME NEW p \in patches[s], Reject(s, p) PROVE \E n \in Patch : Declines(s, p, n)
  <2>1. PICK status \in {"rejected", "failed"} : Settle(s, p, status, "rejected")
    BY <1>4 DEF Reject
  <2>2. p.decision = "pending" /\ p.status # "applied" /\ assigning' = [assigning EXCEPT ![s] = None]
          /\ UNCHANGED <<ledger, matched>>
    BY <1>0, <1>4 DEF Reject, Locked
  <2> QED
    BY <1>2, <2>1, <2>2 DEF Declines
<1>5. ASSUME NEW p \in patches[s], Acknowledge(s, p) PROVE \E n \in Patch : Declines(s, p, n)
  <2>1. p.decision = "pending" /\ p.status # "applied" /\ assigning' = [assigning EXCEPT ![s] = None]
          /\ UNCHANGED <<ledger, matched>> /\ p.kind = "acknowledge_unresolved"
          /\ Settle(s, p, "applied", "accepted")
    BY <1>0, <1>3, <1>5 DEF Acknowledge, Accepts, Locked
  <2> QED
    BY <1>2, <2>1 DEF Declines
<1>6. ASSUME NEW p \in patches[s], CreateRefused(s, p) PROVE \E n \in Patch : Declines(s, p, n)
  <2>1. p.decision = "pending" /\ p.status # "applied" /\ assigning' = [assigning EXCEPT ![s] = None]
          /\ UNCHANGED <<ledger, matched>> /\ Settle(s, p, "failed", "pending")
    BY <1>0, <1>3, <1>6 DEF CreateRefused, Accepts, Fails, Locked
  <2> QED
    BY <1>2, <2>1 DEF Declines
<1>7. ASSUME NEW p \in patches[s], Create(s, p) PROVE \E n \in Patch : Makes(s, p, n)
  <2>1. p.decision = "pending" /\ p.status = "proposed" /\ assigning' = [assigning EXCEPT ![s] = None]
          /\ p.kind = "create_transaction"
    BY <1>0, <1>3, <1>7 DEF Create, Accepts, Locked
  <2>2. CASE statement[s] # "superseded"
    <3>1. Settle(s, p, "applied", "accepted")
      BY <1>7, <2>2 DEF Create
    <3>2. ledger' = [ledger EXCEPT ![p.txn] = [version |-> 2, live |-> TRUE, of |-> s]]
            /\ matched' = [matched EXCEPT ![s][p.line] = p.txn]
      BY <1>7, <2>2 DEF Create
    <3> QED
      BY <1>2, <2>1, <2>2, <3>1, <3>2 DEF Makes
  <2>3. CASE statement[s] = "superseded"
    <3>1. Settle(s, p, "failed", "pending")
      BY <1>7, <2>3 DEF Create, Fails
    <3>2. ledger' = [ledger EXCEPT ![p.txn] = [version |-> 1, live |-> TRUE, of |-> None]] /\ UNCHANGED matched
      BY <1>7, <2>3 DEF Create
    <3> QED
      BY <1>2, <2>1, <2>3, <3>1, <3>2 DEF Makes
  <2> QED
    BY <2>2, <2>3
<1>8. ASSUME NEW p \in patches[s], AssignRead(s, p) PROVE Reads(s, p) \/ \E n \in Patch : Declines(s, p, n)
  <2>1. CASE Fails(s, p) /\ UNCHANGED assigning
    <3>1. p.decision = "pending" /\ p.status # "applied" /\ assigning' = [assigning EXCEPT ![s] = None]
            /\ UNCHANGED <<ledger, matched>> /\ Settle(s, p, "failed", "pending")
      BY <1>0, <1>3, <1>8, <2>1 DEF AssignRead, Accepts, Fails, Locked
    <3> QED
      BY <1>2, <3>1 DEF Declines
  <2> QED
    BY <1>8, <2>1 DEF AssignRead, Reads
<1>9. ASSUME AssignWrite(s) PROVE \E p \in patches[s] : \E n \in Patch : Declines(s, p, n) \/ Takes(s, p, n)
  <2> DEFINE p == assigning[s].patch
  <2>1. p \in patches[s] /\ p.status = "proposed" /\ p.decision = "pending"
    BY <1>3, <1>9 DEF AssignWrite, TypeOK
  <2>2. assigning[s] # None /\ assigning' = [assigning EXCEPT ![s] = None]
    BY <1>9, SMTT(30) DEF AssignWrite
  <2>3. CASE Unmoved(p.txn, assigning[s].version)
    <3>1. Settle(s, p, "applied", "accepted")
      BY <1>9, <2>3 DEF AssignWrite
    <3>2. ledger' = [ledger EXCEPT ![p.txn].of = s, ![p.txn].version = @ + 1]
            /\ matched' = [matched EXCEPT ![s][p.line] = p.txn]
      BY <1>9, <2>3 DEF AssignWrite
    <3>3. \E n \in Patch : Disposes(s, p, n) /\ n.status = "applied"
      BY <1>2, <2>1, <2>2, <3>1
    <3> QED
      BY <2>1, <2>2, <2>3, <3>2, <3>3 DEF Takes, Unmoved
  <2>4. CASE ~Unmoved(p.txn, assigning[s].version)
    <3>1. Settle(s, p, "failed", "pending") /\ UNCHANGED <<ledger, matched>>
      BY <1>9, <2>4 DEF AssignWrite, Fails
    <3> QED
      BY <1>2, <2>1, <2>2, <3>1 DEF Declines
  <2> QED
    BY <2>3, <2>4
<1>10. ASSUME AssignAbort(s) PROVE Drops(s)
  BY <1>10 DEF AssignAbort, Drops, auditVars
<1> QED
  BY <1>1, <1>4, <1>5, <1>6, <1>7, <1>8, <1>9, <1>10 DEF Deciding

\* Which rows decisions hold after a decision has gone on.
LEMMA DecidingHolds ==
    ASSUME TypeOK, PatchesAreSound, NEW s \in Session, Deciding(s), NEW r \in Session, assigning'[r] # None
    PROVE  \/ assigning'[r] = assigning[r] /\ r # s
           \/ r = s /\ \E p \in patches[s] :
                Reads(s, p) /\ assigning'[r].patch = p /\ assigning'[r].version = ledger[p.txn].version
<1>1. assigning \in [Session -> Assignment \cup {None}]
  BY DEF TypeOK
<1>2. CASE assigning' = [assigning EXCEPT ![s] = None]
  BY <1>1, <1>2
<1>3. ASSUME NEW p \in patches[s], Reads(s, p)
      PROVE  IF r = s THEN assigning'[r].patch = p /\ assigning'[r].version = ledger[p.txn].version
             ELSE assigning'[r] = assigning[r]
  BY <1>1, <1>3 DEF Reads
<1>4. assigning' = [assigning EXCEPT ![s] = None] \/ \E p \in patches[s] : Reads(s, p)
  BY DecidingDoes DEF Declines, Makes, Takes, Disposes, Drops
<1> QED
  BY <1>2, <1>3, <1>4

-------------------------------------------------------------------------------
(* Rows and lines after they have been written                             *)

\* A row after it has been written.
LEMMA RowFields ==
    ASSUME NEW r \in Row
    PROVE  /\ r.version \in Nat /\ r.live \in BOOLEAN /\ r.of \in Session \cup {None}
           /\ r = [version |-> r.version, live |-> r.live, of |-> r.of]
BY DEF Row

LEMMA TakenRow ==
    ASSUME TypeOK, NEW t \in TxnId, NEW s \in Session,
           ledger' = [ledger EXCEPT ![t].of = s, ![t].version = @ + 1]
    PROVE  /\ ledger' \in [TxnId -> Row]
           /\ ledger'[t].version = ledger[t].version + 1 /\ ledger'[t].live = ledger[t].live
           /\ ledger'[t].of = s
           /\ \A u \in TxnId \ {t} : ledger'[u] = ledger[u]
<1> DEFINE n == [version |-> ledger[t].version + 1, live |-> ledger[t].live, of |-> s]
           f == [ledger EXCEPT ![t].of = s]
<1>1. ledger \in [TxnId -> Row] /\ ledger[t] \in Row
  BY DEF TypeOK
<1>2. n \in Row
  BY <1>1, RowFields DEF Row
<1>3. f \in [TxnId -> Row] /\ f[t] = [version |-> ledger[t].version, live |-> ledger[t].live, of |-> s]
        /\ \A u \in TxnId \ {t} : f[u] = ledger[u]
  <2>1. [ledger[t] EXCEPT !.of = s] = [version |-> ledger[t].version, live |-> ledger[t].live, of |-> s]
    BY <1>1, RowFields
  <2>2. [version |-> ledger[t].version, live |-> ledger[t].live, of |-> s] \in Row
    BY <1>1, RowFields DEF Row
  <2> QED
    BY <1>1, <2>1, <2>2
<1>4. ledger' = [f EXCEPT ![t].version = @ + 1]
  OBVIOUS
<1> HIDE DEF f
<1>5. [f[t] EXCEPT !.version = f[t].version + 1] = n
  BY <1>3
<1>8. n.version = ledger[t].version + 1 /\ n.live = ledger[t].live /\ n.of = s
  OBVIOUS
<1>6. ledger' = [f EXCEPT ![t] = n]
  BY <1>4, <1>5
<1> HIDE DEF n
<1>7. ledger' \in [TxnId -> Row] /\ ledger'[t] = n /\ \A u \in TxnId \ {t} : ledger'[u] = ledger[u]
  BY <1>2, <1>3, <1>6
<1> QED
  BY <1>7, <1>8

LEMMA EditedRow ==
    ASSUME TypeOK, NEW e \in edits,
           ledger' = [ledger EXCEPT ![e.txn].version = e.version + 1, ![e.txn].live = @ /\ ~e.deletes]
    PROVE  /\ ledger' \in [TxnId -> Row] /\ e.txn \in TxnId
           /\ ledger'[e.txn].version = e.version + 1 /\ ledger'[e.txn].of = ledger[e.txn].of
           /\ \A u \in TxnId \ {e.txn} : ledger'[u] = ledger[u]
<1> DEFINE t == e.txn
           live == ledger[t].live /\ ~e.deletes
           n == [version |-> e.version + 1, live |-> live, of |-> ledger[t].of]
           f == [ledger EXCEPT ![t].version = e.version + 1]
<1>1. ledger \in [TxnId -> Row] /\ t \in TxnId /\ e.version \in Nat /\ ledger[t] \in Row
  BY DEF TypeOK
<1>2. live \in BOOLEAN
  OBVIOUS
<1>3. f \in [TxnId -> Row] /\ f[t] = [version |-> e.version + 1, live |-> ledger[t].live, of |-> ledger[t].of]
        /\ \A u \in TxnId \ {t} : f[u] = ledger[u]
  <2>1. [ledger[t] EXCEPT !.version = e.version + 1]
          = [version |-> e.version + 1, live |-> ledger[t].live, of |-> ledger[t].of]
    BY <1>1, RowFields
  <2>2. [version |-> e.version + 1, live |-> ledger[t].live, of |-> ledger[t].of] \in Row
    BY <1>1, RowFields DEF Row
  <2> QED
    BY <1>1, <2>1, <2>2
<1>4. ledger' = [f EXCEPT ![t].live = f[t].live /\ ~e.deletes]
  OBVIOUS
<1>5. (f[t].live /\ ~e.deletes) = live
  BY <1>3
<1>6. ledger' = [f EXCEPT ![t].live = live]
  BY <1>4, <1>5
<1> HIDE DEF f, live
<1>7. n \in Row
  BY <1>1, <1>2, RowFields DEF Row
<1>8. [f[t] EXCEPT !.live = live] = n
  BY <1>3
<1>9. ledger' = [f EXCEPT ![t] = n]
  BY <1>6, <1>8
<1>12. n.version = e.version + 1 /\ n.of = ledger[t].of
  OBVIOUS
<1>10. f \in [TxnId -> Row] /\ \A u \in TxnId \ {t} : f[u] = ledger[u]
  BY <1>3
<1> HIDE DEF n, t
<1>11. ledger' \in [TxnId -> Row] /\ ledger'[t] = n /\ \A u \in TxnId \ {t} : ledger'[u] = ledger[u]
  BY <1>1, <1>7, <1>9, <1>10
<1> QED
  BY <1>1, <1>11, <1>12 DEF t

\* A transaction that is made for a line.
LEMMA MadeRow ==
    ASSUME TypeOK, NEW t \in TxnId, NEW v \in Nat, NEW o \in Session \cup {None},
           ledger' = [ledger EXCEPT ![t] = [version |-> v, live |-> TRUE, of |-> o]]
    PROVE  /\ ledger' \in [TxnId -> Row]
           /\ ledger'[t].version = v /\ ledger'[t].of = o
           /\ \A u \in TxnId \ {t} : ledger'[u] = ledger[u]
<1> DEFINE n == [version |-> v, live |-> TRUE, of |-> o]
<1>1. n \in Row
  BY DEF Row
<1>2. ledger \in [TxnId -> Row] /\ ledger' = [ledger EXCEPT ![t] = n]
  BY DEF TypeOK
<1>3. n.version = v /\ n.of = o
  OBVIOUS
<1> HIDE DEF n
<1>4. ledger' \in [TxnId -> Row] /\ ledger'[t] = n /\ \A u \in TxnId \ {t} : ledger'[u] = ledger[u]
  BY <1>1, <1>2
<1> QED
  BY <1>3, <1>4

\* A line that is matched.
LEMMA MatchedLine ==
    ASSUME TypeOK, NEW s \in Session, NEW l \in Line, NEW t \in TxnId,
           matched' = [matched EXCEPT ![s][l] = t]
    PROVE  /\ matched' \in [Session -> [Line -> TxnId \cup {None}]]
           /\ \A r \in Session, k \in Line :
                matched'[r][k] = IF r = s /\ k = l THEN t ELSE matched[r][k]
           /\ \A r \in Session \ {s} : matched'[r] = matched[r]
<1> DEFINE n == [matched[s] EXCEPT ![l] = t]
<1>1. matched \in [Session -> [Line -> TxnId \cup {None}]] /\ matched[s] \in [Line -> TxnId \cup {None}]
  BY DEF TypeOK
<1>2. n \in [Line -> TxnId \cup {None}] /\ \A k \in Line : n[k] = IF k = l THEN t ELSE matched[s][k]
  BY <1>1
<1>3. matched' = [matched EXCEPT ![s] = n]
  BY <1>1
<1> HIDE DEF n
<1> QED
  BY <1>1, <1>2, <1>3

-------------------------------------------------------------------------------
(* What matching proposes                                                  *)

LEMMA ProposedFields ==
    \A line, txn, kind :
        LET p == Proposed(line, txn, kind) IN
        p.line = line /\ p.txn = txn /\ p.kind = kind /\ p.status = "proposed" /\ p.decision = "pending"
BY DEF Proposed

LEMMA ProposedType ==
    ASSUME NEW line \in Line \cup {None}, NEW txn \in TxnId \cup {None}, NEW kind \in Kind
    PROVE  Proposed(line, txn, kind) \in Patch
BY DEF Proposed, Patch

\* A finding is about a line that is assigned or is to be made or is unresolved, or
\* about a transaction that is left, or about the difference of the totals.
Finding(s, A, C, f, p) ==
    \/ \E l \in A : p = Proposed(l, f[l], "assign_statement")
    \/ \E l \in C : p = Proposed(l, <<s, l>>, "create_transaction")
    \/ \E l \in Line \ (A \cup C) : p = Proposed(l, None, "acknowledge_unresolved")
    \/ \E t \in TxnId : p = Proposed(None, t, "acknowledge_unresolved")
    \/ p = Difference

LEMMA ProposalsFound ==
    ASSUME NEW s \in Session, NEW L \in SUBSET TxnId, NEW P \in Proposals(s, L)
    PROVE  \E A \in SUBSET Line : \E C \in SUBSET (Line \ A) : \E f \in [A -> L] :
              \A p \in P : Finding(s, A, C, f, p)
<1> DEFINE assign(A, f) == {Proposed(l, f[l], "assign_statement") : l \in A}
           create(C) == {Proposed(l, <<s, l>>, "create_transaction") : l \in C}
           rest(O, T) == {Proposed(l, None, "acknowledge_unresolved") : l \in O}
                           \cup {Proposed(None, t, "acknowledge_unresolved") : t \in T}
           all(A, C, f) == assign(A, f) \cup create(C) \cup rest(Line \ (A \cup C), L \ {f[l] : l \in A})
           found == UNION {UNION {{all(A, C, f) : f \in Injection(A, L)}
                                    : C \in SUBSET (Line \ A)}
                           : A \in SUBSET Line}
<1>1. \E F \in found : P = F \/ P = F \cup {Difference}
  BY DEF Proposals
<1>2. PICK F \in found : P = F \/ P = F \cup {Difference}
  BY <1>1
<1>3. PICK A \in SUBSET Line : F \in UNION {{all(A, C, f) : f \in Injection(A, L)} : C \in SUBSET (Line \ A)}
  BY <1>2
<1>4. PICK C \in SUBSET (Line \ A) : F \in {all(A, C, f) : f \in Injection(A, L)}
  BY <1>3
<1>5. PICK f \in Injection(A, L) : F = all(A, C, f)
  BY <1>4
<1>6. f \in [A -> L]
  BY <1>5 DEF Injection, IsInjective
<1>7. ASSUME NEW p \in all(A, C, f) PROVE Finding(s, A, C, f, p)
  <2>1. CASE p \in assign(A, f)
    BY <2>1 DEF Finding
  <2>2. CASE p \in create(C)
    BY <2>2 DEF Finding
  <2>3. CASE p \in rest(Line \ (A \cup C), L \ {f[l] : l \in A})
    BY <2>3 DEF Finding
  <2> QED
    BY <1>7, <2>1, <2>2, <2>3
<1> HIDE DEF all, found
<1>8. \A p \in P : Finding(s, A, C, f, p)
  BY <1>2, <1>5, <1>7 DEF Finding
<1> QED
  BY <1>6, <1>8

LEMMA ProposalsSound ==
    ASSUME NEW s \in Session, NEW L \in SUBSET TxnId, NEW P \in Proposals(s, L)
    PROVE  /\ P \subseteq Patch
           /\ \A p \in P : /\ p.status = "proposed" /\ p.decision = "pending"
                           /\ p.kind = "create_transaction" => p.line \in Line /\ p.txn = <<s, p.line>>
                           /\ p.kind = "assign_statement" => p.line \in Line /\ p.txn \in TxnId
                           /\ \A q \in P : p.line = q.line /\ (p.line \in Line \/ p.txn = q.txn) => p = q
<1>1. PICK A \in SUBSET Line : \E C \in SUBSET (Line \ A) : \E f \in [A -> L] :
              \A p \in P : Finding(s, A, C, f, p)
  BY ProposalsFound
<1>2. PICK C \in SUBSET (Line \ A) : \E f \in [A -> L] : \A p \in P : Finding(s, A, C, f, p)
  BY <1>1
<1>3. PICK f \in [A -> L] : \A p \in P : Finding(s, A, C, f, p)
  BY <1>2
<1>4. ASSUME NEW p, Finding(s, A, C, f, p)
      PROVE  /\ p \in Patch /\ p.status = "proposed" /\ p.decision = "pending"
             /\ p.kind = "create_transaction" => p.line \in Line /\ p.txn = <<s, p.line>>
             /\ p.kind = "assign_statement" => p.line \in Line /\ p.txn \in TxnId
  <2>1. \A l \in A : f[l] \in TxnId
    OBVIOUS
  <2>2. \A l \in C : <<s, l>> \in TxnId
    BY DEF TxnId
  <2>3. CASE \E l \in A : p = Proposed(l, f[l], "assign_statement")
    BY <2>1, <2>3, ProposedFields, ProposedType DEF Kind
  <2>4. CASE \E l \in C : p = Proposed(l, <<s, l>>, "create_transaction")
    BY <2>2, <2>4, ProposedFields, ProposedType DEF Kind
  <2>5. CASE \E l \in Line \ (A \cup C) : p = Proposed(l, None, "acknowledge_unresolved")
    BY <2>5, ProposedFields, ProposedType DEF Kind
  <2>6. CASE \E t \in TxnId : p = Proposed(None, t, "acknowledge_unresolved")
    BY <2>6 DEF Proposed, Patch, Kind
  <2>7. CASE p = Difference
    BY <2>7 DEF Proposed, Patch, Kind, Difference
  <2> QED
    BY <1>4, <2>3, <2>4, <2>5, <2>6, <2>7 DEF Finding
<1>5. ASSUME NEW p, NEW q, Finding(s, A, C, f, p), Finding(s, A, C, f, q), p.line = q.line, p.line \in Line
      PROVE  p = q
  <2>1. ASSUME NEW k, Finding(s, A, C, f, k), k.line \in Line
        PROVE  k = IF k.line \in A THEN Proposed(k.line, f[k.line], "assign_statement")
                   ELSE IF k.line \in C THEN Proposed(k.line, <<s, k.line>>, "create_transaction")
                   ELSE Proposed(k.line, None, "acknowledge_unresolved")
    BY <2>1, NoneAssumption DEF Finding, Difference, Proposed
  <2> QED
    BY <1>5, <2>1
<1>6. ASSUME NEW p, NEW q, Finding(s, A, C, f, p), Finding(s, A, C, f, q), p.line = q.line, p.txn = q.txn,
             p.line \notin Line
      PROVE  p = q
  <2>1. ASSUME NEW k, Finding(s, A, C, f, k), k.line \notin Line
        PROVE  k = Proposed(None, k.txn, "acknowledge_unresolved")
    BY <2>1 DEF Finding, Difference, Proposed
  <2> QED
    BY <1>6, <2>1
<1> QED
  BY <1>3, <1>4, <1>5, <1>6

-------------------------------------------------------------------------------
(* The invariant                                                           *)

LEMMA InitIInv == Init => IInv
<1> SUFFICES ASSUME Init PROVE IInv
  OBVIOUS
<1>1. ASSUME NEW t \in TxnId
      PROVE  /\ ledger[t].version = IF t \in Txn THEN 1 ELSE 0
             /\ (ledger[t].live = TRUE) <=> t \in Txn
             /\ ledger[t] \in Row
  <2> DEFINE live == t \in Txn
             version == IF t \in Txn THEN 1 ELSE 0
  <2>1. ledger[t] = [version |-> version, live |-> live, of |-> None]
    BY DEF Init
  <2>2. live \in BOOLEAN /\ version \in Nat
    OBVIOUS
  <2>3. (live = TRUE) <=> t \in Txn
    OBVIOUS
  <2> HIDE DEF live, version
  <2>4. ledger[t].version = version /\ ledger[t].live = live /\ ledger[t] \in Row
    BY <2>1, <2>2 DEF Row
  <2> QED
    BY <2>3, <2>4 DEF version
<1>2. TypeOK
  <2>1. ledger \in [TxnId -> Row]
    BY <1>1 DEF Init
  <2> QED
    BY <2>1, EditsAssumption DEF Init, TypeOK
<1>3. \A s \in Session, l \in Line : <<s, l>> \in TxnId /\ <<s, l>> \notin Txn
  BY TxnAssumption DEF TxnId
<1>4. \A s \in Session : patches[s] = {} /\ assigning[s] = None /\ session[s] = "none"
                           /\ \A l \in Line : matched[s][l] = None
  BY DEF Init
<1>5. TouchedIsMade
  <2>1. \A t \in TxnId : ledger[t].live => ledger[t].version = 1
    <3>1. \A t \in TxnId : ledger[t].live \in BOOLEAN
      BY <1>1 DEF Row
    <3> QED
      BY <1>1, <3>1
  <2> QED
    BY <1>4, <2>1 DEF Init, TouchedIsMade, Made
<1>6. ProposedIsNotMade
  <2>1. \A t \in TxnId : t \notin Txn => ledger[t].version = 0
    BY <1>1
  <2> QED
    BY <1>3, <1>4, <2>1 DEF ProposedIsNotMade, Made
<1>7. ImportsAreApart
  BY <1>4 DEF Init, ImportsAreApart, Session
<1>8. CountedIsSettled
  BY <1>4 DEF Init, CountedIsSettled
<1>9. MatchedOnce
  <2>1. \A s \in Session, l \in Line : AppliedTo(s, l) = {}
    BY <1>4 DEF AppliedTo
  <2> QED
    BY <1>4, <2>1 DEF MatchedOnce
<1> QED
  BY <1>2, <1>4, <1>5, <1>6, <1>7, <1>8, <1>9 DEF IInv, PatchesAreSound, AssigningIsSound

\* Matching is saved for a session that has no candidates.
LEMMA MatchSaves ==
    ASSUME IInv, NEW i \in Import, NEW s \in Session, MatchSave(i, s)
    PROVE  /\ patches[s] = {} /\ assigning[s] = None /\ statement[s] # "none"
           /\ \E L \in SUBSET TxnId : (\A t \in L : ledger[t].live) /\ patches'[s] \in Proposals(s, L)
           /\ \A r \in Session \ {s} : patches'[r] = patches[r]
           /\ patches' \in [Session -> SUBSET Patch]
           /\ \A p \in patches'[s] : p.status = "proposed"
<1>1. patches[s] = {} /\ statement[s] # "none"
  BY DEF IInv, ImportsAreApart, MatchSave
<1>2. assigning[s] = None
  BY <1>1 DEF IInv, TypeOK
<1>3. \E L \in SUBSET {t \in TxnId : ledger[t].live} : \E P \in Proposals(s, L) :
         patches' = [patches EXCEPT ![s] = P]
  BY DEF MatchSave
<1>4. PICK L \in SUBSET {t \in TxnId : ledger[t].live} : \E P \in Proposals(s, L) :
         patches' = [patches EXCEPT ![s] = P]
  BY <1>3
<1>5. PICK P \in Proposals(s, L) : patches' = [patches EXCEPT ![s] = P]
  BY <1>4
<1>6. L \in SUBSET TxnId /\ \A t \in L : ledger[t].live
  OBVIOUS
<1>7. P \subseteq Patch /\ \A p \in P : p.status = "proposed"
  BY <1>5, <1>6, ProposalsSound
<1>8. patches \in [Session -> SUBSET Patch]
  BY DEF IInv, TypeOK
<1>9. patches'[s] = P /\ (\A r \in Session \ {s} : patches'[r] = patches[r]) /\ patches' \in [Session -> SUBSET Patch]
  BY <1>5, <1>7, <1>8
<1> QED
  BY <1>1, <1>2, <1>5, <1>6, <1>7, <1>9

LEMMA StepTypeOK == IInv /\ [Next]_vars => TypeOK'
<1> SUFFICES ASSUME IInv, [Next]_vars PROVE TypeOK'
  OBVIOUS
<1> USE DEF vars, importVars, auditVars, editVars
<1>0. TypeOK
  BY DEF IInv
<1>1. ASSUME NEW i \in Import, NEW B \in SUBSET Bill, ImportRead(i, B) PROVE TypeOK'
  <2>1. Previous(B) \subseteq Session /\ {i} \X B \subseteq Session
    BY DEF Previous, Session
  <2> QED
    BY <1>0, <1>1, <2>1 DEF ImportRead, TypeOK
<1>2. ASSUME NEW i \in Import, ImportInsert(i) PROVE TypeOK'
  BY <1>0, <1>2 DEF ImportInsert, TypeOK
<1>3. ASSUME NEW i \in Import, NEW s \in Session, MatchSave(i, s) PROVE TypeOK'
  <2>1. patches' \in [Session -> SUBSET Patch] /\ assigning[s] = None /\ statement[s] # "none"
          /\ \A r \in Session \ {s} : patches'[r] = patches[r]
    BY <1>3, MatchSaves
  <2> QED
    BY <1>0, <1>3, <2>1 DEF MatchSave, NextFlow, TypeOK
<1>4. ASSUME NEW i \in Import, NEW s \in Session, MarkFailed(i, s) PROVE TypeOK'
  <2>1. statement[s] # "none"
    BY <1>4 DEF IInv, ImportsAreApart, MarkFailed
  <2> QED
    BY <1>0, <1>4, <2>1 DEF MarkFailed, NextFlow, TypeOK
<1>5. ASSUME NEW i \in Import, MatchFails(i) PROVE TypeOK'
  BY <1>0, <1>5 DEF MatchFails, Children, Session, TypeOK
<1>6. ASSUME NEW i \in Import, ImportEnds(i) PROVE TypeOK'
  BY <1>0, <1>6 DEF ImportEnds, TypeOK
<1>7. ASSUME NEW s \in Session, Deciding(s) PROVE TypeOK'
  <2>0. PatchesAreSound /\ UNCHANGED <<importVars, statement, session, counted, editVars, early>>
    BY <1>0, <1>7, DecidingDoes DEF IInv
  <2>1. ASSUME patches' \in [Session -> SUBSET Patch], ledger' \in [TxnId -> Row],
               matched' \in [Session -> [Line -> TxnId \cup {None}]],
               assigning' \in [Session -> Assignment \cup {None}],
               \A r \in Session : assigning'[r] # None =>
                  assigning'[r].patch \in patches'[r] /\ assigning'[r].patch.status = "proposed"
        PROVE  TypeOK'
    BY <1>0, <2>0, <2>1 DEF TypeOK
  <2>2. ASSUME NEW p \in patches[s], NEW n \in Patch, Disposes(s, p, n),
               ledger' \in [TxnId -> Row], matched' \in [Session -> [Line -> TxnId \cup {None}]]
        PROVE  TypeOK'
    <3>1. patches' \in [Session -> SUBSET Patch] /\ \A r \in Session \ {s} : patches'[r] = patches[r]
      BY <1>0, <2>2, ResolveSession DEF Disposes
    <3>2. assigning' = [assigning EXCEPT ![s] = None] /\ assigning \in [Session -> Assignment \cup {None}]
      BY <1>0, <2>2 DEF Disposes, TypeOK
    <3>3. \A r \in Session : assigning'[r] # None =>
             assigning'[r].patch \in patches'[r] /\ assigning'[r].patch.status = "proposed"
      BY <1>0, <3>1, <3>2 DEF TypeOK
    <3> QED
      BY <2>1, <2>2, <3>1, <3>2, <3>3
  <2>3. matched \in [Session -> [Line -> TxnId \cup {None}]] /\ ledger \in [TxnId -> Row]
    BY <1>0 DEF TypeOK
  <2>4. ASSUME NEW p \in patches[s], NEW n \in Patch, Declines(s, p, n) PROVE TypeOK'
    BY <2>2, <2>3, <2>4 DEF Declines
  <2>5. ASSUME NEW p \in patches[s], NEW n \in Patch, Makes(s, p, n) PROVE TypeOK'
    <3>1. p.line \in Line /\ p.txn \in TxnId
      BY <1>0, <2>0, <2>5, MadeTxn DEF Makes
    <3>2. ledger' \in [TxnId -> Row] /\ matched' \in [Session -> [Line -> TxnId \cup {None}]]
      <4>1. CASE statement[s] # "superseded"
        <5>1. ledger' = [ledger EXCEPT ![p.txn] = [version |-> 2, live |-> TRUE, of |-> s]]
                /\ matched' = [matched EXCEPT ![s][p.line] = p.txn]
          BY <2>5, <4>1 DEF Makes
        <5> QED
          BY <1>0, <3>1, <5>1, MadeRow, MatchedLine
      <4>2. CASE statement[s] = "superseded"
        <5>1. ledger' = [ledger EXCEPT ![p.txn] = [version |-> 1, live |-> TRUE, of |-> None]]
                /\ UNCHANGED matched
          BY <2>5, <4>2, SMTT(30) DEF Makes
        <5> QED
          BY <1>0, <2>3, <3>1, <5>1, MadeRow
      <4> QED
        BY <4>1, <4>2
    <3> QED
      BY <2>2, <2>5, <3>2 DEF Makes
  <2>6. ASSUME NEW p \in patches[s], NEW n \in Patch, Takes(s, p, n) PROVE TypeOK'
    <3>1. p.line \in Line /\ p.txn \in TxnId
      BY <1>0, <2>0, <2>6, SMTT(30) DEF IInv, AssigningIsSound, PatchesAreSound, Takes
    <3>2. ledger' \in [TxnId -> Row] /\ matched' \in [Session -> [Line -> TxnId \cup {None}]]
      BY <1>0, <2>6, <3>1, TakenRow, MatchedLine, ZenonT(60) DEF Takes
    <3> QED
      BY <2>2, <2>6, <3>2, ZenonT(60) DEF Takes
  <2>7. ASSUME NEW p \in patches[s], Reads(s, p) PROVE TypeOK'
    <3>1. p \in Patch /\ p.kind = "assign_statement" /\ p.status = "proposed"
      BY <1>0, <2>7 DEF Reads, Accepts, TypeOK
    <3>2. p.txn \in TxnId
      BY <2>0, <3>1 DEF PatchesAreSound
    <3>3. ledger[p.txn].version \in Nat
      BY <2>3, <3>2 DEF Row
    <3>4. [patch |-> p, version |-> ledger[p.txn].version] \in Assignment
      BY <3>1, <3>3 DEF Assignment
    <3>5. assigning' \in [Session -> Assignment \cup {None}]
            /\ \A r \in Session : assigning'[r] # None =>
                 assigning'[r].patch \in patches'[r] /\ assigning'[r].patch.status = "proposed"
      BY <1>0, <2>7, <3>1, <3>4 DEF Reads, TypeOK
    <3> QED
      BY <1>0, <2>1, <2>7, <3>5 DEF Reads, TypeOK
  <2>8. ASSUME Drops(s) PROVE TypeOK'
    BY <1>0, <2>1, <2>8 DEF Drops, TypeOK
  <2> QED
    BY <1>0, <1>7, <2>0, <2>4, <2>5, <2>6, <2>7, <2>8, DecidingDoes
<1>8. ASSUME NEW s \in Session, CompleteCount(s) PROVE TypeOK'
  <2> DEFINE saved == patches[s] # {}
  <2>1. saved \in BOOLEAN
    OBVIOUS
  <2>2. counted' = counted \cup {[session |-> s, saved |-> saved]}
    BY <1>8 DEF CompleteCount
  <2> HIDE DEF saved
  <2>3. counted' \subseteq [session : Session, saved : BOOLEAN]
    BY <1>0, <2>1, <2>2 DEF TypeOK
  <2> QED
    BY <1>0, <1>8, <2>3 DEF CompleteCount, TypeOK
<1>9. ASSUME NEW c \in counted, CompleteUpdate(c) PROVE TypeOK'
  <2>1. c.session \in Session
    BY <1>0 DEF TypeOK
  <2> QED
    BY <1>0, <1>9, <2>1 DEF CompleteUpdate, TypeOK
<1>10. ASSUME NEW t \in TxnId, NEW d \in BOOLEAN, EditRead(t, d) PROVE TypeOK'
  <2>1. ledger[t].version \in Nat
    BY <1>0 DEF TypeOK, Row
  <2>2. edited' \in 0 .. MaxEdits
    BY <1>0, <1>10, EditsAssumption DEF EditRead, TypeOK
  <2> QED
    BY <1>0, <1>10, <2>1, <2>2 DEF EditRead, TypeOK
<1>11. ASSUME NEW e \in edits, EditWrite(e) PROVE TypeOK'
  <2>1. ledger' \in [TxnId -> Row] /\ e.txn \in TxnId
    BY <1>0, <1>11, EditedRow DEF EditWrite
  <2> QED
    BY <1>0, <1>11, <2>1 DEF EditWrite, TypeOK
<1>12. CASE UNCHANGED vars
  BY <1>0, <1>12 DEF TypeOK
<1> QED
  BY <1>1, <1>2, <1>3, <1>4, <1>5, <1>6, <1>7, <1>8, <1>9, <1>10, <1>11, <1>12 DEF Next, Importing

LEMMA StepImports == IInv /\ [Next]_vars => ImportsAreApart'
<1> SUFFICES ASSUME IInv, [Next]_vars PROVE ImportsAreApart'
  OBVIOUS
<1> USE DEF vars, importVars, auditVars, editVars
<1>0. TypeOK /\ ImportsAreApart
  BY DEF IInv
<1>1. ASSUME NEW i \in Import, NEW B \in SUBSET Bill, ImportRead(i, B) PROVE ImportsAreApart'
  <2>1. flow'[i] = "insert" /\ todo'[i] = {i} \X B /\ \A s \in prior'[i] : statement[s] # "none"
    BY <1>0, <1>1 DEF ImportRead, TypeOK, Previous
  <2>2. \A j \in Import \ {i} : flow'[j] = flow[j] /\ todo'[j] = todo[j] /\ prior'[j] = prior[j]
    BY <1>0, <1>1 DEF ImportRead, TypeOK
  <2>3. flow[i] = "new" /\ UNCHANGED <<statement, patches>> /\ {i} \X B \subseteq {i} \X Bill
    BY <1>1 DEF ImportRead
  <2> QED
    BY <1>0, <2>1, <2>2, <2>3 DEF ImportsAreApart
<1>2. ASSUME NEW i \in Import, ImportInsert(i) PROVE ImportsAreApart'
  <2>1. flow'[i] = "match" /\ flow[i] = "insert" /\ prior'[i] = {} /\ UNCHANGED <<todo, patches>>
    BY <1>0, <1>2 DEF ImportInsert, TypeOK
  <2>2. \A j \in Import \ {i} : flow'[j] = flow[j] /\ prior'[j] = prior[j]
    BY <1>0, <1>2 DEF ImportInsert, TypeOK
  <2>3. \A s \in Session : statement'[s] = IF s \in prior[i] THEN "superseded"
                                           ELSE IF s \in todo[i] THEN "closed" ELSE statement[s]
    BY <1>2 DEF ImportInsert
  <2>4. \A s \in todo[i] : s \in Session /\ patches[s] = {}
    BY <1>0, <2>1 DEF ImportsAreApart, Session
  <2>5. \A j \in Import : todo[j] \subseteq Session /\ prior[j] \subseteq Session
    BY <1>0 DEF TypeOK
  <2>6. \A s \in Session : statement[s] # "none" => statement'[s] # "none"
    BY <2>3
  <2>7. ASSUME NEW j \in Import \ {i}, flow[j] \in {"new", "insert"}, NEW b \in Bill
        PROVE  statement'[<<j, b>>] = "none"
    <3>1. statement[<<j, b>>] = "none" /\ <<j, b>> \in Session /\ <<j, b>> \notin todo[i]
      BY <1>0, <2>7 DEF ImportsAreApart, Session
    <3>2. <<j, b>> \notin prior[i]
      BY <1>0, <3>1 DEF ImportsAreApart
    <3> QED
      BY <2>3, <3>1, <3>2
  <2> QED
    BY <1>0, <2>1, <2>2, <2>3, <2>4, <2>5, <2>6, <2>7 DEF ImportsAreApart
<1>3. ASSUME NEW i \in Import, NEW s \in Session, s \in todo[i], flow[i] \in {"match", "fail"},
             flow' = NextFlow(i, s), todo' = [todo EXCEPT ![i] = @ \ {s}],
             UNCHANGED <<prior, statement>>, \A r \in Session \ {s} : patches'[r] = patches[r]
      PROVE  ImportsAreApart'
  <2>1. \A j \in Import : /\ todo'[j] = IF j = i THEN todo[i] \ {s} ELSE todo[j]
                          /\ flow'[j] = flow[j] \/ flow'[j] = "over"
    BY <1>0, <1>3 DEF NextFlow, TypeOK
  <2>2. \A j \in Import : \A r \in todo'[j] : r \in Session /\ r # s
    BY <1>0, <1>3, <2>1 DEF ImportsAreApart, TypeOK, Session
  <2>3. flow'[i] \notin {"new", "insert"}
    BY <1>3, <2>1
  <2>4. \A j \in Import \ {i} : \A b \in Bill : <<j, b>> # s /\ <<j, b>> \in Session
    <3>1. PICK b \in Bill : s = <<i, b>>
      BY <1>0, <1>3 DEF ImportsAreApart
    <3> QED
      BY <3>1 DEF Session
  <2> QED
    BY <1>0, <1>3, <2>1, <2>2, <2>3, <2>4 DEF ImportsAreApart
<1>4. ASSUME NEW i \in Import, NEW s \in Session, MatchSave(i, s) PROVE ImportsAreApart'
  BY <1>3, <1>4, MatchSaves DEF MatchSave
<1>5. ASSUME NEW i \in Import, NEW s \in Session, MarkFailed(i, s) PROVE ImportsAreApart'
  BY <1>3, <1>5 DEF MarkFailed
<1>6. ASSUME NEW i \in Import, MatchFails(i) PROVE ImportsAreApart'
  BY <1>0, <1>6 DEF MatchFails, Children, TypeOK, ImportsAreApart
<1>7. ASSUME NEW i \in Import, ImportEnds(i) PROVE ImportsAreApart'
  BY <1>0, <1>7 DEF ImportEnds, TypeOK, ImportsAreApart
<1>8. ASSUME UNCHANGED <<importVars, statement>>, \A r \in Session : patches[r] = {} => patches'[r] = {}
      PROVE  ImportsAreApart'
  <2>1. \A i \in Import : todo[i] \subseteq Session /\ \A b \in Bill : <<i, b>> \in Session
    BY <1>0 DEF TypeOK, Session
  <2> QED
    BY <1>0, <1>8, <2>1 DEF ImportsAreApart
<1>9. ASSUME NEW s \in Session, Deciding(s) PROVE ImportsAreApart'
  <2>1. PatchesAreSound
    BY DEF IInv
  <2>2. \A r \in Session : patches[r] = {} => patches'[r] = {}
    BY <1>0, <1>9, <2>1, DecidingDoes, ResolveSession DEF Declines, Makes, Takes, Disposes, Reads, Drops
  <2>3. UNCHANGED <<importVars, statement>>
    BY <1>0, <1>9, <2>1, DecidingDoes
  <2> QED
    BY <1>8, <2>2, <2>3
<1> QED
  BY <1>1, <1>2, <1>4, <1>5, <1>6, <1>7, <1>8, <1>9 DEF Next, Importing, CompleteCount, CompleteUpdate, EditRead,
       EditWrite

LEMMA StepPatches == IInv /\ [Next]_vars => PatchesAreSound'
<1> SUFFICES ASSUME IInv, [Next]_vars PROVE PatchesAreSound'
  OBVIOUS
<1>0. TypeOK /\ PatchesAreSound
  BY DEF IInv
<1>1. ASSUME NEW i \in Import, NEW s \in Session, MatchSave(i, s) PROVE PatchesAreSound'
  <2>1. PICK L \in SUBSET TxnId : patches'[s] \in Proposals(s, L)
    BY <1>1, MatchSaves
  <2>2. \A p \in patches'[s] :
           /\ p.kind = "create_transaction" => p.line \in Line /\ p.txn = <<s, p.line>>
           /\ p.kind = "assign_statement" => p.line \in Line /\ p.txn \in TxnId
           /\ p.status = "proposed" => p.decision = "pending"
           /\ \A q \in patches'[s] : p.line = q.line /\ (p.line \in Line \/ p.txn = q.txn) => p = q
    BY <2>1, ProposalsSound
  <2>3. \A r \in Session \ {s} : patches'[r] = patches[r]
    BY <1>1, MatchSaves
  <2>4. ASSUME NEW r \in Session, NEW p \in patches'[r]
        PROVE  /\ p.kind = "create_transaction" => p.line \in Line /\ p.txn = <<r, p.line>>
               /\ p.kind = "assign_statement" => p.line \in Line /\ p.txn \in TxnId
               /\ p.status = "proposed" => p.decision = "pending"
               /\ \A q \in patches'[r] : p.line = q.line /\ (p.line \in Line \/ p.txn = q.txn) => p = q
    <3>1. CASE r = s
      BY <2>2, <3>1
    <3>2. CASE r # s
      BY <1>0, <2>3, <3>2 DEF PatchesAreSound
    <3> QED
      BY <3>1, <3>2
  <2> QED
    BY <2>4 DEF PatchesAreSound
<1>2. ASSUME NEW s \in Session, Deciding(s) PROVE PatchesAreSound'
  <2>1. ASSUME NEW p \in patches[s], NEW n, Resolve(s, p, n) PROVE PatchesAreSound'
    BY <1>0, <2>1, ResolveSound
  <2>2. CASE UNCHANGED patches
    BY <1>0, <2>2 DEF PatchesAreSound
  <2> QED
    BY <1>0, <1>2, <2>1, <2>2, DecidingDoes DEF Declines, Makes, Takes, Disposes, Reads, Drops
<1>3. CASE UNCHANGED patches
  BY <1>0, <1>3 DEF PatchesAreSound
<1> QED
  BY <1>1, <1>2, <1>3 DEF Next, Importing, ImportRead, ImportInsert, MarkFailed, MatchFails, ImportEnds,
       CompleteCount, CompleteUpdate, EditRead, EditWrite, vars, auditVars

\* A row that is made stays made, and what is written is made.
LEMMA DecidingWrites ==
    ASSUME IInv, NEW s \in Session, NEW p \in patches[s], NEW n, Makes(s, p, n) \/ Takes(s, p, n)
    PROVE  /\ p.line \in Line /\ p.txn \in TxnId
           /\ ledger'[p.txn].version # 0
           /\ \A u \in TxnId \ {p.txn} : ledger'[u] = ledger[u]
           /\ Makes(s, p, n) => ~Made(p.txn) /\ p.txn = <<s, p.line>>
           /\ Takes(s, p, n) => /\ Made(p.txn) /\ ledger'[p.txn].version = ledger[p.txn].version + 1
                                /\ ledger'[p.txn].of = s
<1>0. TypeOK /\ PatchesAreSound
  BY DEF IInv
<1>1. CASE Makes(s, p, n)
  <2>1. p.kind = "create_transaction" /\ p.status = "proposed"
    BY <1>1 DEF Makes
  <2>2. p.line \in Line /\ p.txn = <<s, p.line>> /\ p.txn \in TxnId
    BY <1>0, <2>1, MadeTxn
  <2>3. ~Made(p.txn)
    BY <2>1 DEF IInv, ProposedIsNotMade
  <2>4. ledger'[p.txn].version # 0 /\ \A u \in TxnId \ {p.txn} : ledger'[u] = ledger[u]
    <3> DEFINE t == p.txn
    <3>0. t \in TxnId
      BY <2>2
    <3>3. \/ ledger' = [ledger EXCEPT ![t] = [version |-> 2, live |-> TRUE, of |-> s]]
          \/ ledger' = [ledger EXCEPT ![t] = [version |-> 1, live |-> TRUE, of |-> None]]
      BY <1>1 DEF Makes
    <3> HIDE DEF t
    <3>1. ASSUME ledger' = [ledger EXCEPT ![t] = [version |-> 2, live |-> TRUE, of |-> s]]
          PROVE  ledger'[t].version = 2 /\ \A u \in TxnId \ {t} : ledger'[u] = ledger[u]
      BY <1>0, <3>0, <3>1, MadeRow
    <3>2. ASSUME ledger' = [ledger EXCEPT ![t] = [version |-> 1, live |-> TRUE, of |-> None]]
          PROVE  ledger'[t].version = 1 /\ \A u \in TxnId \ {t} : ledger'[u] = ledger[u]
      BY <1>0, <3>0, <3>2, MadeRow
    <3> QED
      BY <3>1, <3>2, <3>3 DEF t
  <2>5. ~Takes(s, p, n)
    BY <2>1 DEF IInv, AssigningIsSound, Takes
  <2> QED
    BY <2>2, <2>3, <2>4, <2>5
<1>2. CASE Takes(s, p, n)
  <2>1. p.kind = "assign_statement" /\ Made(p.txn)
    BY <1>2 DEF IInv, AssigningIsSound, TouchedIsMade, Takes
  <2>2. p.line \in Line /\ p.txn \in TxnId
    BY <1>0, <2>1 DEF PatchesAreSound
  <2>3. ledger' = [ledger EXCEPT ![p.txn].of = s, ![p.txn].version = @ + 1]
    BY <1>2 DEF Takes
  <2>4. ledger'[p.txn].version = ledger[p.txn].version + 1 /\ ledger'[p.txn].of = s
          /\ \A u \in TxnId \ {p.txn} : ledger'[u] = ledger[u]
    BY <1>0, <2>2, <2>3, TakenRow
  <2>5. ledger[p.txn].version \in Nat
    BY <1>0, <2>2 DEF TypeOK, Row
  <2>6. ~Makes(s, p, n)
    BY <2>1 DEF Makes
  <2> QED
    BY <2>1, <2>2, <2>4, <2>5, <2>6
<1> QED
  BY <1>1, <1>2

LEMMA EditWrites ==
    ASSUME IInv, NEW e \in edits, EditWrite(e)
    PROVE  /\ e.txn \in TxnId /\ Made(e.txn) /\ ledger'[e.txn].version # 0
           /\ ledger'[e.txn].of = ledger[e.txn].of
           /\ e.txn \notin rewound' => ledger'[e.txn].version = ledger[e.txn].version + 1
           /\ \A u \in TxnId \ {e.txn} : ledger'[u] = ledger[u]
           /\ rewound \subseteq rewound'
<1>1. e.txn \in TxnId /\ \A u \in TxnId \ {e.txn} : ledger'[u] = ledger[u]
  BY EditedRow DEF IInv, EditWrite
<1>2. ledger'[e.txn].version = e.version + 1 /\ ledger'[e.txn].of = ledger[e.txn].of
  BY EditedRow DEF IInv, EditWrite
<1>3. e.version \in Nat /\ Made(e.txn)
  BY DEF IInv, TypeOK, TouchedIsMade
<1>4. rewound' = IF ledger[e.txn].version # e.version THEN rewound \cup {e.txn} ELSE rewound
  BY DEF EditWrite
<1> QED
  BY <1>1, <1>2, <1>3, <1>4

LEMMA LedgerStays ==
    ASSUME IInv, [Next]_vars
    PROVE  /\ \A t \in TxnId : ledger'[t] = ledger[t] \/ ledger'[t].version # 0
           /\ ledger' = ledger \/ (\E s \in Session : Deciding(s)) \/ (\E e \in edits : EditWrite(e))
<1>1. ledger' = ledger \/ (\E s \in Session : Deciding(s)) \/ (\E e \in edits : EditWrite(e))
  BY DEF Next, Importing, ImportRead, ImportInsert, MatchSave, MarkFailed, MatchFails, ImportEnds,
         CompleteCount, CompleteUpdate, EditRead, vars
<1>2. ASSUME NEW s \in Session, Deciding(s) PROVE \A t \in TxnId : ledger'[t] = ledger[t] \/ ledger'[t].version # 0
  <2>1. ASSUME NEW p \in patches[s], NEW n, Makes(s, p, n) \/ Takes(s, p, n)
        PROVE  \A t \in TxnId : ledger'[t] = ledger[t] \/ ledger'[t].version # 0
    BY <2>1, DecidingWrites
  <2> QED
    BY <1>2, <2>1, DecidingDoes DEF IInv, Declines, Reads, Drops
<1>3. ASSUME NEW e \in edits, EditWrite(e) PROVE \A t \in TxnId : ledger'[t] = ledger[t] \/ ledger'[t].version # 0
  BY <1>3, EditWrites
<1> QED
  BY <1>1, <1>2, <1>3

LEMMA StepTouched == IInv /\ [Next]_vars => TouchedIsMade'
<1> SUFFICES ASSUME IInv, [Next]_vars PROVE TouchedIsMade'
  OBVIOUS
<1>0. TypeOK /\ PatchesAreSound /\ TouchedIsMade
  BY DEF IInv
<1>1. \A t \in TxnId : ledger'[t] = ledger[t] \/ ledger'[t].version # 0
  BY LedgerStays
<1>2. \A t \in TxnId : ledger'[t].live => Made(t)'
  BY <1>0, <1>1 DEF TouchedIsMade, Made
<1>3. \A t \in TxnId : Made(t) => Made(t)'
  BY <1>1 DEF Made
<1>4. ASSUME \A s \in Session, l \in Line :
                matched'[s][l] # matched[s][l] => ledger'[matched'[s][l]].version # 0
      PROVE  \A s \in Session, l \in Line : matched'[s][l] # None => ledger'[matched'[s][l]].version # 0
  <2>1. \A s \in Session, l \in Line : matched[s][l] \in TxnId \cup {None}
    BY <1>0 DEF TypeOK
  <2> QED
    BY <1>0, <1>3, <1>4, <2>1 DEF TouchedIsMade, Made
<1>5. \A s \in Session, l \in Line : matched'[s][l] # None => ledger'[matched'[s][l]].version # 0
  <2>1. CASE UNCHANGED matched
    BY <1>4, <2>1
  <2>2. ASSUME NEW s \in Session, NEW p \in patches[s], NEW n, Makes(s, p, n) \/ Takes(s, p, n)
        PROVE  \A r \in Session, l \in Line :
                 matched'[r][l] # matched[r][l] => ledger'[matched'[r][l]].version # 0
    <3>1. p.line \in Line /\ p.txn \in TxnId /\ ledger'[p.txn].version # 0
      BY <2>2, DecidingWrites
    <3>2. matched' = matched \/ matched' = [matched EXCEPT ![s][p.line] = p.txn]
      BY <2>2 DEF Makes, Takes
    <3>3. \A r \in Session, l \in Line : matched'[r][l] = matched[r][l] \/ matched'[r][l] = p.txn
      BY <1>0, <3>1, <3>2, MatchedLine
    <3> QED
      BY <3>1, <3>3
  <2>3. ASSUME NEW s \in Session, Deciding(s)
        PROVE  UNCHANGED matched \/ \E p \in patches[s] : \E n : Makes(s, p, n) \/ Takes(s, p, n)
    BY <1>0, <2>3, DecidingDoes DEF Declines, Reads, Drops
  <2>4. UNCHANGED matched \/ \E s \in Session : Deciding(s)
    BY DEF Next, Importing, ImportRead, ImportInsert, MatchSave, MarkFailed, MatchFails, ImportEnds,
           CompleteCount, CompleteUpdate, EditRead, EditWrite, vars, auditVars
  <2>5. CASE \E s \in Session : \E p \in patches[s] : \E n : Makes(s, p, n) \/ Takes(s, p, n)
    BY <1>4, <2>2, <2>5
  <2> QED
    BY <2>1, <2>3, <2>4, <2>5
<1>6. \A s \in Session : assigning'[s] # None => ledger'[assigning'[s].patch.txn].version # 0
  <2>1. ASSUME NEW s \in Session, assigning[s] # None PROVE ledger'[assigning[s].patch.txn].version # 0
    <3>1. assigning[s].patch.txn \in TxnId
      BY <1>0, <2>1 DEF TypeOK, IInv, AssigningIsSound, PatchesAreSound
    <3> QED
      BY <1>0, <1>3, <2>1, <3>1 DEF TouchedIsMade, Made
  <2>2. ASSUME NEW s \in Session, Deciding(s), NEW r \in Session, assigning'[r] # None
        PROVE  \/ assigning'[r] = assigning[r]
               \/ \E p \in patches[s] : Reads(s, p) /\ assigning'[r].patch = p
    BY <1>0, <2>2, DecidingHolds
  <2>3. ASSUME NEW s \in Session, NEW p \in patches[s], Reads(s, p) PROVE ledger'[p.txn].version # 0
    <3>1. p.txn \in TxnId /\ ledger[p.txn].live
      BY <1>0, <2>3 DEF Reads, Accepts, Assignable, PatchesAreSound
    <3> QED
      BY <1>0, <1>3, <3>1 DEF TouchedIsMade, Made
  <2>4. UNCHANGED assigning \/ \E s \in Session : Deciding(s)
    BY DEF Next, Importing, ImportRead, ImportInsert, MatchSave, MarkFailed, MatchFails, ImportEnds,
           CompleteCount, CompleteUpdate, EditRead, EditWrite, vars
  <2> QED
    BY <2>1, <2>2, <2>3, <2>4
<1>7. \A e \in edits' : Made(e.txn)'
  <2>1. \A e \in edits : Made(e.txn)'
    BY <1>0, <1>3 DEF TypeOK, TouchedIsMade
  <2>2. ASSUME NEW t \in TxnId, NEW d \in BOOLEAN, EditRead(t, d) PROVE \A e \in edits' : e \in edits \/ e.txn = t
    BY <2>2 DEF EditRead
  <2>3. ASSUME NEW t \in TxnId, NEW d \in BOOLEAN, EditRead(t, d) PROVE Made(t)'
    BY <1>0, <1>3, <2>3 DEF EditRead, TouchedIsMade
  <2>4. edits' \subseteq edits \/ \E t \in TxnId, d \in BOOLEAN : EditRead(t, d)
    <3>1. ASSUME NEW s \in Session, Deciding(s) PROVE edits' = edits
      BY <1>0, <3>1, DecidingDoes DEF editVars
    <3> QED
      BY <3>1 DEF Next, Importing, ImportRead, ImportInsert, MatchSave, MarkFailed, MatchFails, ImportEnds,
           CompleteCount, CompleteUpdate, EditWrite, vars, editVars
  <2> QED
    BY <2>1, <2>2, <2>3, <2>4
<1> QED
  BY <1>2, <1>5, <1>6, <1>7 DEF TouchedIsMade, Made

LEMMA StepProposed == IInv /\ [Next]_vars => ProposedIsNotMade'
<1> SUFFICES ASSUME IInv, [Next]_vars PROVE ProposedIsNotMade'
  OBVIOUS
<1>0. TypeOK /\ PatchesAreSound /\ ProposedIsNotMade
  BY DEF IInv
<1>1. ASSUME NEW i \in Import, NEW s \in Session, MatchSave(i, s) PROVE ProposedIsNotMade'
  <2>1. UNCHANGED ledger /\ \A r \in Session \ {s} : patches'[r] = patches[r]
    BY <1>1, MatchSaves DEF MatchSave
  <2>2. patches[s] = {}
    BY <1>1, MatchSaves
  <2>3. \A l \in Line : ~Made(<<s, l>>)
    BY <1>0, <2>2 DEF ProposedIsNotMade
  <2>4. PICK L \in SUBSET TxnId : patches'[s] \in Proposals(s, L)
    BY <1>1, MatchSaves
  <2>5. \A p \in patches'[s] : p.kind = "create_transaction" => p.line \in Line /\ p.txn = <<s, p.line>>
    BY <2>4, ProposalsSound
  <2>6. ASSUME NEW r \in Session
        PROVE  /\ \A p \in patches'[r] : p.kind = "create_transaction" /\ p.status = "proposed"
                                           => ledger'[p.txn].version = 0
               /\ patches'[r] = {} => \A l \in Line : ledger'[<<r, l>>].version = 0
    <3>1. CASE r = s
      BY <2>1, <2>3, <2>5, <3>1 DEF Made
    <3>2. CASE r # s
      BY <1>0, <2>1, <3>2 DEF ProposedIsNotMade, Made
    <3> QED
      BY <3>1, <3>2
  <2> QED
    BY <2>6 DEF ProposedIsNotMade, Made
<1>2. ASSUME NEW s \in Session, Deciding(s), UNCHANGED <<patches, ledger>> PROVE ProposedIsNotMade'
  BY <1>0, <1>2 DEF ProposedIsNotMade, Made
<1>3. ASSUME NEW s \in Session, NEW p \in patches[s], NEW n \in Patch, Disposes(s, p, n),
             \A t \in TxnId : ledger'[t] # ledger[t] => t = p.txn /\ (Made(p.txn) \/ p.txn = <<s, p.line>>)
      PROVE  ProposedIsNotMade'
  <2>1. n.status # "proposed" /\ patches'[s] = (patches[s] \ {p}) \cup {n}
          /\ \A r \in Session \ {s} : patches'[r] = patches[r]
    BY <1>0, <1>3, ResolveSession, ZenonT(60) DEF Disposes, Resolve
  <2>2. ASSUME NEW r \in Session, NEW k \in patches'[r], k.kind = "create_transaction", k.status = "proposed"
        PROVE  ledger'[k.txn].version = 0
    <3>1. k \in patches[r] /\ (r = s => k # p)
      BY <2>1, <2>2
    <3>2. k.line \in Line /\ k.txn = <<r, k.line>> /\ k.txn \in TxnId /\ ~Made(k.txn)
      BY <1>0, <2>2, <3>1, MadeTxn DEF ProposedIsNotMade
    <3>3. k.txn # <<s, p.line>>
      BY <1>0, <3>1, <3>2 DEF PatchesAreSound
    <3> QED
      BY <1>3, <3>2, <3>3 DEF Made
  <2>3. ASSUME NEW r \in Session, patches'[r] = {}, NEW l \in Line
        PROVE  ledger'[<<r, l>>].version = 0
    <3>1. r # s /\ patches[r] = {} /\ <<r, l>> \in TxnId
      BY <2>1, <2>3 DEF TxnId
    <3>2. ~Made(<<r, l>>) /\ <<r, l>> # <<s, p.line>>
      BY <1>0, <3>1 DEF ProposedIsNotMade
    <3> QED
      BY <1>3, <3>1, <3>2 DEF Made
  <2> QED
    BY <2>2, <2>3 DEF ProposedIsNotMade, Made
<1>4. ASSUME NEW s \in Session, Deciding(s) PROVE ProposedIsNotMade'
  <2>1. ASSUME NEW p \in patches[s], NEW n \in Patch, Declines(s, p, n) PROVE ProposedIsNotMade'
    BY <1>3, <2>1 DEF Declines
  <2>2. ASSUME NEW p \in patches[s], NEW n \in Patch, Makes(s, p, n) \/ Takes(s, p, n) PROVE ProposedIsNotMade'
    <3>1. \A t \in TxnId : ledger'[t] # ledger[t] => t = p.txn /\ (Made(p.txn) \/ p.txn = <<s, p.line>>)
      BY <2>2, DecidingWrites
    <3> QED
      BY <1>3, <2>2, <3>1 DEF Makes, Takes
  <2> QED
    BY <1>0, <1>2, <1>4, <2>1, <2>2, DecidingDoes DEF Reads, Drops
<1>5. ASSUME NEW e \in edits, EditWrite(e) PROVE ProposedIsNotMade'
  <2>1. \A t \in TxnId : ~Made(t) => ledger'[t].version = 0
    BY <1>5, EditWrites DEF Made
  <2>2. UNCHANGED patches /\ \A s \in Session, l \in Line : <<s, l>> \in TxnId
    BY <1>5 DEF EditWrite, auditVars, TxnId
  <2>3. \A s \in Session : \A p \in patches[s] : p.kind = "create_transaction" => p.txn \in TxnId
    BY <1>0, MadeTxn
  <2> QED
    BY <1>0, <2>1, <2>2, <2>3 DEF ProposedIsNotMade, Made
<1>6. CASE UNCHANGED <<patches, ledger>>
  BY <1>0, <1>6 DEF ProposedIsNotMade, Made
<1> QED
  BY <1>1, <1>4, <1>5, <1>6 DEF Next, Importing, ImportRead, ImportInsert, MarkFailed, MatchFails, ImportEnds,
       CompleteCount, CompleteUpdate, EditRead, vars, auditVars

LEMMA AssignedTypes ==
    ASSUME IInv, NEW s \in Session, assigning[s] # None
    PROVE  /\ assigning[s].patch \in patches[s] /\ assigning[s].patch.txn \in TxnId
           /\ assigning[s].version \in Nat /\ Made(assigning[s].patch.txn)
<1>1. assigning[s].patch \in patches[s] /\ assigning[s] \in Assignment
  BY DEF IInv, TypeOK
<1>2. assigning[s].patch.kind = "assign_statement" /\ Made(assigning[s].patch.txn)
  BY SMTT(30) DEF IInv, AssigningIsSound, TouchedIsMade
<1> QED
  BY <1>1, <1>2 DEF IInv, PatchesAreSound, Assignment

LEMMA StepAssigning == IInv /\ [Next]_vars => AssigningIsSound'
<1> SUFFICES ASSUME IInv, [Next]_vars, NEW r \in Session, assigning'[r] # None
             PROVE  LET p == assigning'[r].patch
                        v == assigning'[r].version
                    IN  /\ statement'[r] # "superseded"
                        /\ p.kind = "assign_statement"
                        /\ p.txn \notin rewound' =>
                             /\ v <= ledger'[p.txn].version
                             /\ ledger'[p.txn].version = v => ledger'[p.txn].of \in {None, r}
  BY DEF AssigningIsSound
<1> DEFINE p == assigning'[r].patch
           v == assigning'[r].version
<1>0. TypeOK /\ PatchesAreSound /\ AssigningIsSound
  BY DEF IInv
<1>1. ASSUME assigning'[r] = assigning[r]
      PROVE  /\ statement[r] # "superseded" /\ p.kind = "assign_statement" /\ p.txn \in TxnId /\ v \in Nat
             /\ Made(p.txn) /\ ledger[p.txn].version \in Nat
             /\ p.txn \notin rewound =>
                  /\ v <= ledger[p.txn].version
                  /\ ledger[p.txn].version = v => ledger[p.txn].of \in {None, r}
  <2>1. assigning[r] # None
    BY <1>1
  <2>2. p.txn \in TxnId /\ v \in Nat /\ Made(p.txn)
    BY <1>1, <2>1, AssignedTypes
  <2>3. ledger[p.txn].version \in Nat
    BY <1>0, <2>2 DEF TypeOK, Row
  <2> QED
    BY <1>0, <1>1, <2>1, <2>2, <2>3 DEF AssigningIsSound
<1>2. ASSUME NEW i \in Import, ImportInsert(i), assigning' = assigning, UNCHANGED <<ledger, rewound>>
      PROVE  /\ statement'[r] # "superseded"
             /\ p.kind = "assign_statement"
             /\ p.txn \notin rewound' =>
                  /\ v <= ledger'[p.txn].version
                  /\ ledger'[p.txn].version = v => ledger'[p.txn].of \in {None, r}
  <2>1. r \notin prior[i]
    BY <1>2 DEF ImportInsert, Locked
  <2>2. statement'[r] \in {"closed", statement[r]}
    BY <1>2, <2>1 DEF ImportInsert
  <2> QED
    BY <1>1, <1>2, <2>2
<1>3. ASSUME NEW s \in Session, Deciding(s)
      PROVE  /\ statement'[r] # "superseded"
             /\ p.kind = "assign_statement"
             /\ p.txn \notin rewound' =>
                  /\ v <= ledger'[p.txn].version
                  /\ ledger'[p.txn].version = v => ledger'[p.txn].of \in {None, r}
  <2>1. UNCHANGED <<statement, rewound>>
    BY <1>0, <1>3, DecidingDoes DEF editVars
  <2>2. CASE assigning'[r] = assigning[r] /\ r # s
    <3>1. ASSUME NEW q \in patches[s], NEW n, Makes(s, q, n)
          PROVE  ledger'[p.txn] = ledger[p.txn]
      <4>1. ~Made(q.txn) /\ \A u \in TxnId \ {q.txn} : ledger'[u] = ledger[u]
        BY <3>1, DecidingWrites
      <4> QED
        BY <1>1, <2>2, <4>1
    <3>2. ASSUME NEW q \in patches[s], NEW n, Takes(s, q, n)
          PROVE  ledger'[p.txn] = ledger[p.txn] \/ ledger'[p.txn].version = ledger[p.txn].version + 1
      <4>1. ledger'[q.txn].version = ledger[q.txn].version + 1 /\ \A u \in TxnId \ {q.txn} : ledger'[u] = ledger[u]
        BY <3>2, DecidingWrites
      <4> QED
        BY <1>1, <2>2, <4>1
    <3>3. ledger'[p.txn] = ledger[p.txn] \/ ledger'[p.txn].version = ledger[p.txn].version + 1
      BY <1>0, <1>3, <3>1, <3>2, DecidingDoes DEF Declines, Reads, Drops
    <3> QED
      BY <1>1, <2>1, <2>2, <3>3
  <2>3. ASSUME r = s, NEW q \in patches[s], Reads(s, q), p = q, v = ledger[q.txn].version
        PROVE  /\ statement[r] # "superseded" /\ p.kind = "assign_statement" /\ ledger' = ledger
               /\ v <= ledger[p.txn].version /\ ledger[p.txn].of \in {None, r}
    <3>1. q.kind = "assign_statement" /\ Assignable(s, q) /\ ledger' = ledger
      BY <2>3 DEF Reads, Accepts
    <3>2. q.txn \in TxnId
      BY <1>0, <3>1 DEF PatchesAreSound
    <3>3. ledger[q.txn].version \in Nat
      BY <1>0, <3>2 DEF TypeOK, Row
    <3> QED
      BY <2>3, <3>1, <3>3 DEF Assignable
  <2> QED
    BY <1>0, <1>3, <2>1, <2>2, <2>3, DecidingHolds
<1>4. ASSUME NEW e \in edits, EditWrite(e)
      PROVE  /\ statement'[r] # "superseded"
             /\ p.kind = "assign_statement"
             /\ p.txn \notin rewound' =>
                  /\ v <= ledger'[p.txn].version
                  /\ ledger'[p.txn].version = v => ledger'[p.txn].of \in {None, r}
  <2>1. UNCHANGED <<statement, assigning>>
    BY <1>4 DEF EditWrite, auditVars
  <2>2. p.txn \notin rewound' => \/ ledger'[p.txn] = ledger[p.txn]
                                 \/ ledger'[p.txn].version = ledger[p.txn].version + 1
    BY <1>1, <1>4, <2>1, EditWrites
  <2>3. rewound \subseteq rewound'
    BY <1>4, EditWrites
  <2> QED
    BY <1>1, <2>1, <2>2, <2>3
<1>5. CASE UNCHANGED <<statement, assigning, ledger, rewound>>
  BY <1>1, <1>5
<1> QED
  BY <1>2, <1>3, <1>4, <1>5 DEF Next, Importing, ImportRead, ImportInsert, MatchSave, MarkFailed, MatchFails,
       ImportEnds, CompleteCount, CompleteUpdate, EditRead, vars, auditVars, editVars

LEMMA StepCounted == IInv /\ [Next]_vars => CountedIsSettled'
<1> SUFFICES ASSUME IInv, [Next]_vars PROVE CountedIsSettled'
  OBVIOUS
<1>0. TypeOK /\ PatchesAreSound /\ CountedIsSettled
  BY DEF IInv
<1>1. ASSUME UNCHANGED <<patches, counted, early>>,
             \A r \in Session : session'[r] = session[r] \/ session'[r] # "completed"
      PROVE  CountedIsSettled'
  BY <1>0, <1>1 DEF CountedIsSettled, Settled
<1>2. ASSUME NEW i \in Import, ImportInsert(i) PROVE CountedIsSettled'
  BY <1>1, <1>2 DEF ImportInsert
<1>3. ASSUME NEW i \in Import, NEW s \in Session, MatchSave(i, s) PROVE CountedIsSettled'
  <2>1. patches[s] = {} /\ \A r \in Session \ {s} : patches'[r] = patches[r]
    BY <1>3, MatchSaves
  <2>2. session'[s] = "reviewing" /\ (\A r \in Session \ {s} : session'[r] = session[r])
          /\ UNCHANGED <<counted, early>>
    BY <1>0, <1>3 DEF MatchSave, TypeOK
  <2>3. \A c \in counted : c.session = s => c.saved # TRUE
    BY <1>0, <2>1 DEF CountedIsSettled
  <2>4. \A c \in counted : c.saved \in BOOLEAN
    BY <1>0 DEF TypeOK
  <2>5. ASSUME NEW r \in Session,
               (session'[r] = "completed" /\ r \notin early') \/ (\E c \in counted' : c.session = r /\ c.saved)
        PROVE  patches'[r] # {} /\ \A p \in patches'[r] : p.status # "proposed" /\ p.decision # "pending"
    <3>1. r # s
      BY <2>2, <2>3, <2>4, <2>5
    <3> QED
      BY <1>0, <2>1, <2>2, <2>5, <3>1 DEF CountedIsSettled, Settled
  <2> QED
    BY <2>5 DEF CountedIsSettled, Settled
<1>4. ASSUME NEW i \in Import, NEW s \in Session, MarkFailed(i, s) PROVE CountedIsSettled'
  BY <1>0, <1>1, <1>4 DEF MarkFailed, TypeOK
<1>5. ASSUME NEW s \in Session, Deciding(s) PROVE CountedIsSettled'
  <2>1. UNCHANGED <<session, counted, early>>
    BY <1>0, <1>5, DecidingDoes
  <2>2. ASSUME NEW p \in patches[s], NEW n \in Patch, Disposes(s, p, n) PROVE CountedIsSettled'
    <3>1. ~Settled(s) /\ \A r \in Session \ {s} : patches'[r] = patches[r]
      BY <1>0, <2>2, ResolveSession DEF Disposes, Settled
    <3> QED
      BY <1>0, <2>1, <3>1 DEF CountedIsSettled, Settled
  <2>3. CASE UNCHANGED patches
    BY <1>1, <2>1, <2>3
  <2> QED
    BY <1>0, <1>5, <2>2, <2>3, DecidingDoes DEF Declines, Makes, Takes, Reads, Drops
<1>6. ASSUME NEW s \in Session, CompleteCount(s) PROVE CountedIsSettled'
  <2> DEFINE saved == patches[s] # {}
  <2>1. saved \in BOOLEAN /\ (saved => patches[s] # {})
    OBVIOUS
  <2>2. counted' = counted \cup {[session |-> s, saved |-> saved]} /\ Settled(s)
          /\ UNCHANGED <<session, patches, early>>
    BY <1>6 DEF CompleteCount, auditVars
  <2> HIDE DEF saved
  <2>3. \A c \in counted' : c \in counted \/ (c.session = s /\ (c.saved => patches[s] # {}))
    BY <2>1, <2>2
  <2> QED
    BY <1>0, <2>2, <2>3 DEF CountedIsSettled, Settled
<1>7. ASSUME NEW c \in counted, CompleteUpdate(c) PROVE CountedIsSettled'
  <2> DEFINE s == c.session
  <2>1. s \in Session /\ c.saved \in BOOLEAN
    BY <1>0 DEF TypeOK
  <2>2. counted' \subseteq counted /\ UNCHANGED patches /\ early \subseteq early'
          /\ (\A r \in Session \ {s} : session'[r] = session[r] /\ (r \in early' => r \in early))
    BY <1>0, <1>7, <2>1 DEF CompleteUpdate, TypeOK
  <2>3. session'[s] = "completed" => session[s] = "completed" \/ c.saved \/ s \in early'
    BY <1>0, <1>7, <2>1 DEF CompleteUpdate, TypeOK
  <2>4. ASSUME NEW r \in Session,
               (session'[r] = "completed" /\ r \notin early') \/ (\E d \in counted' : d.session = r /\ d.saved)
        PROVE  Settled(r) /\ patches[r] # {}
    <3>1. CASE \E d \in counted' : d.session = r /\ d.saved
      BY <1>0, <2>2, <3>1 DEF CountedIsSettled
    <3>2. CASE session'[r] = "completed" /\ r \notin early'
      BY <1>0, <2>2, <2>3, <3>2 DEF CountedIsSettled
    <3> QED
      BY <2>4, <3>1, <3>2
  <2> QED
    BY <2>2, <2>4 DEF CountedIsSettled, Settled
<1>8. CASE UNCHANGED <<patches, counted, early, session>>
  BY <1>1, <1>8
<1> QED
  BY <1>2, <1>3, <1>4, <1>5, <1>6, <1>7, <1>8 DEF Next, Importing, ImportRead, MatchFails,
       ImportEnds, EditRead, EditWrite, vars, auditVars

\* The patches applied to a line after patch p has become n.
LEMMA AppliedAfter ==
    ASSUME TypeOK, PatchesAreSound, NEW s \in Session, NEW p \in patches[s], NEW n \in Patch, Disposes(s, p, n),
           NEW r \in Session, NEW l \in Line
    PROVE  /\ AppliedTo(r, l)' = IF r = s /\ l = p.line /\ n.status = "applied" /\ p.kind # "acknowledge_unresolved"
                                 THEN {n} ELSE AppliedTo(r, l)
           /\ r = s /\ l = p.line => AppliedTo(r, l) = {}
<1>1. patches'[s] = (patches[s] \ {p}) \cup {n} /\ \A q \in Session \ {s} : patches'[q] = patches[q]
  BY ResolveSession DEF Disposes
<1>2. n.line = p.line /\ n.kind = p.kind /\ p.status # "applied"
  BY DEF Disposes, Resolve
<1>3. ASSUME r = s, l = p.line PROVE \A q \in patches[s] : q.line = l => q = p
  BY <1>3 DEF PatchesAreSound
<1>4. CASE r # s
  BY <1>1, <1>4 DEF AppliedTo
<1>5. CASE r = s /\ l # p.line
  BY <1>1, <1>2, <1>5 DEF AppliedTo
<1>6. CASE r = s /\ l = p.line
  <2>1. AppliedTo(s, l) = {}
    BY <1>2, <1>3, <1>6 DEF AppliedTo
  <2>2. \A q \in patches'[s] : q.line = l => q = n
    BY <1>1, <1>3, <1>6
  <2>3. n \in patches'[s]
    BY <1>1
  <2> QED
    BY <1>2, <1>6, <2>1, <2>2, <2>3 DEF AppliedTo
<1> QED
  BY <1>4, <1>5, <1>6

LEMMA StepMatched == IInv /\ [Next]_vars => MatchedOnce'
<1> SUFFICES ASSUME IInv, [Next]_vars PROVE MatchedOnce'
  OBVIOUS
<1>0. TypeOK /\ PatchesAreSound /\ MatchedOnce /\ TouchedIsMade
  BY DEF IInv
<1>1. \A r \in Session, l \in Line : matched[r][l] # None => matched[r][l] \in TxnId /\ Made(matched[r][l])
  BY <1>0 DEF TypeOK, TouchedIsMade
<1>2. ASSUME UNCHANGED matched,
             \A r \in Session, l \in Line : AppliedTo(r, l)' = AppliedTo(r, l),
             \A r \in Session, l \in Line : matched[r][l] # None => ledger'[matched[r][l]].of = ledger[matched[r][l]].of,
             rewound \subseteq rewound'
      PROVE  MatchedOnce'
  BY <1>0, <1>2 DEF MatchedOnce
<1>3. ASSUME NEW i \in Import, NEW s \in Session, MatchSave(i, s) PROVE MatchedOnce'
  <2>1. patches[s] = {} /\ (\A r \in Session \ {s} : patches'[r] = patches[r])
          /\ \A p \in patches'[s] : p.status = "proposed"
    BY <1>3, MatchSaves
  <2>2. UNCHANGED <<matched, ledger, rewound>>
    BY <1>3 DEF MatchSave, editVars
  <2>3. \A r \in Session, l \in Line : AppliedTo(r, l)' = AppliedTo(r, l)
    BY <2>1 DEF AppliedTo
  <2> QED
    BY <1>2, <2>2, <2>3
<1>4. ASSUME NEW s \in Session, Deciding(s), UNCHANGED <<patches, ledger, matched>> PROVE MatchedOnce'
  <2>1. UNCHANGED rewound
    BY <1>0, <1>4, DecidingDoes DEF editVars
  <2> QED
    BY <1>2, <1>4, <2>1 DEF AppliedTo
<1>5. ASSUME NEW s \in Session, Deciding(s), NEW p \in patches[s], NEW n \in Patch, Declines(s, p, n) PROVE MatchedOnce'
  <2>1. UNCHANGED <<rewound, matched, ledger>>
    BY <1>0, <1>5, DecidingDoes DEF editVars, Declines
  <2>2. \A r \in Session, l \in Line : AppliedTo(r, l)' = AppliedTo(r, l)
    BY <1>0, <1>5, AppliedAfter DEF Declines
  <2> QED
    BY <1>2, <2>1, <2>2
<1>6. ASSUME NEW s \in Session, Deciding(s), NEW p \in patches[s], NEW n \in Patch,
             Makes(s, p, n) \/ Takes(s, p, n), n.status = "applied",
             matched' = [matched EXCEPT ![s][p.line] = p.txn], ledger'[p.txn].of = s,
             \A r \in Session, l \in Line : matched[r][l] = p.txn /\ p.txn \notin rewound => r = s
      PROVE  MatchedOnce'
  <2>1. p.line \in Line /\ p.txn \in TxnId /\ \A u \in TxnId \ {p.txn} : ledger'[u] = ledger[u]
    BY <1>6, DecidingWrites
  <2>2. p.kind # "acknowledge_unresolved"
    BY <1>6 DEF Makes, Takes, IInv, AssigningIsSound
  <2>3. n.txn = p.txn /\ Disposes(s, p, n)
    BY <1>6 DEF Makes, Takes, Disposes, Resolve
  <2>4. UNCHANGED rewound
    BY <1>0, <1>6, DecidingDoes DEF editVars
  <2>5. ASSUME NEW r \in Session, NEW l \in Line
        PROVE  /\ {q.txn : q \in AppliedTo(r, l)'} = {matched'[r][l]} \ {None}
               /\ matched'[r][l] # None /\ matched'[r][l] \notin rewound' => ledger'[matched'[r][l]].of = r
    <3>1. CASE r = s /\ l = p.line
      <4>1. matched'[r][l] = p.txn
        BY <1>0, <1>6, <2>1, <3>1, MatchedLine, ZenonT(60)
      <4>2. AppliedTo(r, l)' = {n}
        BY <1>0, <1>6, <2>2, <2>3, <3>1, AppliedAfter
      <4>3. {q.txn : q \in AppliedTo(r, l)'} = {n.txn}
        BY <4>2
      <4> QED
        BY <1>6, <2>1, <2>3, <3>1, <4>1, <4>3, NoneAssumption
    <3>2. CASE ~(r = s /\ l = p.line)
      <4>1. matched'[r][l] = matched[r][l]
        BY <1>0, <1>6, <2>1, <3>2, MatchedLine
      <4>2. AppliedTo(r, l)' = AppliedTo(r, l)
        BY <1>0, <1>6, <2>3, <3>2, AppliedAfter
      <4>3. {q.txn : q \in AppliedTo(r, l)} = {matched[r][l]} \ {None}
        BY <1>0 DEF MatchedOnce
      <4>4. matched[r][l] # None /\ matched[r][l] \notin rewound => ledger'[matched[r][l]].of = r
        BY <1>0, <1>1, <1>6, <2>1 DEF MatchedOnce
      <4> QED
        BY <2>4, <4>1, <4>2, <4>3, <4>4
    <3> QED
      BY <3>1, <3>2
  <2> QED
    BY <2>5 DEF MatchedOnce
<1>7. ASSUME NEW s \in Session, Deciding(s), NEW p \in patches[s], NEW n \in Patch, Makes(s, p, n) PROVE MatchedOnce'
  <2>1. ~Made(p.txn) /\ p.txn \in TxnId /\ \A u \in TxnId \ {p.txn} : ledger'[u] = ledger[u]
    BY <1>7, DecidingWrites
  <2>2. \A r \in Session, l \in Line : matched[r][l] # p.txn
    BY <1>1, <2>1, NoneAssumption
  <2>3. CASE statement[s] # "superseded"
    <3> DEFINE t == p.txn
    <3>1. ledger' = [ledger EXCEPT ![t] = [version |-> 2, live |-> TRUE, of |-> s]] /\ n.status = "applied"
            /\ matched' = [matched EXCEPT ![s][p.line] = p.txn]
      BY <1>7, <2>3 DEF Makes
    <3>2. t \in TxnId
      BY <2>1
    <3> HIDE DEF t
    <3>3. ledger'[t].of = s
      BY <1>0, <3>1, <3>2, MadeRow
    <3> QED
      BY <1>6, <1>7, <2>2, <3>1, <3>3, ZenonT(60) DEF t
  <2>4. CASE statement[s] = "superseded"
    <3>1. n.status = "failed" /\ UNCHANGED matched /\ Disposes(s, p, n)
      BY <1>7, <2>4 DEF Makes
    <3>2. \A r \in Session, l \in Line : AppliedTo(r, l)' = AppliedTo(r, l)
      BY <1>0, <3>1, AppliedAfter
    <3>3. \A r \in Session, l \in Line : matched[r][l] # None => ledger'[matched[r][l]] = ledger[matched[r][l]]
      BY <1>1, <2>1, <2>2
    <3>4. UNCHANGED rewound
      BY <1>0, <1>7, DecidingDoes DEF editVars
    <3> QED
      BY <1>2, <3>1, <3>2, <3>3, <3>4
  <2> QED
    BY <2>3, <2>4
<1>8. ASSUME NEW s \in Session, Deciding(s), NEW p \in patches[s], NEW n \in Patch, Takes(s, p, n) PROVE MatchedOnce'
  <2>1. ledger'[p.txn].of = s /\ p.txn \in TxnId
    BY <1>8, DecidingWrites
  <2>2. p.txn \notin rewound => ledger[p.txn].of \in {None, s}
    BY <1>8 DEF Takes, IInv, AssigningIsSound
  <2>3. ASSUME NEW r \in Session, NEW l \in Line, matched[r][l] = p.txn, p.txn \notin rewound PROVE r = s
    BY <1>0, <2>1, <2>2, <2>3, NoneAssumption DEF MatchedOnce
  <2>4. n.status = "applied" /\ matched' = [matched EXCEPT ![s][p.line] = p.txn]
    BY <1>8 DEF Takes
  <2>5. \A r \in Session, l \in Line : matched[r][l] = p.txn /\ p.txn \notin rewound => r = s
    BY <2>3
  <2> QED
    BY <1>6, <1>8, <2>1, <2>4, <2>5
<1>9. ASSUME NEW s \in Session, Deciding(s) PROVE MatchedOnce'
  BY <1>0, <1>4, <1>5, <1>7, <1>8, <1>9, DecidingDoes DEF Reads, Drops
<1>10. ASSUME NEW e \in edits, EditWrite(e) PROVE MatchedOnce'
  <2>1. UNCHANGED <<matched, patches>>
    BY <1>10 DEF EditWrite, auditVars
  <2>2. rewound \subseteq rewound' /\ \A t \in TxnId : ledger'[t].of = ledger[t].of
    BY <1>10, EditWrites
  <2> QED
    BY <1>1, <1>2, <2>1, <2>2 DEF AppliedTo
<1>11. CASE UNCHANGED <<patches, matched, ledger, rewound>>
  BY <1>2, <1>11 DEF AppliedTo
<1> QED
  BY <1>3, <1>9, <1>10, <1>11 DEF Next, Importing, ImportRead, ImportInsert, MarkFailed, MatchFails,
       ImportEnds, CompleteCount, CompleteUpdate, EditRead, vars, auditVars, editVars

-------------------------------------------------------------------------------
(* The theorems                                                            *)

LEMMA Invariance == Spec => []IInv
<1>1. IInv /\ [Next]_vars => IInv'
  BY StepTypeOK, StepImports, StepPatches, StepTouched, StepProposed, StepAssigning, StepCounted, StepMatched DEF IInv
<1> QED
  BY InitIInv, <1>1, PTL DEF Spec

\* The types, and that a session and its statement begin together and a decision
\* under way is about a patch that is still proposed.
THEOREM TypeCorrect == Spec => []TypeOK
<1>1. IInv => TypeOK
  BY DEF IInv
<1> QED
  BY Invariance, <1>1, PTL

\* A line is matched to the transaction of the patch that was applied to it, and to
\* none without one, and no transaction belongs to two statements (audit.ts,
\* applyAuditPatch), however the decisions of two sessions and the user's edits
\* interleave.
THEOREM MatchedToOne == Spec => []MatchedOnce
<1>1. IInv => MatchedOnce
  BY DEF IInv
<1> QED
  BY Invariance, <1>1, PTL

\* A completed session has nothing left to decide (audit.ts, completeAuditSession),
\* although its patches are counted in one transaction and its row is written in
\* another.
THEOREM CompletedSettled == Spec => []CompletedIsSettled
<1>1. IInv => CompletedIsSettled
  BY DEF IInv, CountedIsSettled, CompletedIsSettled, Settled
<1> QED
  BY Invariance, <1>1, PTL

\* A patch that was decided stays as it was decided.
THEOREM DecidesOnce == Spec => DecidedOnce
<1>1. ASSUME IInv, [Next]_vars, NEW s \in Session, NEW p \in patches[s], p.decision # "pending"
      PROVE  p \in patches'[s]
  <2>0. TypeOK /\ PatchesAreSound
    BY <1>1 DEF IInv
  <2>1. ASSUME NEW i \in Import, NEW r \in Session, MatchSave(i, r) PROVE p \in patches'[s]
    BY <1>1, <2>1, MatchSaves
  <2>2. ASSUME NEW r \in Session, NEW q \in patches[r], NEW n \in Patch, Disposes(r, q, n) PROVE p \in patches'[s]
    BY <1>1, <2>0, <2>2, ResolveSession DEF Disposes
  <2>3. ASSUME NEW r \in Session, Deciding(r) PROVE p \in patches'[s]
    BY <2>0, <2>2, <2>3, DecidingDoes DEF Declines, Makes, Takes, Reads, Drops
  <2> QED
    BY <1>1, <2>1, <2>3 DEF Next, Importing, ImportRead, ImportInsert, MarkFailed, MatchFails, ImportEnds,
         CompleteCount, CompleteUpdate, EditRead, EditWrite, vars, auditVars
<1>2. IInv /\ [Next]_vars => [\A s \in Session : \A p \in patches[s] : p.decision # "pending" => p \in patches'[s]]_vars
  BY <1>1
<1> QED
  BY Invariance, <1>2, PTL DEF Spec, DecidedOnce

\* Nothing is matched to a statement that has been superseded, although the import
\* that supersedes it may come between the check and the write of a decision.
THEOREM SupersededFrozen == Spec => SupersededIsFrozen
<1>1. ASSUME IInv, [Next]_vars, NEW s \in Session, statement[s] = "superseded" PROVE matched'[s] = matched[s]
  <2>0. TypeOK /\ PatchesAreSound
    BY <1>1 DEF IInv
  <2>1. ASSUME NEW r \in Session, NEW p \in patches[r], NEW n \in Patch, Makes(r, p, n) \/ Takes(r, p, n)
        PROVE  matched'[s] = matched[s]
    <3>1. p.line \in Line /\ p.txn \in TxnId
      BY <1>1, <2>1, DecidingWrites
    <3>2. r = s => UNCHANGED matched
      BY <1>1, <2>1 DEF Makes, Takes, IInv, AssigningIsSound
    <3>3. UNCHANGED matched \/ matched' = [matched EXCEPT ![r][p.line] = p.txn]
      BY <2>1 DEF Makes, Takes
    <3> QED
      BY <2>0, <3>1, <3>2, <3>3, MatchedLine
  <2>2. ASSUME NEW r \in Session, Deciding(r) PROVE matched'[s] = matched[s]
    BY <2>0, <2>1, <2>2, DecidingDoes DEF Declines, Reads, Drops
  <2> QED
    BY <1>1, <2>2 DEF Next, Importing, ImportRead, ImportInsert, MatchSave, MarkFailed, MatchFails, ImportEnds,
         CompleteCount, CompleteUpdate, EditRead, EditWrite, vars, auditVars
<1>2. IInv /\ [Next]_vars => [\A s \in Session : statement[s] = "superseded" => matched'[s] = matched[s]]_vars
  BY <1>1
<1> QED
  BY Invariance, <1>2, PTL DEF Spec, SupersededIsFrozen

===============================================================================
