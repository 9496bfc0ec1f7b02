------------------------------ MODULE AuditSession ------------------------------
(***************************************************************************)
(* Auditing a credit card statement against the ledger (packages/database/ *)
(* src/audit.ts, apps/api/src/audit-routes.ts): a statement file is        *)
(* imported, its lines are matched with the ledger, every finding becomes  *)
(* a candidate with one proposed patch, the user decides the patches one   *)
(* by one, and the session is completed.                                   *)
(*                                                                         *)
(* A request runs one database transaction after another, at READ          *)
(* COMMITTED.  A decision locks its patch and its session (SELECT ... FOR  *)
(* UPDATE), so the decisions on one session take turns and whatever else   *)
(* writes the session's row waits for them; the ledger row it is about is  *)
(* read without a lock and written under a condition on its version.       *)
(* Meanwhile the user edits the ledger, through a write path that has no   *)
(* such condition (see MutationService).                                   *)
(*                                                                         *)
(* One import brings a statement and a session for each card it covers     *)
(* (createAuditImport for one card, createGroupedAuditImport for several). *)
(* Which lines match which transactions depends on amounts, dates and      *)
(* names, which are not modelled: every outcome of runMatching is tried.   *)
(***************************************************************************)
EXTENDS Naturals, FiniteSets, Functions

CONSTANTS
    Import,     \* import requests; each runs once
    Bill,       \* a card and a statement date
    Line,       \* the line numbers of a statement
    Txn,        \* transactions the user has entered
    None,
    MaxEdits    \* bound: edits and deletions by the user

ASSUME EditsAssumption == MaxEdits \in Nat

\* A statement and its session, of one import and one bill.
Session == Import \X Bill

\* Transactions: the user's, and one that may be made for each line.
TxnId == Txn \cup (Session \X Line)

\* A candidate and its patch, which are inserted together.  A candidate without
\* a line is a transaction that the statement does not show.
Kind == {"assign_statement", "create_transaction", "acknowledge_unresolved"}
Patch == [line : Line \cup {None}, txn : TxnId \cup {None}, kind : Kind,
          status : {"proposed", "applied", "rejected", "failed"},
          decision : {"pending", "accepted", "rejected"}]

\* A row of transactions; version 0 is no row.
Row == [version : Nat, live : BOOLEAN, of : Session \cup {None}]

\* A decision that has read the row it is about.
Assignment == [patch : Patch, version : Nat]

\* NULL is no row, and a transaction that is made for a line has a new id.
ASSUME NoneAssumption ==
    None \notin Line /\ None \notin TxnId /\ None \notin Session /\ None \notin Assignment
ASSUME TxnAssumption == Txn \cap (Session \X Line) = {}

VARIABLES
    flow,       \* where each import request is
    prior,      \* the sessions that it read as previous ones of its bills
    todo,       \* the sessions that it has still to work through
    statement,  \* statements.status
    session,    \* audit_sessions.status
    patches,    \* audit_candidates with their proposed_patches, by session
    matched,    \* statement_items.matched_transaction_id
    ledger,
    assigning,  \* the decision that has read its transaction, by session
    counted,    \* completion requests that have counted nothing pending
    edits,      \* edits that have read their transaction
    edited,     \* bounded by MaxEdits
    rewound,    \* history: transactions whose version an edit has set back
    early       \* history: sessions completed on a count from before their results

importVars == <<flow, prior, todo>>
auditVars == <<statement, session, patches, matched>>
editVars == <<edits, edited, rewound>>
vars == <<importVars, auditVars, ledger, assigning, counted, editVars, early>>

Init ==
    /\ flow = [i \in Import |-> "new"]
    /\ prior = [i \in Import |-> {}]
    /\ todo = [i \in Import |-> {}]
    /\ statement = [s \in Session |-> "none"]
    /\ session = [s \in Session |-> "none"]
    /\ patches = [s \in Session |-> {}]
    /\ matched = [s \in Session |-> [l \in Line |-> None]]
    /\ ledger = [t \in TxnId |-> [version |-> IF t \in Txn THEN 1 ELSE 0,
                                  live |-> t \in Txn, of |-> None]]
    /\ assigning = [s \in Session |-> None]
    /\ counted = {}
    /\ edits = {} /\ edited = 0 /\ rewound = {}
    /\ early = {}

\* Mutant: the session row is not locked by a decision.
Unlocked(s) == FALSE

Locked(s) == assigning[s] # None

-------------------------------------------------------------------------------
(***************************************************************************)
(* Import and matching                                                     *)
(***************************************************************************)

\* Sessions of the same card and date that are there already.
Previous(B) == {s \in Session : statement[s] # "none" /\ s[2] \in B}

ImportRead(i, B) ==
    /\ flow[i] = "new" /\ B # {}
    /\ flow' = [flow EXCEPT ![i] = "insert"]
    /\ prior' = [prior EXCEPT ![i] = Previous(B)]
    /\ todo' = [todo EXCEPT ![i] = {i} \X B]
    /\ UNCHANGED <<auditVars, ledger, assigning, counted, editVars, early>>

\* The previous statements are superseded whatever state they are in, and the
\* new ones begin.
ImportInsert(i) ==
    LET replaced(f, s, new) ==
            IF s \in prior[i] THEN "superseded" ELSE IF s \in todo[i] THEN new ELSE f[s]
    IN
    /\ flow[i] = "insert"
    /\ \A s \in prior[i] : ~Locked(s)
    /\ flow' = [flow EXCEPT ![i] = "match"]
    /\ statement' = [s \in Session |-> replaced(statement, s, "closed")]
    /\ session' = [s \in Session |-> replaced(session, s, "matching")]
    /\ prior' = [prior EXCEPT ![i] = {}]
    /\ UNCHANGED <<todo, patches, matched, ledger, assigning, counted, editVars, early>>

Proposed(line, txn, kind) ==
    [line |-> line, txn |-> txn, kind |-> kind, status |-> "proposed", decision |-> "pending"]

\* What runMatching may propose for session s from the part L of the ledger: a
\* line is assigned a transaction that no other line has, or it is to be
\* created, or it stays unresolved; what is left of L is unresolved too.  When
\* nothing is left, the totals may still differ.
Difference == Proposed(None, None, "acknowledge_unresolved")
Proposals(s, L) ==
    LET assign(A, f) == {Proposed(l, f[l], "assign_statement") : l \in A}
        create(C) == {Proposed(l, <<s, l>>, "create_transaction") : l \in C}
        rest(O, T) == {Proposed(l, None, "acknowledge_unresolved") : l \in O}
                        \cup {Proposed(None, t, "acknowledge_unresolved") : t \in T}
        found == UNION {UNION {{assign(A, f) \cup create(C) \cup rest(Line \ (A \cup C), L \ {f[l] : l \in A})
                                  : f \in Injection(A, L)}
                                : C \in SUBSET (Line \ A)}
                        : A \in SUBSET Line}
        explained == {P \in found : \A p \in P : p.kind = "assign_statement"}
    IN  found \cup {P \cup {Difference} : P \in explained}

NextFlow(i, s) == IF todo[i] = {s} THEN [flow EXCEPT ![i] = "over"] ELSE flow

\* runMatching for one of the sessions, and saveAuditResults.  The ledger is
\* read in an earlier transaction; as the part that is in range is arbitrary,
\* and every transaction is looked at again when a patch is decided, the two are
\* one step.
MatchSave(i, s) ==
    /\ flow[i] = "match" /\ s \in todo[i]
    /\ flow' = NextFlow(i, s)
    /\ todo' = [todo EXCEPT ![i] = @ \ {s}]
    /\ session' = [session EXCEPT ![s] = "reviewing"]
    /\ \E L \in SUBSET {t \in TxnId : ledger[t].live} : \E P \in Proposals(s, L) :
            patches' = [patches EXCEPT ![s] = P]
    /\ UNCHANGED <<prior, statement, matched, ledger, assigning, counted, editVars, early>>

\* Mutant: the sessions of every bill there is.
EveryChild(i) == {i} \X Bill

Children(i) == {s \in {i} \X Bill : statement[s] # "none"}

\* An error in the matching of one session fails the whole import:
\* markAuditImportFailed for each of its sessions, whatever became of them.
MatchFails(i) ==
    /\ flow[i] = "match"
    /\ flow' = [flow EXCEPT ![i] = "fail"]
    /\ todo' = [todo EXCEPT ![i] = Children(i)]
    /\ UNCHANGED <<prior, auditVars, ledger, assigning, counted, editVars, early>>

MarkFailed(i, s) ==
    /\ flow[i] = "fail" /\ s \in todo[i]
    /\ ~Locked(s)
    /\ flow' = NextFlow(i, s)
    /\ todo' = [todo EXCEPT ![i] = @ \ {s}]
    /\ session' = [session EXCEPT ![s] = "reviewing"]
    /\ UNCHANGED <<prior, statement, patches, matched, ledger, assigning, counted, editVars, early>>

\* The import fails before its rows are inserted, or the process dies.
ImportEnds(i) ==
    /\ flow[i] \in {"insert", "match", "fail"}
    /\ flow' = [flow EXCEPT ![i] = "over"]
    /\ todo' = [todo EXCEPT ![i] = {}]
    /\ prior' = [prior EXCEPT ![i] = {}]
    /\ UNCHANGED <<auditVars, ledger, assigning, counted, editVars, early>>

-------------------------------------------------------------------------------
(***************************************************************************)
(* Decisions: applyAuditPatch                                              *)
(***************************************************************************)

\* A patch and its candidate take this state, whatever state they are in.
Settle(s, p, status, decision) ==
    patches' = [patches EXCEPT ![s] =
        {q \in @ : <<q.line, q.txn>> # <<p.line, p.txn>>}
          \cup {[p EXCEPT !.status = status, !.decision = decision]}]

\* A patch that cannot be applied keeps its candidate pending.
Fails(s, p) == Settle(s, p, "failed", "pending")

Reject(s, p) ==
    /\ ~Locked(s) /\ p \in patches[s]
    /\ p.status \in {"proposed", "failed"} /\ p.decision = "pending"
    /\ Settle(s, p, IF p.status = "proposed" THEN "rejected" ELSE "failed", "rejected")
    /\ UNCHANGED <<importVars, statement, session, matched, ledger, assigning, counted, editVars, early>>

\* The user accepts patch p, and it is of this kind.
Accepts(s, p, kind) ==
    ~Locked(s) /\ p \in patches[s] /\ p.status = "proposed" /\ p.kind = kind

Acknowledge(s, p) ==
    /\ Accepts(s, p, "acknowledge_unresolved")
    /\ Settle(s, p, "applied", "accepted")
    /\ UNCHANGED <<importVars, statement, session, matched, ledger, assigning, counted, editVars, early>>

\* There is no category to book the line under, the line is matched already, or
\* the write path refuses the transaction.
CreateRefused(s, p) ==
    /\ Accepts(s, p, "create_transaction")
    /\ Fails(s, p)
    /\ UNCHANGED <<importVars, statement, session, matched, ledger, assigning, counted, editVars, early>>

\* The transaction is written by applyMutation and is assigned to the statement
\* in the same database transaction.  When the assignment is refused, because the
\* statement has been superseded, the patch fails and the transaction stays.
Create(s, p) ==
    LET open == statement[s] # "superseded" IN
    /\ Accepts(s, p, "create_transaction")
    /\ matched[s][p.line] = None
    /\ ledger' = [ledger EXCEPT ![p.txn] =
            [version |-> IF open THEN 2 ELSE 1, live |-> TRUE, of |-> IF open THEN s ELSE None]]
    /\ IF open
       THEN matched' = [matched EXCEPT ![s][p.line] = p.txn] /\ Settle(s, p, "applied", "accepted")
       ELSE UNCHANGED matched /\ Fails(s, p)
    /\ UNCHANGED <<importVars, statement, session, assigning, counted, editVars, early>>

\* Mutant: whether the statement has been superseded is not looked at.
AssignableAnywhere(s, p) ==
    /\ ledger[p.txn].live
    /\ ledger[p.txn].of \in {None, s}
    /\ matched[s][p.line] \in {None, p.txn}

\* The target exists, and validateAssignStatementPatch, but for the currencies.
Assignable(s, p) ==
    /\ ledger[p.txn].live
    /\ statement[s] # "superseded"
    /\ ledger[p.txn].of \in {None, s}
    /\ matched[s][p.line] \in {None, p.txn}

\* The transaction is read and checked; the patch fails when a check does.
AssignRead(s, p) ==
    /\ Accepts(s, p, "assign_statement")
    /\ \/ /\ Assignable(s, p)
          /\ assigning' = [assigning EXCEPT ![s] = [patch |-> p, version |-> ledger[p.txn].version]]
          /\ UNCHANGED patches
       \/ Fails(s, p) /\ UNCHANGED assigning
    /\ UNCHANGED <<importVars, statement, session, matched, ledger, counted, editVars, early>>

\* Mutant: the UPDATE has no condition on the version.
AnyVersion(t, v) == TRUE

Unmoved(t, v) == ledger[t].version = v

\* UPDATE ... WHERE id = ... AND version = ..., and the commit.
AssignWrite(s) ==
    LET p == assigning[s].patch IN
    /\ assigning[s] # None
    /\ assigning' = [assigning EXCEPT ![s] = None]
    /\ IF Unmoved(p.txn, assigning[s].version)
       THEN /\ ledger' = [ledger EXCEPT ![p.txn].of = s, ![p.txn].version = @ + 1]
            /\ matched' = [matched EXCEPT ![s][p.line] = p.txn]
            /\ Settle(s, p, "applied", "accepted")
       ELSE Fails(s, p) /\ UNCHANGED <<ledger, matched>>
    /\ UNCHANGED <<importVars, statement, session, counted, editVars, early>>

\* The request dies and its transaction is rolled back.
AssignAbort(s) ==
    /\ assigning[s] # None
    /\ assigning' = [assigning EXCEPT ![s] = None]
    /\ UNCHANGED <<importVars, auditVars, ledger, counted, editVars, early>>

-------------------------------------------------------------------------------
(***************************************************************************)
(* Completion: completeAuditSession                                        *)
(***************************************************************************)

\* Mutant: only the patches are counted.
PatchesSettled(s) == \A p \in patches[s] : p.status # "proposed"

Settled(s) == \A p \in patches[s] : p.status # "proposed" /\ p.decision # "pending"

\* Bound: one request to complete a session at a time.
CompleteCount(s) ==
    /\ session[s] # "none"
    /\ \A c \in counted : c.session # s
    /\ Settled(s)
    /\ counted' = counted \cup {[session |-> s, saved |-> patches[s] # {}]}
    /\ UNCHANGED <<importVars, auditVars, ledger, assigning, editVars, early>>

\* UPDATE ... WHERE status = 'reviewing'
CompleteUpdate(c) ==
    LET s == c.session
        done == session[s] = "reviewing"
    IN
    /\ c \in counted
    /\ ~Locked(s)
    /\ counted' = counted \ {c}
    /\ session' = [session EXCEPT ![s] = IF done THEN "completed" ELSE @]
    /\ early' = IF done /\ ~c.saved THEN early \cup {s} ELSE early
    /\ UNCHANGED <<importVars, statement, patches, matched, ledger, assigning, editVars>>

-------------------------------------------------------------------------------
(***************************************************************************)
(* The user's own edits: updateTransaction, deleteTransaction              *)
(***************************************************************************)

EditRead(t, deletes) ==
    /\ ledger[t].live
    /\ edited < MaxEdits
    /\ edited' = edited + 1
    /\ edits' = edits \cup {[txn |-> t, version |-> ledger[t].version, deletes |-> deletes]}
    /\ UNCHANGED <<importVars, auditVars, ledger, assigning, counted, rewound, early>>

\* UPDATE ... WHERE id = ...; the statement the row belongs to is not touched.
EditWrite(e) ==
    /\ e \in edits
    /\ edits' = edits \ {e}
    /\ ledger' = [ledger EXCEPT ![e.txn].version = e.version + 1,
                                ![e.txn].live = @ /\ ~e.deletes]
    /\ rewound' = IF ledger[e.txn].version # e.version THEN rewound \cup {e.txn} ELSE rewound
    /\ UNCHANGED <<importVars, auditVars, assigning, counted, edited, early>>

-------------------------------------------------------------------------------

Importing(i) ==
    \/ \E B \in SUBSET Bill : ImportRead(i, B)
    \/ ImportInsert(i)
    \/ \E s \in Session : MatchSave(i, s) \/ MarkFailed(i, s)
    \/ MatchFails(i)
    \/ ImportEnds(i)

Deciding(s) ==
    \/ \E p \in patches[s] :
        Reject(s, p) \/ Acknowledge(s, p) \/ CreateRefused(s, p) \/ Create(s, p) \/ AssignRead(s, p)
    \/ AssignWrite(s)
    \/ AssignAbort(s)

Next ==
    \/ \E i \in Import : Importing(i)
    \/ \E s \in Session : Deciding(s) \/ CompleteCount(s)
    \/ \E c \in counted : CompleteUpdate(c)
    \/ \E t \in TxnId, d \in BOOLEAN : EditRead(t, d)
    \/ \E e \in edits : EditWrite(e)

Spec == Init /\ [][Next]_vars

-------------------------------------------------------------------------------
(***************************************************************************)
(* Properties                                                              *)
(***************************************************************************)

\* Every variable keeps its shape; a session has a status exactly when its
\* statement has one, and a decision under way is about a patch still proposed.
TypeOK ==
    /\ flow \in [Import -> {"new", "insert", "match", "fail", "over"}]
    /\ prior \in [Import -> SUBSET Session] /\ todo \in [Import -> SUBSET Session]
    /\ statement \in [Session -> {"none", "closed", "superseded"}]
    /\ session \in [Session -> {"none", "matching", "reviewing", "completed", "superseded"}]
    /\ patches \in [Session -> SUBSET Patch]
    /\ matched \in [Session -> [Line -> TxnId \cup {None}]]
    /\ assigning \in [Session -> Assignment \cup {None}]
    /\ \A s \in Session :
        /\ session[s] = "none" <=> statement[s] = "none"
        /\ assigning[s] # None =>
             assigning[s].patch \in patches[s] /\ assigning[s].patch.status = "proposed"
    /\ ledger \in [TxnId -> Row]
    /\ counted \subseteq [session : Session, saved : BOOLEAN]
    /\ edits \subseteq [txn : TxnId, version : Nat, deletes : BOOLEAN]
    /\ edited \in 0 .. MaxEdits /\ rewound \subseteq TxnId /\ early \subseteq Session

\* A patch is decided once: what was decided, by whatever request first, is not
\* decided again, and a repeated acceptance writes nothing (AUDIT_ENGINE, 7).
DecidedOnce ==
    [][\A s \in Session : \A p \in patches[s] :
         p.decision # "pending" => p \in patches'[s]]_vars

\* A line is matched exactly when its patch was applied, and the transaction then
\* belongs to that statement and to no other, although two sessions may decide
\* about one transaction at the same time and the user edits it meanwhile; unless
\* an edit has set back the version that the decisions rely on.
AppliedTo(s, l) ==
    {p \in patches[s] : p.line = l /\ p.status = "applied" /\ p.kind # "acknowledge_unresolved"}
MatchedOnce ==
    \A s \in Session, l \in Line :
        LET t == matched[s][l] IN
        /\ {p.txn : p \in AppliedTo(s, l)} = {t} \ {None}
        /\ t # None /\ t \notin rewound => ledger[t].of = s

\* Nothing is matched to a statement once another has replaced it: a decision
\* that is under way delays the import, and a later one is refused.
SupersededIsFrozen ==
    [][\A s \in Session : statement[s] = "superseded" => matched'[s] = matched[s]]_vars

\* AUDIT_ENGINE 7: a completed session has no candidate pending and no patch
\* proposed; unless the request to complete it was counting before the results
\* of its matching were saved.
CompletedIsSettled ==
    \A s \in Session : session[s] = "completed" /\ s \notin early =>
        \A p \in patches[s] : p.decision # "pending" /\ p.status # "proposed"

\* AUDIT_ENGINE 7, without that exception: before a session is completed no candidate is
\* pending and every patch has left proposed.
NothingIsLeftOpen ==
    \A s \in Session : session[s] = "completed" =>
        \A p \in patches[s] : p.decision # "pending" /\ p.status # "proposed"

\* AUDIT_ENGINE 7: a patch that failed has written nothing to the ledger.
FailedWritesNothing ==
    \A s \in Session : \A p \in patches[s] :
        p.kind = "create_transaction" /\ p.status = "failed" => ledger[p.txn].version = 0

===============================================================================
