---------------------------- MODULE MutationService ----------------------------
(***************************************************************************)
(* The only write path of the server: POST /api/mutations and the          *)
(* transaction that applyMutation runs for it (packages/database/src/      *)
(* mutations.ts), executed by several workers over one PostgreSQL at its   *)
(* default isolation level, READ COMMITTED.                                *)
(*                                                                         *)
(* Each step of a worker is one statement: a plain SELECT sees what is     *)
(* committed when it runs, an UPDATE or INSERT waits for the uncommitted   *)
(* row or key of another transaction, and everything a transaction wrote   *)
(* becomes visible at once when it commits.  What a transaction has        *)
(* written and not committed is kept in its worker's registers.            *)
(*                                                                         *)
(* The handlers share one skeleton; it is translated from those of the     *)
(* shared credit limit groups (createLimitGroup, updateLimitGroup,         *)
(* deleteLimitGroup).  What a handler checks about amounts and references  *)
(* is a nondeterministic refusal, because it depends on data that is not   *)
(* modelled here.                                                          *)
(***************************************************************************)
EXTENDS Naturals, FiniteSets

CONSTANTS
    Worker,       \* request handlers that may run at the same time
    User,
    MutationId,   \* the idempotency keys a client draws
    Entity,       \* ids of rows of one synchronised table
    Mutation,     \* the envelopes that clients may send
    None,         \* SQL NULL, or a record that is not there
    MaxFailures   \* bound: requests that fail with a 500 or lose their connection

Op == {"create", "update", "delete"}

\* base = NoBase stands for baseVersion: null; zVersion starts at 1.
NoBase == 0

Envelope == [id : MutationId, user : User, entity : Entity, op : Op,
             base : Nat, wellFormed : BOOLEAN]

ASSUME EnvelopeAssumption == Mutation \subseteq Envelope
ASSUME FailureAssumption == MaxFailures \in Nat

Rejection == {"rejected_conflict", "rejected_invalid"}

\* A row of the table: version 0 is a row that was never inserted, `by' is
\* the mutation whose values the row holds.
Row == [version : Nat, live : BOOLEAN, by : MutationId \cup {None},
        owner : User \cup {None}]
NoRow == [version |-> 0, live |-> FALSE, by |-> None, owner |-> None]

\* A row of sync_mutations, and of change_log.
Record == [user : User, result : {"applied"} \cup Rejection, version : Nat]
ASSUME NullAssumption == None \notin Record
Change == [seq : Nat, entity : Entity, version : Nat, by : MutationId, user : User]

\* MutationOutcome; snapshot is the server row a conflict carries.
Outcome == [result : {"applied", "duplicate", "error"} \cup Rejection,
            version : Nat, snapshot : Row \cup {None}]
Failed == [result |-> "error", version |-> 0, snapshot |-> None]

-------------------------------------------------------------------------------

VARIABLES
    row,        \* committed rows of the table
    results,    \* committed rows of sync_mutations, by primary key
    changes,    \* committed rows of change_log
    nextSeq,    \* the bigserial behind change_log.seq
    pc,         \* where each worker is in its request
    job,        \* the envelope it works on
    seen,       \* the row its handler read
    outcome,    \* what it will record and answer
    stamp,      \* the seq its change_log row was given
    answers,    \* every answer given so far: a history variable
    raced,      \* history: a row had changed since its writer read it
    failures    \* bounded by MaxFailures

store == <<row, results, changes>>
vars == <<row, results, changes, nextSeq, pc, job, seen, outcome, stamp, answers, raced, failures>>

Step == {"idle", "lookup", "dispatch", "write", "record", "commit", "readback", "reply"}

Init ==
    /\ row = [e \in Entity |-> NoRow]
    /\ results = [i \in MutationId |-> None]
    /\ changes = {}
    /\ nextSeq = 1
    /\ pc = [w \in Worker |-> "idle"]
    /\ job = [w \in Worker |-> None]
    /\ seen = [w \in Worker |-> NoRow]
    /\ outcome = [w \in Worker |-> Failed]
    /\ stamp = [w \in Worker |-> 0]
    /\ answers = {}
    /\ raced = FALSE
    /\ failures = 0

Verdict(result, version, snapshot) ==
    [result |-> result, version |-> version, snapshot |-> snapshot]

\* A row the handlers' SELECT finds: owned by the caller and not deleted.
Visible(r, user) == r.version > 0 /\ r.live /\ r.owner = user

\* Locks: an uncommitted write of the row, an uncommitted primary key.
HoldsRow(v, e) ==
    pc[v] \in {"record", "commit"} /\ outcome[v].result = "applied" /\ job[v].entity = e
RowLocked(e, w) == \E v \in Worker \ {w} : HoldsRow(v, e)

\* Mutants: the table without its primary key, and a key that is claimed
\* before the INSERT that takes it.
NoPrimaryKey(i, w) == FALSE
KeyClaimedEarly(i, w) ==
    \E v \in Worker \ {w} : pc[v] \in {"record", "commit"} /\ job[v].id = i

KeyHeld(i, w) == \E v \in Worker \ {w} : pc[v] = "commit" /\ job[v].id = i

Goto(w, step) == pc' = [pc EXCEPT ![w] = step]
Conclude(w, o, step) == outcome' = [outcome EXCEPT ![w] = o] /\ Goto(w, step)

\* The answer of worker w leaves the handler.
Answer(w, o) ==
    /\ Conclude(w, o, "reply")
    /\ answers' = answers \cup
            {[id |-> job[w].id, user |-> job[w].user, result |-> o.result]}

\* Mutants: every repetition is called a duplicate; it fails.
ReplayAsDuplicate(i) == Verdict("duplicate", results[i].version, None)
ReplayFails(i) == Failed

\* What a repeated mutation is told: the first result, without the snapshot.
Replay(i) ==
    Verdict(IF results[i].result = "applied" THEN "duplicate" ELSE results[i].result,
            results[i].version, None)

-------------------------------------------------------------------------------

\* A request arrives.  An envelope whose payload fails its schema is refused
\* before the service is entered, and nothing is recorded about it.
Receive(w, m) ==
    /\ pc[w] = "idle"
    /\ job' = [job EXCEPT ![w] = m]
    /\ IF m.wellFormed
       THEN Goto(w, "lookup") /\ UNCHANGED outcome
       ELSE Conclude(w, Verdict("rejected_invalid", 0, None), "reply")
    /\ UNCHANGED <<store, nextSeq, seen, stamp, answers, raced, failures>>

\* SELECT from sync_mutations by primary key.
Lookup(w) ==
    LET m == job[w] IN
    /\ pc[w] = "lookup"
    /\ IF results[m.id] = None
       THEN Goto(w, "dispatch") /\ UNCHANGED <<outcome, answers>>
       ELSE IF results[m.id].user # m.user
            THEN Answer(w, Verdict("rejected_invalid", 0, None))
            ELSE Answer(w, Replay(m.id))
    /\ UNCHANGED <<store, nextSeq, job, seen, stamp, raced, failures>>

\* The handler reads the row without locking it, checks, and either refuses
\* (the savepoint is rolled back) or goes on to write what it computed.
Dispatch(w) ==
    LET m == job[w]
        r == row[m.entity]
        reject == Verdict("rejected_invalid", 0, None)
        proceed == Goto(w, "write") /\ seen' = [seen EXCEPT ![w] = r] /\ UNCHANGED outcome
        refuse(o) == Conclude(w, o, "record") /\ UNCHANGED seen
    IN
    /\ pc[w] = "dispatch"
    /\ \/ m.op = "create" /\ (proceed \/ refuse(reject))
       \/ /\ m.op # "create"
          /\ IF m.base = NoBase \/ ~Visible(r, m.user) THEN refuse(reject)
             ELSE IF r.version # m.base THEN refuse(Verdict("rejected_conflict", 0, r))
             ELSE proceed \/ refuse(reject)
    /\ UNCHANGED <<store, nextSeq, job, stamp, answers, raced, failures>>

\* INSERT, or UPDATE ... WHERE id = current.id: no condition on the version.
Write(w) ==
    LET m == job[w] IN
    /\ pc[w] = "write"
    /\ ~RowLocked(m.entity, w)
    /\ IF m.op = "create" /\ row[m.entity].version > 0
       THEN Goto(w, "readback") /\ UNCHANGED outcome
       ELSE Conclude(w, Verdict("applied", IF m.op = "create" THEN 1 ELSE seen[w].version + 1, None),
                     "record")
    /\ UNCHANGED <<store, nextSeq, job, seen, stamp, answers, raced, failures>>

\* INSERT INTO sync_mutations, then recordChange draws a seq for change_log.
RecordResult(w) ==
    LET m == job[w] IN
    /\ pc[w] = "record"
    /\ ~KeyHeld(m.id, w)
    /\ IF results[m.id] # None
       THEN Goto(w, "readback") /\ UNCHANGED <<nextSeq, stamp>>
       ELSE /\ Goto(w, "commit")
            /\ IF outcome[w].result = "applied"
               THEN stamp' = [stamp EXCEPT ![w] = nextSeq] /\ nextSeq' = nextSeq + 1
               ELSE UNCHANGED <<nextSeq, stamp>>
    /\ UNCHANGED <<store, job, seen, outcome, answers, raced, failures>>

\* Mutants: the handler saves the whole row it read; it forgets the version.
WrittenFromCopy(w) ==
    LET m == job[w] IN
    [version |-> outcome[w].version, by |-> m.id,
     live |-> m.op = "create" \/ (seen[w].live /\ m.op # "delete"),
     owner |-> IF m.op = "create" THEN m.user ELSE seen[w].owner]
WrittenUncounted(w) ==
    LET m == job[w] IN
    IF m.op = "create"
    THEN [version |-> 1, live |-> TRUE, by |-> m.id, owner |-> m.user]
    ELSE [row[m.entity] EXCEPT !.by = m.id, !.live = @ /\ m.op # "delete"]

\* The row as the transaction of worker w leaves it: an UPDATE keeps the
\* columns it does not set, so it never brings a deleted row back.
Written(w) ==
    LET m == job[w]
        r == row[m.entity]
    IN  IF m.op = "create"
        THEN [version |-> outcome[w].version, live |-> TRUE, by |-> m.id, owner |-> m.user]
        ELSE [version |-> outcome[w].version, live |-> r.live /\ m.op # "delete",
              by |-> m.id, owner |-> r.owner]

\* Mutant: the change is logged under the version that was read.
ChangeOfSeen(w) ==
    [seq |-> stamp[w], entity |-> job[w].entity, version |-> seen[w].version,
     by |-> job[w].id, user |-> job[w].user]

ChangeOf(w) ==
    [seq |-> stamp[w], entity |-> job[w].entity, version |-> outcome[w].version,
     by |-> job[w].id, user |-> job[w].user]

Commit(w) ==
    LET m == job[w] IN
    /\ pc[w] = "commit"
    /\ results' = [results EXCEPT ![m.id] =
            [user |-> m.user, result |-> outcome[w].result, version |-> outcome[w].version]]
    /\ IF outcome[w].result = "applied"
       THEN /\ row' = [row EXCEPT ![m.entity] = Written(w)]
            /\ changes' = changes \cup {ChangeOf(w)}
            /\ raced' = (raced \/ (m.op # "create" /\ seen[w] # row[m.entity]))
       ELSE UNCHANGED <<row, changes, raced>>
    /\ Answer(w, outcome[w])
    /\ UNCHANGED <<nextSeq, job, seen, stamp, failures>>

\* A unique violation aborted the transaction: read the first result back.
\* The error is rethrown when there is none, because another key was violated,
\* and when the query layer has wrapped it so that isUniqueViolation does not
\* see its code.
ReadBack(w) ==
    /\ pc[w] = "readback"
    /\ \/ results[job[w].id] # None /\ Answer(w, Replay(job[w].id))
       \/ Conclude(w, Failed, "reply") /\ UNCHANGED answers
    /\ UNCHANGED <<store, nextSeq, job, seen, stamp, raced, failures>>

\* Any other error, or a lost database connection, before the commit.
Fail(w) ==
    /\ pc[w] \in Step \ {"idle", "reply"}
    /\ failures < MaxFailures
    /\ failures' = failures + 1
    /\ Conclude(w, Failed, "reply")
    /\ UNCHANGED <<store, nextSeq, job, seen, stamp, answers, raced>>

\* The response is handed to the connection and the worker is free again.
Finish(w) ==
    /\ pc[w] = "reply"
    /\ Goto(w, "idle")
    /\ job' = [job EXCEPT ![w] = None]
    /\ seen' = [seen EXCEPT ![w] = NoRow]
    /\ outcome' = [outcome EXCEPT ![w] = Failed]
    /\ stamp' = [stamp EXCEPT ![w] = 0]
    /\ UNCHANGED <<store, nextSeq, answers, raced, failures>>

Work(w) ==
    \/ Lookup(w) \/ Dispatch(w) \/ Write(w) \/ RecordResult(w)
    \/ Commit(w) \/ ReadBack(w)

Next ==
    \E w \in Worker :
        \/ \E m \in Mutation : Receive(w, m)
        \/ Work(w)
        \/ Fail(w)
        \/ Finish(w)

Spec == Init /\ [][Next]_vars

\* A worker goes on with its request as long as the database lets it: Node runs
\* every continuation, and PostgreSQL ends a wait when the lock is released.
Fairness == \A w \in Worker : WF_vars(Work(w)) /\ WF_vars(Finish(w))

FairSpec == Spec /\ Fairness

-------------------------------------------------------------------------------
(***************************************************************************)
(* Properties                                                              *)
(***************************************************************************)

\* Every variable keeps its shape; an answer is never the failure record.
TypeOK ==
    /\ row \in [Entity -> Row]
    /\ results \in [MutationId -> Record \cup {None}]
    /\ changes \subseteq Change
    /\ nextSeq \in Nat \ {0}
    /\ pc \in [Worker -> Step]
    /\ job \in [Worker -> Mutation \cup {None}]
    /\ seen \in [Worker -> Row]
    /\ outcome \in [Worker -> Outcome]
    /\ stamp \in [Worker -> Nat]
    /\ answers \subseteq [id : MutationId, user : User,
                          result : {"applied", "duplicate"} \cup Rejection]
    /\ raced \in BOOLEAN
    /\ failures \in 0 .. MaxFailures

Applied(i) == results[i] # None /\ results[i].result = "applied"

\* A mutation takes effect at most once, however often it is sent and however
\* its attempts overlap, and its effect and its record commit together: the
\* change feed holds exactly one change per mutation recorded as applied.
EffectIffRecorded ==
    /\ \A c, d \in changes : c.by = d.by => c = d
    /\ \A c \in changes : Applied(c.by) /\ c.version = results[c.by].version
    /\ \A i \in MutationId : Applied(i) => \E c \in changes : c.by = i

\* What the owner of a mutation has been told is what the database holds: no
\* answer runs ahead of the commit, and success and refusal are never mixed.
AnsweredIsDurable ==
    \A a \in answers :
        LET r == results[a.id] IN
        /\ r # None
        /\ a.user = r.user =>
             a.result = r.result \/ (a.result = "duplicate" /\ r.result = "applied")

\* The first result of a mutation wins: the row of sync_mutations that a
\* replay is answered from is never overwritten by a later attempt.
FirstResultWins ==
    [][\A i \in MutationId : results[i] # None => results'[i] = results[i]]_vars

\* A deletion is never undone by an update that read the row before it.
DeletedStaysDeleted ==
    [][\A e \in Entity : row[e].version > 0 /\ ~row[e].live => ~row'[e].live]_vars

\* The values a row holds came with a change the feed tells of, under the
\* version the row carries: no write escapes the change log.
RowsAreInFeed ==
    \A e \in Entity : row[e].version > 0 =>
        \E c \in changes : c.entity = e /\ c.version = row[e].version /\ c.by = row[e].by

\* The versions of a row count its changes without a gap or a repetition, and
\* the feed's sequence numbers order them as they were applied, as long as no
\* writer was overtaken between reading the row and writing it.
VersionsCountChanges ==
    raced \/ \A e \in Entity :
        LET log == {c \in changes : c.entity = e} IN
        /\ {c.version : c \in log} = 1 .. row[e].version
        /\ \A c, d \in log : c.seq < d.seq <=> c.version < d.version

\* SYNC_DESIGN, principle: any silent overwrite is a bug.  Every version of a
\* row is the work of one mutation: of two writers that saw the same version
\* only one is applied.
NoSilentOverwrite ==
    \A c, d \in changes : c.entity = d.entity /\ c.version = d.version => c = d

\* Every request that enters the service is answered: the row lock and the
\* primary key of sync_mutations never make two workers wait for each other.
EveryRequestAnswered ==
    \A w \in Worker : pc[w] = "lookup" ~> pc[w] = "reply"

-------------------------------------------------------------------------------
(***************************************************************************)
(* Refinement                                                              *)
(***************************************************************************)

\* The answers given to the user under whose name a mutation is recorded, with
\* "duplicate" read as what it says: it had been applied.
OwnAnswers == {a \in answers : results[a.id] # None /\ results[a.id].user = a.user}
FateTold(a) == IF a.result = "duplicate" THEN "applied" ELSE a.result

Promise == INSTANCE MutationPromise WITH
    fate <- [i \in MutationId |-> IF results[i] = None THEN "open" ELSE results[i].result],
    effects <- {c.by : c \in changes},
    told <- {<<a.id, FateTold(a)>> : a \in OwnAnswers}

\* The write path, with its concurrent workers, its failures and its replays,
\* implements the promise: applyMutation is atomic and idempotent.
ImplementsPromise == Promise!Spec

===============================================================================
