------------------------- MODULE MutationServiceProofs -------------------------
(***************************************************************************)
(* Proofs about MutationService, for every set of workers, users, rows and *)
(* envelopes.  The inductive invariant says what a transaction may rely on *)
(* between its statements: the locks it holds exclude the others, and what *)
(* it found missing is still missing when it commits.                      *)
(***************************************************************************)
EXTENDS MutationService, TLAPS

\* A worker that is busy has an envelope, and what it is about to record is a
\* result that may be recorded.
BusyWorkers ==
    \A w \in Worker :
        /\ pc[w] # "idle" => job[w] \in Mutation
        /\ pc[w] \in {"record", "commit"} => outcome[w].result \in {"applied"} \cup Rejection

\* Two transactions never hold the same row, nor the same idempotency key.
LocksExclude ==
    \A v, w \in Worker : v # w =>
        /\ ~(pc[v] = "commit" /\ pc[w] = "commit" /\ job[v].id = job[w].id)
        /\ \A e \in Entity : ~(HoldsRow(v, e) /\ HoldsRow(w, e))

\* What a transaction is about to insert is not there.
InsertsAreNew ==
    \A w \in Worker :
        /\ pc[w] = "commit" => results[job[w].id] = None
        /\ job[w] \in Mutation /\ job[w].op = "create" /\ HoldsRow(w, job[w].entity)
             => row[job[w].entity].version = 0

IInv ==
    /\ TypeOK
    /\ BusyWorkers
    /\ LocksExclude
    /\ InsertsAreNew
    /\ EffectIffRecorded
    /\ AnsweredIsDurable

-------------------------------------------------------------------------------

\* What an envelope is made of.
LEMMA EnvelopeFields ==
    ASSUME NEW m \in Mutation
    PROVE  /\ m.id \in MutationId /\ m.user \in User /\ m.entity \in Entity
           /\ m.op \in Op /\ m.base \in Nat /\ m.wellFormed \in BOOLEAN
BY EnvelopeAssumption DEF Envelope

LEMMA InitTypeOK == Init => TypeOK
<1> SUFFICES ASSUME Init PROVE TypeOK
  OBVIOUS
<1>1. raced \in BOOLEAN
  BY DEF Init
<1> QED
  BY <1>1, FailureAssumption DEF Init, TypeOK, Row, NoRow, Step, Outcome, Failed, Rejection

LEMMA VerdictType ==
    ASSUME NEW r \in {"applied", "duplicate", "error"} \cup Rejection,
           NEW v \in Nat, NEW s \in Row \cup {None}
    PROVE  Verdict(r, v, s) \in Outcome /\ Verdict(r, v, s).result = r
BY DEF Verdict, Outcome

LEMMA ReplayType ==
    ASSUME TypeOK, NEW i \in MutationId, results[i] # None
    PROVE  /\ Replay(i) \in Outcome
           /\ Replay(i).result \in {"duplicate"} \cup Rejection
<1>1. results[i] \in Record
  BY DEF TypeOK
<1>2. results[i].result \in {"applied"} \cup Rejection /\ results[i].version \in Nat
  BY <1>1 DEF Record
<1>3. (IF results[i].result = "applied" THEN "duplicate" ELSE results[i].result)
        \in {"duplicate"} \cup Rejection
  BY <1>2
<1> QED
  BY <1>2, <1>3, VerdictType, ZenonT(60) DEF Replay

\* What is repeated is what is recorded.
LEMMA ReplayFaithful ==
    ASSUME TypeOK, NEW i \in MutationId, results[i] # None
    PROVE  \/ Replay(i).result = results[i].result /\ Replay(i).result # "duplicate"
           \/ Replay(i).result = "duplicate" /\ results[i].result = "applied"
<1>1. results[i] \in Record
  BY DEF TypeOK
<1>2. results[i].result \in {"applied"} \cup Rejection
  BY <1>1 DEF Record
<1> QED
  BY <1>2 DEF Replay, Verdict, Rejection

\* Typing, action by action.
LEMMA StepTypeOK ==
    TypeOK /\ BusyWorkers /\ [Next]_vars => TypeOK' /\ BusyWorkers'
<1> SUFFICES ASSUME TypeOK, BusyWorkers, [Next]_vars PROVE TypeOK' /\ BusyWorkers'
  OBVIOUS
<1> USE DEF Goto, Conclude, store
<1>1. ASSUME NEW w \in Worker, NEW m \in Mutation, Receive(w, m)
      PROVE  TypeOK' /\ BusyWorkers'
  <2>1. Verdict("rejected_invalid", 0, None) \in Outcome
    BY VerdictType DEF Rejection
  <2> QED
    BY <1>1, <2>1 DEF Receive, TypeOK, BusyWorkers, Step
<1>2. ASSUME NEW w \in Worker, Lookup(w) PROVE TypeOK' /\ BusyWorkers'
  <2>1. job[w] \in Mutation /\ job[w].id \in MutationId /\ job[w].user \in User
    BY <1>2, EnvelopeFields DEF Lookup, BusyWorkers
  <2>2. CASE results[job[w].id] = None
    BY <1>2, <2>2 DEF Lookup, TypeOK, BusyWorkers, Step
  <2>3. ASSUME NEW o \in Outcome, o.result \in {"duplicate"} \cup Rejection, Answer(w, o)
        PROVE  TypeOK' /\ BusyWorkers'
    BY <1>2, <2>1, <2>3 DEF Lookup, Answer, TypeOK, BusyWorkers, Step
  <2>4. CASE results[job[w].id] # None /\ results[job[w].id].user # job[w].user
    <3>1. Verdict("rejected_invalid", 0, None) \in Outcome
          /\ Verdict("rejected_invalid", 0, None).result \in Rejection
      BY VerdictType DEF Rejection
    <3> QED
      BY <1>2, <2>3, <2>4, <3>1 DEF Lookup
  <2>5. CASE results[job[w].id] # None /\ results[job[w].id].user = job[w].user
    BY <1>2, <2>1, <2>3, <2>5, ReplayType DEF Lookup
  <2> QED
    BY <2>2, <2>4, <2>5
<1>3. ASSUME NEW w \in Worker, Dispatch(w) PROVE TypeOK' /\ BusyWorkers'
  <2>1. job[w] \in Mutation /\ row[job[w].entity] \in Row
    BY <1>3, EnvelopeFields DEF Dispatch, BusyWorkers, TypeOK
  <2>2. ASSUME NEW o \in Outcome, o.result \in Rejection, Conclude(w, o, "record"), UNCHANGED seen
        PROVE  TypeOK' /\ BusyWorkers'
    BY <1>3, <2>1, <2>2 DEF Dispatch, TypeOK, BusyWorkers, Step
  <2>3. CASE Goto(w, "write") /\ seen' = [seen EXCEPT ![w] = row[job[w].entity]] /\ UNCHANGED outcome
    BY <1>3, <2>1, <2>3 DEF Dispatch, TypeOK, BusyWorkers, Step
  <2>4. /\ Verdict("rejected_invalid", 0, None) \in Outcome
        /\ Verdict("rejected_invalid", 0, None).result \in Rejection
        /\ Verdict("rejected_conflict", 0, row[job[w].entity]) \in Outcome
        /\ Verdict("rejected_conflict", 0, row[job[w].entity]).result \in Rejection
    BY <2>1, VerdictType DEF Rejection
  <2> HIDE DEF Conclude, Goto
  <2> QED
    BY <1>3, <2>2, <2>3, <2>4 DEF Dispatch
<1>4. ASSUME NEW w \in Worker, Write(w) PROVE TypeOK' /\ BusyWorkers'
  <2> DEFINE v == IF job[w].op = "create" THEN 1 ELSE seen[w].version + 1
  <2>1. job[w] \in Mutation /\ v \in Nat
    BY <1>4 DEF Write, BusyWorkers, TypeOK, Row
  <2>2. Verdict("applied", v, None) \in Outcome /\ Verdict("applied", v, None).result = "applied"
    BY <2>1, VerdictType
  <2> HIDE DEF v
  <2>3. CASE Goto(w, "readback") /\ UNCHANGED outcome
    BY <1>4, <2>1, <2>3 DEF Write, TypeOK, BusyWorkers, Step
  <2>4. CASE Conclude(w, Verdict("applied", v, None), "record")
    BY <1>4, <2>1, <2>2, <2>4 DEF Write, TypeOK, BusyWorkers, Step
  <2> QED
    BY <1>4, <2>3, <2>4 DEF Write, v
<1>5. ASSUME NEW w \in Worker, RecordResult(w) PROVE TypeOK' /\ BusyWorkers'
  BY <1>5 DEF RecordResult, TypeOK, BusyWorkers, Step
<1>6. ASSUME NEW w \in Worker, Commit(w) PROVE TypeOK' /\ BusyWorkers'
  <2>1. /\ job[w] \in Mutation
        /\ outcome[w] \in Outcome
        /\ outcome[w].result \in {"applied"} \cup Rejection
        /\ outcome[w].version \in Nat
    BY <1>6 DEF Commit, BusyWorkers, TypeOK, Outcome
  <2>2. job[w].id \in MutationId /\ job[w].user \in User /\ job[w].entity \in Entity
    BY <2>1, EnvelopeFields
  <2>3. Written(w) \in Row
    <3>1. row[job[w].entity] \in Row
      BY <2>2 DEF TypeOK
    <3>2. CASE job[w].op = "create"
      BY <2>1, <2>2, <3>2 DEF Written, Row
    <3>3. CASE job[w].op # "create"
      BY <2>1, <2>2, <3>1, <3>3 DEF Written, Row
    <3> QED
      BY <3>2, <3>3
  <2>4. ChangeOf(w) \in Change
    BY <2>1, <2>2 DEF ChangeOf, Change, TypeOK
  <2>5. [user |-> job[w].user, result |-> outcome[w].result, version |-> outcome[w].version] \in Record
    BY <2>1, <2>2 DEF Record
  <2>6. row' \in [Entity -> Row] /\ changes' \subseteq Change /\ results' \in [MutationId -> Record \cup {None}]
    BY <1>6, <2>3, <2>4, <2>5 DEF Commit, TypeOK
  <2>7. answers' \subseteq [id : MutationId, user : User, result : {"applied", "duplicate"} \cup Rejection]
    BY <1>6, <2>1, <2>2 DEF Commit, Answer, TypeOK
  <2> QED
    BY <1>6, <2>1, <2>6, <2>7 DEF Commit, Answer, TypeOK, BusyWorkers, Step
<1>7. ASSUME NEW w \in Worker, ReadBack(w) PROVE TypeOK' /\ BusyWorkers'
  <2>1. job[w] \in Mutation /\ job[w].id \in MutationId /\ job[w].user \in User
    BY <1>7, EnvelopeFields DEF ReadBack, BusyWorkers
  <2>2. CASE Conclude(w, Failed, "reply") /\ UNCHANGED answers
    <3>1. Failed \in Outcome
      BY DEF Failed, Outcome
    <3> QED
      BY <1>7, <2>2, <3>1 DEF ReadBack, TypeOK, BusyWorkers, Step
  <2>3. CASE results[job[w].id] # None /\ Answer(w, Replay(job[w].id))
    <3> DEFINE o == Replay(job[w].id)
    <3>1. o \in Outcome /\ o.result \in {"duplicate"} \cup Rejection
      BY <2>1, <2>3, ReplayType
    <3> HIDE DEF o
    <3>2. Answer(w, o)
      BY <2>3 DEF o
    <3> QED
      BY <1>7, <2>1, <3>1, <3>2 DEF ReadBack, Answer, TypeOK, BusyWorkers, Step
  <2> QED
    BY <1>7, <2>2, <2>3 DEF ReadBack
<1>8. ASSUME NEW w \in Worker, Fail(w) PROVE TypeOK' /\ BusyWorkers'
  BY <1>8, FailureAssumption DEF Fail, TypeOK, BusyWorkers, Step, Failed, Outcome
<1>9. ASSUME NEW w \in Worker, Finish(w) PROVE TypeOK' /\ BusyWorkers'
  BY <1>9 DEF Finish, TypeOK, BusyWorkers, Step, Failed, Outcome, NoRow, Row
<1>10. CASE UNCHANGED vars
  BY <1>10 DEF vars, TypeOK, BusyWorkers
<1> QED
  BY <1>1, <1>2, <1>3, <1>4, <1>5, <1>6, <1>7, <1>8, <1>9, <1>10 DEF Next, Work

-------------------------------------------------------------------------------

\* A step of one worker leaves the registers of the others alone.
LEMMA OthersStand ==
    ASSUME TypeOK, NEW w \in Worker,
           (\E m \in Mutation : Receive(w, m)) \/ Work(w) \/ Fail(w) \/ Finish(w)
    PROVE  \A v \in Worker \ {w} :
              pc'[v] = pc[v] /\ job'[v] = job[v] /\ outcome'[v] = outcome[v]
<1> USE DEF TypeOK, Goto, Conclude
<1>1. CASE \E m \in Mutation : Receive(w, m)
  BY <1>1 DEF Receive
<1>2. CASE Lookup(w) \/ ReadBack(w) \/ Commit(w)
  BY <1>2 DEF Lookup, ReadBack, Commit, Answer
<1>3. CASE Dispatch(w)
  BY <1>3 DEF Dispatch
<1>4. CASE Write(w) \/ RecordResult(w)
  BY <1>4 DEF Write, RecordResult
<1>5. CASE Fail(w) \/ Finish(w)
  BY <1>5 DEF Fail, Finish
<1> QED
  BY <1>1, <1>2, <1>3, <1>4, <1>5 DEF Work

\* Which steps take a lock: the key is taken by RecordResult, the row by Write,
\* and each waits until nobody else holds it.
LEMMA LockTaken ==
    ASSUME TypeOK, NEW w \in Worker,
           (\E m \in Mutation : Receive(w, m)) \/ Work(w) \/ Fail(w) \/ Finish(w)
    PROVE  /\ pc'[w] = "commit" =>
                /\ RecordResult(w) /\ ~KeyHeld(job[w].id, w) /\ results[job[w].id] = None
                /\ job' = job /\ UNCHANGED store
           /\ \A e \in Entity : HoldsRow(w, e)' =>
                \/ HoldsRow(w, e) /\ job' = job /\ UNCHANGED store
                \/ Write(w) /\ ~RowLocked(e, w) /\ job' = job /\ UNCHANGED store
<1> USE DEF TypeOK, Goto, Conclude
<1>1. CASE \E m \in Mutation : Receive(w, m)
  BY <1>1 DEF Receive, HoldsRow
<1>2. CASE Lookup(w) \/ ReadBack(w) \/ Commit(w)
  BY <1>2 DEF Lookup, ReadBack, Commit, Answer, HoldsRow
<1>3. CASE Dispatch(w)
  BY <1>3 DEF Dispatch, HoldsRow, Verdict
<1>4. CASE Write(w)
  BY <1>4 DEF Write, HoldsRow
<1>5. CASE RecordResult(w)
  BY <1>5 DEF RecordResult, HoldsRow, Step
<1>6. CASE Fail(w) \/ Finish(w)
  BY <1>6 DEF Fail, Finish, HoldsRow
<1> QED
  BY <1>1, <1>2, <1>3, <1>4, <1>5, <1>6 DEF Work

LEMMA StepLocks ==
    TypeOK /\ LocksExclude /\ [Next]_vars => LocksExclude'
<1> SUFFICES ASSUME TypeOK, LocksExclude, [Next]_vars PROVE LocksExclude'
  OBVIOUS
<1>1. CASE UNCHANGED vars
  BY <1>1 DEF vars, LocksExclude, HoldsRow
<1>2. ASSUME NEW w \in Worker,
             (\E m \in Mutation : Receive(w, m)) \/ Work(w) \/ Fail(w) \/ Finish(w)
      PROVE  LocksExclude'
  <2>1. \A v \in Worker \ {w} :
          /\ pc'[v] = pc[v] /\ job'[v] = job[v] /\ outcome'[v] = outcome[v]
          /\ \A e \in Entity : HoldsRow(v, e)' <=> HoldsRow(v, e)
    BY <1>2, OthersStand DEF HoldsRow
  <2>2. \A v \in Worker \ {w} : ~(pc'[v] = "commit" /\ pc'[w] = "commit" /\ job'[v].id = job'[w].id)
    BY <1>2, <2>1, LockTaken DEF KeyHeld
  <2>3. \A v \in Worker \ {w}, e \in Entity : ~(HoldsRow(v, e)' /\ HoldsRow(w, e)')
    BY <1>2, <2>1, LockTaken DEF RowLocked, LocksExclude
  <2> QED
    BY <2>1, <2>2, <2>3 DEF LocksExclude
<1> QED
  BY <1>1, <1>2 DEF Next

\* What a commit changes nothing else does.
LEMMA OthersOnlyRead ==
    ASSUME NEW w \in Worker, ~Commit(w),
           (\E m \in Mutation : Receive(w, m)) \/ Work(w) \/ Fail(w) \/ Finish(w)
    PROVE  UNCHANGED store
<1>1. CASE \E m \in Mutation : Receive(w, m)
  BY <1>1 DEF Receive
<1>2. CASE Lookup(w) \/ Dispatch(w) \/ Write(w)
  BY <1>2 DEF Lookup, Dispatch, Write
<1>3. CASE RecordResult(w) \/ ReadBack(w) \/ Fail(w) \/ Finish(w)
  BY <1>3 DEF RecordResult, ReadBack, Fail, Finish
<1> QED
  BY <1>1, <1>2, <1>3 DEF Work

-------------------------------------------------------------------------------

LEMMA StepInserts ==
    TypeOK /\ BusyWorkers /\ LocksExclude /\ InsertsAreNew /\ [Next]_vars => InsertsAreNew'
<1> SUFFICES ASSUME TypeOK, BusyWorkers, LocksExclude, InsertsAreNew, [Next]_vars
             PROVE  InsertsAreNew'
  OBVIOUS
<1>1. CASE UNCHANGED vars
  BY <1>1 DEF vars, InsertsAreNew, HoldsRow
<1>2. ASSUME NEW w \in Worker,
             (\E m \in Mutation : Receive(w, m)) \/ Work(w) \/ Fail(w) \/ Finish(w),
             NEW v \in Worker
      PROVE  /\ pc'[v] = "commit" => results'[job'[v].id] = None
             /\ job'[v] \in Mutation /\ job'[v].op = "create" /\ HoldsRow(v, job[v].entity)'
                  => row'[job'[v].entity].version = 0
  <2>1. Next
    BY <1>2 DEF Next
  <2>2. CASE v = w
    <3>1. pc'[w] = "commit" => results'[job'[w].id] = None
      BY <1>2, LockTaken DEF store
    <3>2. ASSUME job'[w] \in Mutation, job'[w].op = "create", HoldsRow(w, job[w].entity)'
          PROVE  row'[job'[w].entity].version = 0
      <4>0. PICK e \in Entity : e = job'[w].entity
        BY <3>2, EnvelopeFields
      <4>1. HoldsRow(w, e)'
        BY <3>2, <4>0 DEF HoldsRow
      <4>2. CASE HoldsRow(w, e) /\ job' = job /\ UNCHANGED store
        BY <3>2, <4>0, <4>2 DEF InsertsAreNew, store, HoldsRow
      <4>3. CASE Write(w) /\ job' = job /\ UNCHANGED store
        <5>1. pc'[w] # "readback"
          BY <4>1 DEF HoldsRow
        <5>2. ~(job[w].op = "create" /\ row[job[w].entity].version > 0)
          BY <4>3, <5>1 DEF Write, Goto, TypeOK
        <5>3. row[e].version \in Nat
          BY DEF TypeOK, Row
        <5> QED
          BY <3>2, <4>0, <4>3, <5>2, <5>3 DEF store
      <4> QED
        BY <1>2, <4>1, <4>2, <4>3, LockTaken
    <3> QED
      BY <2>2, <3>1, <3>2
  <2>3. CASE v # w /\ ~Commit(w)
    <3>1. pc'[v] = pc[v] /\ job'[v] = job[v] /\ outcome'[v] = outcome[v]
      BY <1>2, <2>3, OthersStand
    <3>2. UNCHANGED store
      BY <1>2, <2>3, OthersOnlyRead
    <3> QED
      BY <3>1, <3>2 DEF InsertsAreNew, HoldsRow, store
  <2>4. CASE v # w /\ Commit(w)
    <3>1. pc'[v] = pc[v] /\ job'[v] = job[v] /\ outcome'[v] = outcome[v]
      BY <1>2, <2>4, OthersStand
    <3>2. pc[w] = "commit" /\ job[w] \in Mutation
      BY <2>4 DEF Commit, BusyWorkers
    <3>3. pc[v] = "commit" => results'[job[v].id] = results[job[v].id]
      BY <2>4, <3>2 DEF LocksExclude, Commit, TypeOK
    <3>4. ASSUME job[v] \in Mutation, HoldsRow(v, job[v].entity)
          PROVE  row'[job[v].entity] = row[job[v].entity]
      BY <2>4, <3>2, <3>4, EnvelopeFields DEF LocksExclude, Commit, TypeOK, HoldsRow
    <3> QED
      BY <3>1, <3>3, <3>4 DEF InsertsAreNew, HoldsRow
  <2> QED
    BY <2>2, <2>3, <2>4
<1>3. CASE Next
  BY <1>2, <1>3 DEF Next, InsertsAreNew, HoldsRow
<1> QED
  BY <1>1, <1>3

\* What the committing worker knows of its mutation.
LEMMA CommitFacts ==
    ASSUME TypeOK, BusyWorkers, InsertsAreNew, NEW w \in Worker, Commit(w)
    PROVE  /\ job[w] \in Mutation /\ job[w].id \in MutationId
           /\ job[w].user \in User /\ job[w].entity \in Entity
           /\ outcome[w].result \in {"applied"} \cup Rejection
           /\ results[job[w].id] = None
           /\ results'[job[w].id] # None
           /\ results'[job[w].id].user = job[w].user
           /\ results'[job[w].id].result = outcome[w].result
           /\ results'[job[w].id].version = outcome[w].version
           /\ \A i \in MutationId \ {job[w].id} : results'[i] = results[i]
<1>1. job[w] \in Mutation /\ outcome[w].result \in {"applied"} \cup Rejection
      /\ results[job[w].id] = None /\ outcome[w].version \in Nat
  BY DEF Commit, BusyWorkers, InsertsAreNew, TypeOK, Outcome
<1>2. job[w].id \in MutationId /\ job[w].user \in User /\ job[w].entity \in Entity
  BY <1>1, EnvelopeFields
<1>3. [user |-> job[w].user, result |-> outcome[w].result, version |-> outcome[w].version]
        \in Record
  BY <1>1, <1>2 DEF Record
<1>4. results' = [results EXCEPT ![job[w].id] =
          [user |-> job[w].user, result |-> outcome[w].result, version |-> outcome[w].version]]
  BY DEF Commit
<1>5. results'[job[w].id] =
          [user |-> job[w].user, result |-> outcome[w].result, version |-> outcome[w].version]
  BY <1>2, <1>4 DEF TypeOK
<1>6. \A i \in MutationId \ {job[w].id} : results'[i] = results[i]
  BY <1>4 DEF TypeOK
<1> QED
  BY <1>1, <1>2, <1>3, <1>5, <1>6, NullAssumption

LEMMA StepChanges ==
    TypeOK /\ BusyWorkers /\ InsertsAreNew /\ EffectIffRecorded /\ [Next]_vars
    => EffectIffRecorded'
<1> SUFFICES ASSUME TypeOK, BusyWorkers, InsertsAreNew, EffectIffRecorded, [Next]_vars
             PROVE  EffectIffRecorded'
  OBVIOUS
<1>1. CASE UNCHANGED store
  BY <1>1 DEF store, EffectIffRecorded, Applied
<1>2. ASSUME NEW w \in Worker, Commit(w)
      PROVE  EffectIffRecorded'
  <2>0. PICK i \in MutationId : i = job[w].id
    BY <1>2, CommitFacts
  <2>1. /\ results[i] = None /\ results'[i] # None
        /\ results'[i].result = outcome[w].result
        /\ results'[i].version = outcome[w].version
        /\ \A j \in MutationId : j # i => results'[j] = results[j]
    BY <1>2, <2>0, CommitFacts
  <2>2. \A c \in changes : c.by \in MutationId /\ c.by # i
    <3> TAKE c \in changes
    <3>1. c \in Change /\ results[c.by] # None
      BY DEF EffectIffRecorded, Applied, TypeOK
    <3> QED
      BY <2>1, <3>1 DEF Change
  <2>3. \A c \in changes : Applied(c.by)' /\ c.version = results'[c.by].version
    BY <2>1, <2>2 DEF EffectIffRecorded, Applied
  <2>4. \A j \in MutationId : j # i => (Applied(j)' <=> Applied(j))
    BY <2>1 DEF Applied
  <2>5. CASE outcome[w].result = "applied"
    <3>0. /\ changes' = changes \cup {ChangeOf(w)}
          /\ ChangeOf(w).by = i /\ ChangeOf(w).version = outcome[w].version
      BY <1>2, <2>0, <2>5 DEF Commit, ChangeOf
    <3>1. PICK d : changes' = changes \cup {d} /\ d.by = i /\ d.version = outcome[w].version
      BY <3>0
    <3>2. Applied(i)' /\ d.version = results'[i].version
      BY <2>1, <2>5, <3>1 DEF Applied
    <3>3. \A c \in changes' : Applied(c.by)' /\ c.version = results'[c.by].version
      BY <2>3, <3>1, <3>2
    <3>4. \A c, k \in changes' : c.by = k.by => c = k
      BY <2>2, <3>1 DEF EffectIffRecorded
    <3>5. \A j \in MutationId : Applied(j)' => \E c \in changes' : c.by = j
      BY <2>4, <3>1 DEF EffectIffRecorded
    <3> QED
      BY <3>3, <3>4, <3>5 DEF EffectIffRecorded
  <2>6. CASE outcome[w].result # "applied"
    <3>1. changes' = changes /\ ~Applied(i)'
      BY <1>2, <2>1, <2>6 DEF Commit, Applied
    <3>2. \A j \in MutationId : Applied(j)' => \E c \in changes' : c.by = j
      BY <2>4, <3>1 DEF EffectIffRecorded
    <3> QED
      BY <2>3, <3>1, <3>2 DEF EffectIffRecorded
  <2> QED
    BY <2>5, <2>6
<1> QED
  BY <1>1, <1>2, OthersOnlyRead DEF Next, vars, store

\* An answer agrees with the record it was given from, and records stay.
LEMMA StepAnswers ==
    TypeOK /\ BusyWorkers /\ InsertsAreNew /\ AnsweredIsDurable /\ [Next]_vars
    => AnsweredIsDurable'
<1> SUFFICES ASSUME TypeOK, BusyWorkers, InsertsAreNew, AnsweredIsDurable, [Next]_vars
             PROVE  AnsweredIsDurable'
  OBVIOUS
<1> DEFINE Agrees(a, r) ==
        /\ r # None
        /\ a.user = r.user => a.result = r.result \/ (a.result = "duplicate" /\ r.result = "applied")
<1>1. CASE UNCHANGED <<results, answers>>
  BY <1>1 DEF AnsweredIsDurable
<1>2. ASSUME NEW w \in Worker, NEW o, Answer(w, o),
             \A i \in MutationId : results[i] # None => results'[i] = results[i],
             Agrees([id |-> job[w].id, user |-> job[w].user, result |-> o.result], results'[job[w].id])
      PROVE  AnsweredIsDurable'
  BY <1>2 DEF Answer, AnsweredIsDurable, TypeOK
<1>3. ASSUME NEW w \in Worker, Commit(w) PROVE AnsweredIsDurable'
  <2>1. Answer(w, outcome[w])
    BY <1>3 DEF Commit
  <2>2. \A i \in MutationId : results[i] # None => results'[i] = results[i]
    BY <1>3, CommitFacts
  <2>3. /\ results'[job[w].id] # None
        /\ results'[job[w].id].result = outcome[w].result
    BY <1>3, CommitFacts
  <2> QED
    BY <1>2, <2>1, <2>2, <2>3
<1>4. ASSUME NEW w \in Worker, Lookup(w) PROVE AnsweredIsDurable'
  <2> DEFINE r == results[job[w].id]
  <2>1. UNCHANGED results
    BY <1>4 DEF Lookup, store
  <2>2. CASE r = None
    BY <1>1, <1>4, <2>1, <2>2 DEF Lookup
  <2>3. CASE r # None /\ r.user # job[w].user
    BY <1>2, <1>4, <2>1, <2>3 DEF Lookup
  <2>4. CASE r # None /\ r.user = job[w].user
    BY <1>2, <1>4, <2>1, <2>4 DEF Lookup, Replay, Verdict
  <2> QED
    BY <2>2, <2>3, <2>4
<1>5. ASSUME NEW w \in Worker, ReadBack(w) PROVE AnsweredIsDurable'
  <2>1. UNCHANGED results
    BY <1>5 DEF ReadBack, store
  <2>2. CASE UNCHANGED answers
    BY <1>1, <2>1, <2>2
  <2>3. CASE results[job[w].id] # None /\ Answer(w, Replay(job[w].id))
    BY <1>2, <2>1, <2>3 DEF Replay, Verdict
  <2> QED
    BY <1>5, <2>2, <2>3 DEF ReadBack
<1>6. ASSUME NEW w \in Worker,
             \/ \E m \in Mutation : Receive(w, m)
             \/ Dispatch(w) \/ Write(w) \/ RecordResult(w) \/ Fail(w) \/ Finish(w)
      PROVE  AnsweredIsDurable'
  BY <1>1, <1>6 DEF Receive, Dispatch, Write, RecordResult, Fail, Finish, store
<1>7. CASE UNCHANGED vars
  BY <1>1, <1>7 DEF vars
<1> QED
  BY <1>3, <1>4, <1>5, <1>6, <1>7 DEF Next, Work

-------------------------------------------------------------------------------
(***************************************************************************)
(* Theorems                                                                *)
(***************************************************************************)

LEMMA InitInvariant == Init => IInv
<1> SUFFICES ASSUME Init PROVE IInv
  OBVIOUS
<1>1. TypeOK
  BY InitTypeOK
<1>2. BusyWorkers /\ LocksExclude /\ InsertsAreNew
  BY DEF Init, BusyWorkers, LocksExclude, InsertsAreNew, HoldsRow
<1>3. EffectIffRecorded /\ AnsweredIsDurable
  BY DEF Init, EffectIffRecorded, AnsweredIsDurable, Applied
<1> QED
  BY <1>1, <1>2, <1>3 DEF IInv

LEMMA NextInvariant == IInv /\ [Next]_vars => IInv'
BY StepTypeOK, StepLocks, StepInserts, StepChanges, StepAnswers DEF IInv

\* What a transaction relies on between its statements holds throughout.
THEOREM Invariant == Spec => []IInv
BY InitInvariant, NextInvariant, PTL DEF Spec

\* Type correctness.
THEOREM TypeCorrect == Spec => []TypeOK
<1>1. IInv => TypeOK
  BY DEF IInv
<1> QED
  BY <1>1, Invariant, PTL

\* However many workers handle however many copies of a mutation, it takes
\* effect at most once, and its effect commits together with its record.
THEOREM ExactlyOnce == Spec => []EffectIffRecorded
<1>1. IInv => EffectIffRecorded
  BY DEF IInv
<1> QED
  BY <1>1, Invariant, PTL

\* No answer runs ahead of the commit, or contradicts what is recorded.
THEOREM AnswersAreDurable == Spec => []AnsweredIsDurable
<1>1. IInv => AnsweredIsDurable
  BY DEF IInv
<1> QED
  BY <1>1, Invariant, PTL

\* A record of sync_mutations is never overwritten.
THEOREM ResultsAreFinal == Spec => FirstResultWins
<1>1. IInv /\ [Next]_vars =>
        [\A i \in MutationId : results[i] # None => results'[i] = results[i]]_vars
  <2> SUFFICES ASSUME IInv, Next
               PROVE  \A i \in MutationId : results[i] # None => results'[i] = results[i]
    BY DEF IInv
  <2>1. CASE UNCHANGED store
    BY <2>1 DEF store
  <2>2. ASSUME NEW w \in Worker, Commit(w)
        PROVE  \A i \in MutationId : results[i] # None => results'[i] = results[i]
    BY <2>2, CommitFacts DEF IInv
  <2> QED
    BY <2>1, <2>2, OthersOnlyRead DEF Next
<1> QED
  BY <1>1, Invariant, PTL DEF Spec, FirstResultWins

\* An update that read a row before its deletion does not bring it back, and
\* a creation never reuses the id of a deleted row.
THEOREM DeletionIsFinal == Spec => DeletedStaysDeleted
<1>1. IInv /\ [Next]_vars =>
        [\A e \in Entity : row[e].version > 0 /\ ~row[e].live => ~row'[e].live]_vars
  <2> SUFFICES ASSUME IInv, Next, NEW e \in Entity, row[e].version > 0, ~row[e].live
               PROVE  ~row'[e].live
    OBVIOUS
  <2>1. CASE UNCHANGED store
    BY <2>1 DEF store
  <2>2. ASSUME NEW w \in Worker, Commit(w) PROVE ~row'[e].live
    <3>1. CASE row'[e] = row[e]
      BY <3>1
    <3>2. CASE job[w].entity = e /\ outcome[w].result = "applied"
      <4>1. row'[e] = Written(w)
        BY <2>2, <3>2 DEF Commit, IInv, TypeOK
      <4>2. job[w].op # "create"
        <5>1. HoldsRow(w, e) /\ job[w] \in Mutation
          BY <2>2, <3>2 DEF Commit, HoldsRow, IInv, BusyWorkers
        <5>2. job[w].op = "create" => row[e].version = 0
          BY <3>2, <5>1 DEF IInv, InsertsAreNew
        <5> QED
          BY <5>2
      <4>3. Written(w).live = (row[e].live /\ job[w].op # "delete")
        BY <3>2, <4>2 DEF Written
      <4> QED
        BY <4>1, <4>3
    <3> QED
      BY <2>2, <3>1, <3>2 DEF Commit, IInv, TypeOK
  <2> QED
    BY <2>1, <2>2, OthersOnlyRead DEF Next
<1> QED
  BY <1>1, Invariant, PTL DEF Spec, DeletedStaysDeleted

\* Whatever a row holds, the change feed tells of it.
THEOREM FeedIsComplete == Spec => []RowsAreInFeed
<1>1. Init => RowsAreInFeed
  BY DEF Init, RowsAreInFeed, NoRow
<1>2. IInv /\ RowsAreInFeed /\ [Next]_vars => RowsAreInFeed'
  <2> SUFFICES ASSUME IInv, RowsAreInFeed, [Next]_vars PROVE RowsAreInFeed'
    OBVIOUS
  <2>1. CASE UNCHANGED store
    BY <2>1 DEF store, RowsAreInFeed
  <2>2. ASSUME NEW w \in Worker, Commit(w), NEW e \in Entity, row'[e].version > 0
        PROVE  \E c \in changes' : c.entity = e /\ c.version = row'[e].version /\ c.by = row'[e].by
    <3>1. CASE row'[e] = row[e]
      <4>1. changes \subseteq changes'
        BY <2>2 DEF Commit
      <4> QED
        BY <2>2, <3>1, <4>1 DEF RowsAreInFeed
    <3>2. CASE job[w].entity = e /\ outcome[w].result = "applied"
      <4>1. row'[e] = Written(w) /\ ChangeOf(w) \in changes'
        BY <2>2, <3>2 DEF Commit, IInv, TypeOK
      <4>2. Written(w).version = outcome[w].version /\ Written(w).by = job[w].id
        BY DEF Written
      <4>3. ChangeOf(w).entity = e /\ ChangeOf(w).version = outcome[w].version
            /\ ChangeOf(w).by = job[w].id
        BY <3>2 DEF ChangeOf
      <4> QED
        BY <4>1, <4>2, <4>3
    <3> QED
      BY <2>2, <3>1, <3>2 DEF Commit, IInv, TypeOK
  <2> QED
    BY <2>1, <2>2, OthersOnlyRead DEF Next, vars, store, RowsAreInFeed
<1> QED
  BY <1>1, <1>2, Invariant, PTL DEF Spec

-------------------------------------------------------------------------------
(***************************************************************************)
(* The write path keeps its promise                                        *)
(***************************************************************************)

\* The refinement mapping, by name.
Fates == [i \in MutationId |-> IF results[i] = None THEN "open" ELSE results[i].result]
Effects == {c.by : c \in changes}
Told == {<<a.id, FateTold(a)>> : a \in OwnAnswers}

\* One more answer tells one more fate.
LEMMA ToldByOneMore ==
    ASSUME NEW S, NEW a
    PROVE  {<<b.id, FateTold(b)>> : b \in S \cup {a}}
             = {<<b.id, FateTold(b)>> : b \in S} \cup {<<a.id, FateTold(a)>>}
OBVIOUS

\* An answer that repeats what is recorded is the promise's Repeat; one that
\* is given to a user who does not own the mutation tells it nothing.
LEMMA AnswerRepeats ==
    ASSUME IInv, NEW w \in Worker, NEW o, Answer(w, o), UNCHANGED store,
           NEW i \in MutationId, i = job[w].id, results[i] # None,
           job[w].user = results[i].user =>
              \/ o.result = results[i].result /\ o.result # "duplicate"
              \/ o.result = "duplicate" /\ results[i].result = "applied"
    PROVE  Promise!Repeat(i) \/ UNCHANGED <<Fates, Effects, Told>>
<1> DEFINE a == [id |-> i, user |-> job[w].user, result |-> o.result]
<1>1. answers' = answers \cup {a} /\ results' = results /\ changes' = changes
  BY DEF Answer, store
<1>2. Fates' = Fates /\ Effects' = Effects
  BY <1>1 DEF Fates, Effects
<1>3. CASE job[w].user = results[i].user
  <2>1. OwnAnswers' = OwnAnswers \cup {a}
    BY <1>1, <1>3 DEF OwnAnswers
  <2>2. FateTold(a) = results[i].result
    BY <1>3 DEF FateTold
  <2>3. Told' = Told \cup {<<i, results[i].result>>}
    <3>1. Told' = {<<b.id, FateTold(b)>> : b \in OwnAnswers \cup {a}}
      BY <2>1 DEF Told, FateTold
    <3>2. Told' = Told \cup {<<a.id, FateTold(a)>>}
      BY <3>1, ToldByOneMore, ZenonT(60) DEF Told
    <3> QED
      BY <2>2, <3>2
  <2>4. Fates[i] = results[i].result
    BY DEF Fates
  <2>5. results[i].result \in {"applied", "rejected_conflict", "rejected_invalid"}
    <3>1. results[i] \in Record
      BY DEF IInv, TypeOK
    <3> QED
      BY <3>1 DEF Record, Rejection
  <2> QED
    BY <1>2, <2>3, <2>4, <2>5 DEF Promise!Repeat, Fates, Effects, Told
<1>4. CASE job[w].user # results[i].user
  <2>1. OwnAnswers' = OwnAnswers
    BY <1>1, <1>4 DEF OwnAnswers
  <2> QED
    BY <1>2, <2>1 DEF Told, FateTold
<1> QED
  BY <1>3, <1>4

\* The commit is the promise's Decide.
LEMMA CommitDecides ==
    ASSUME IInv, NEW w \in Worker, Commit(w)
    PROVE  \E i \in MutationId, f \in Promise!Fate \ {"open"} : Promise!Decide(i, f)
<1>0. PICK i \in MutationId : i = job[w].id
  BY CommitFacts DEF IInv
<1>f. PICK f \in {"applied", "rejected_conflict", "rejected_invalid"} : f = outcome[w].result
  BY CommitFacts DEF IInv, Rejection
<1> DEFINE a == [id |-> i, user |-> job[w].user, result |-> f]
<1>1. /\ results[i] = None /\ results'[i] # None
      /\ results'[i].user = job[w].user /\ results'[i].result = f
      /\ \A j \in MutationId : j # i => results'[j] = results[j]
  BY <1>0, <1>f, CommitFacts DEF IInv
<1>2. answers' = answers \cup {a}
  BY <1>0, <1>f DEF Commit, Answer
<1>3. Fates[i] = "open" /\ Fates' = [Fates EXCEPT ![i] = f]
  BY <1>1 DEF Fates
<1>4. Effects' = IF f = "applied" THEN Effects \cup {i} ELSE Effects
  <2>1. ChangeOf(w).by = i
    BY <1>0 DEF ChangeOf
  <2>2. changes' = IF f = "applied" THEN changes \cup {ChangeOf(w)} ELSE changes
    BY <1>f DEF Commit
  <2> QED
    BY <2>1, <2>2 DEF Effects
<1>5. Told' = Told \cup {<<i, f>>}
  <2>1. \A b \in answers : b.id \in MutationId /\ b.id # i
    <3> TAKE b \in answers
    <3>1. results[b.id] # None
      BY DEF IInv, AnsweredIsDurable
    <3> QED
      BY <1>1, <3>1 DEF IInv, TypeOK
  <2>2. \A b \in answers : b \in OwnAnswers' <=> b \in OwnAnswers
    BY <1>1, <1>2, <2>1 DEF OwnAnswers
  <2>3. a \in OwnAnswers' /\ FateTold(a) = f
    BY <1>1, <1>2 DEF OwnAnswers, FateTold
  <2>4. OwnAnswers' = OwnAnswers \cup {a}
    BY <1>2, <2>2, <2>3 DEF OwnAnswers
  <2>5. Told' = {<<b.id, FateTold(b)>> : b \in OwnAnswers \cup {a}}
    BY <2>4 DEF Told, FateTold
  <2>6. Told' = Told \cup {<<a.id, FateTold(a)>>}
    BY <2>5, ToldByOneMore DEF Told
  <2> QED
    BY <2>3, <2>6
<1>6. Promise!Decide(i, f)
  BY <1>3, <1>4, <1>5 DEF Promise!Decide, Fates, Effects, Told
<1>7. f \in Promise!Fate \ {"open"}
  BY DEF Promise!Fate
<1> QED
  BY <1>6, <1>7

\* Every other step repeats a decision or is invisible.
LEMMA OthersRepeat ==
    ASSUME IInv, [Next]_vars, \A w \in Worker : ~Commit(w)
    PROVE  (\E i \in MutationId : Promise!Repeat(i)) \/ UNCHANGED <<Fates, Effects, Told>>
<1>1. CASE UNCHANGED <<store, answers>>
  BY <1>1 DEF store, Fates, Effects, Told, OwnAnswers, FateTold
<1>2. ASSUME NEW w \in Worker, Lookup(w), results[job[w].id] # None
      PROVE  (\E i \in MutationId : Promise!Repeat(i)) \/ UNCHANGED <<Fates, Effects, Told>>
  <2>1. PICK i \in MutationId : i = job[w].id
    BY <1>2, EnvelopeFields DEF Lookup, IInv, BusyWorkers
  <2>2. UNCHANGED store
    BY <1>2 DEF Lookup
  <2>3. CASE results[i].user # job[w].user
    BY <1>2, <2>1, <2>2, <2>3, AnswerRepeats DEF Lookup
  <2>4. CASE results[i].user = job[w].user
    <3>1. Answer(w, Replay(i))
      BY <1>2, <2>1, <2>4 DEF Lookup
    <3>2. \/ Replay(i).result = results[i].result /\ Replay(i).result # "duplicate"
          \/ Replay(i).result = "duplicate" /\ results[i].result = "applied"
      BY <1>2, <2>1, ReplayFaithful DEF IInv
    <3> QED
      BY <1>2, <2>1, <2>2, <3>1, <3>2, AnswerRepeats
  <2> QED
    BY <2>3, <2>4
<1>3. ASSUME NEW w \in Worker, ReadBack(w), results[job[w].id] # None, Answer(w, Replay(job[w].id))
      PROVE  (\E i \in MutationId : Promise!Repeat(i)) \/ UNCHANGED <<Fates, Effects, Told>>
  <2>1. PICK i \in MutationId : i = job[w].id
    BY <1>3, EnvelopeFields DEF ReadBack, IInv, BusyWorkers
  <2>2. UNCHANGED store /\ Answer(w, Replay(i))
    BY <1>3, <2>1 DEF ReadBack
  <2>3. \/ Replay(i).result = results[i].result /\ Replay(i).result # "duplicate"
        \/ Replay(i).result = "duplicate" /\ results[i].result = "applied"
    BY <1>3, <2>1, ReplayFaithful DEF IInv
  <2> QED
    BY <1>3, <2>1, <2>2, <2>3, AnswerRepeats
<1>4. CASE \E w \in Worker : Lookup(w) /\ results[job[w].id] = None
  BY <1>1, <1>4 DEF Lookup
<1>5. CASE \E w \in Worker : ReadBack(w) /\ UNCHANGED answers
  BY <1>1, <1>5 DEF ReadBack
<1>6. CASE \E w \in Worker :
             \/ \E m \in Mutation : Receive(w, m)
             \/ Dispatch(w) \/ Write(w) \/ RecordResult(w) \/ Fail(w) \/ Finish(w)
  BY <1>1, <1>6 DEF Receive, Dispatch, Write, RecordResult, Fail, Finish
<1>7. CASE UNCHANGED vars
  BY <1>1, <1>7 DEF vars, store
<1> QED
  <2>1. \A w \in Worker :
          ReadBack(w) => \/ UNCHANGED answers
                         \/ results[job[w].id] # None /\ Answer(w, Replay(job[w].id))
    BY DEF ReadBack
  <2> QED
    BY <1>2, <1>3, <1>4, <1>5, <1>6, <1>7, <2>1 DEF Next, Work

\* The concurrent write path implements its promise: whatever the workers
\* interleave and however often a mutation is sent, its fate is decided once,
\* in one step with its effect, and its owner is told nothing else.
THEOREM ServiceKeepsPromise == Spec => ImplementsPromise
<1>1. Init => Promise!Init
  BY DEF Init, Promise!Init, OwnAnswers, FateTold
<1>2. IInv /\ [Next]_vars => [Promise!Next]_<<Fates, Effects, Told>>
  <2> SUFFICES ASSUME IInv, [Next]_vars
               PROVE  Promise!Next \/ UNCHANGED <<Fates, Effects, Told>>
    OBVIOUS
  <2>1. CASE \E w \in Worker : Commit(w)
    BY <2>1, CommitDecides DEF Promise!Next
  <2>2. CASE \A w \in Worker : ~Commit(w)
    BY <2>2, OthersRepeat DEF Promise!Next
  <2> QED
    BY <2>1, <2>2
<1>3. IInv /\ [Next]_vars =>
        [Promise!Next]_<<[i \in MutationId |-> IF results[i] = None THEN "open" ELSE results[i].result],
                         {c.by : c \in changes}, {<<a.id, FateTold(a)>> : a \in OwnAnswers}>>
  BY <1>2 DEF Fates, Effects, Told
<1> QED
  BY <1>1, <1>3, Invariant, PTL DEF Spec, ImplementsPromise, Promise!Spec

-------------------------------------------------------------------------------
(***************************************************************************)
(* Versions count changes, unless a writer was overtaken                   *)
(***************************************************************************)

\* The version a transaction writes follows the one it read, and the number it
\* drew for the feed is later than those of the row's committed changes.
StampsAreNew ==
    /\ \A c \in changes : c.seq < nextSeq
    /\ \A w \in Worker : \A e \in Entity : HoldsRow(w, e) =>
        /\ outcome[w].version = IF job[w].op = "create" THEN 1 ELSE seen[w].version + 1
        /\ pc[w] = "commit" =>
              stamp[w] < nextSeq /\ \A c \in changes : c.entity = e => c.seq < stamp[w]

LEMMA StepStamps == IInv /\ StampsAreNew /\ [Next]_vars => StampsAreNew'
<1> SUFFICES ASSUME IInv, StampsAreNew, [Next]_vars PROVE StampsAreNew'
  OBVIOUS
<1> USE DEF Goto, Conclude, store
<1>1. CASE UNCHANGED vars
  BY <1>1 DEF vars, StampsAreNew, HoldsRow
<1>2. ASSUME NEW w \in Worker,
             (\E m \in Mutation : Receive(w, m)) \/ Lookup(w) \/ Dispatch(w)
               \/ ReadBack(w) \/ Fail(w) \/ Finish(w)
      PROVE  StampsAreNew'
  <2>1. /\ UNCHANGED <<changes, nextSeq>>
        /\ \A v \in Worker \ {w} : /\ pc'[v] = pc[v] /\ job'[v] = job[v]
                                  /\ outcome'[v] = outcome[v]
                                  /\ stamp'[v] = stamp[v] /\ seen'[v] = seen[v]
    BY <1>2 DEF Receive, Lookup, Dispatch, ReadBack, Fail, Finish, Answer, IInv, TypeOK
  <2>2. \A e \in Entity : ~HoldsRow(w, e)'
    BY <1>2 DEF Receive, Lookup, Dispatch, ReadBack, Fail, Finish, Answer, IInv, TypeOK,
                HoldsRow, Verdict
  <2> QED
    BY <2>1, <2>2 DEF StampsAreNew, HoldsRow
<1>3. ASSUME NEW w \in Worker, Write(w) PROVE StampsAreNew'
  <2>1. /\ UNCHANGED <<changes, nextSeq, stamp, seen, job>>
        /\ \A v \in Worker \ {w} : pc'[v] = pc[v] /\ outcome'[v] = outcome[v]
    BY <1>3 DEF Write, IInv, TypeOK
  <2>2. pc'[w] = "record" =>
          outcome'[w].version = IF job[w].op = "create" THEN 1 ELSE seen[w].version + 1
    BY <1>3 DEF Write, IInv, TypeOK, Verdict
  <2>3. pc'[w] # "commit"
    BY <1>3 DEF Write, IInv, TypeOK
  <2> QED
    BY <2>1, <2>2, <2>3 DEF StampsAreNew, HoldsRow
<1>4. ASSUME NEW w \in Worker, RecordResult(w) PROVE StampsAreNew'
  <2>1. /\ UNCHANGED <<changes, outcome, seen, job>> /\ pc[w] = "record"
        /\ nextSeq' \in {nextSeq, nextSeq + 1} /\ nextSeq \in Nat
        /\ \A v \in Worker \ {w} : pc'[v] = pc[v] /\ stamp'[v] = stamp[v]
    BY <1>4 DEF RecordResult, IInv, TypeOK
  <2>2. pc'[w] = "commit" /\ outcome[w].result = "applied" =>
          stamp'[w] = nextSeq /\ nextSeq' = nextSeq + 1
    BY <1>4 DEF RecordResult, IInv, TypeOK
  <2>3. /\ \A c \in changes : c.seq \in Nat
        /\ \A v \in Worker : stamp[v] \in Nat
    BY DEF IInv, TypeOK, Change
  <2>4. \A c \in changes' : c.seq < nextSeq'
    BY <2>1, <2>3 DEF StampsAreNew
  <2>5. ASSUME NEW v \in Worker, NEW e \in Entity, HoldsRow(v, e)'
        PROVE  /\ outcome'[v].version = IF job'[v].op = "create" THEN 1 ELSE seen'[v].version + 1
               /\ pc'[v] = "commit" =>
                    stamp'[v] < nextSeq' /\ \A c \in changes' : c.entity = e => c.seq < stamp'[v]
    <3>1. HoldsRow(v, e)
      BY <2>1, <2>5 DEF HoldsRow
    <3>2. CASE v = w
      BY <2>1, <2>2, <2>3, <3>1, <3>2 DEF StampsAreNew, HoldsRow
    <3>3. CASE v # w
      BY <2>1, <2>3, <3>1, <3>3 DEF StampsAreNew
    <3> QED
      BY <3>2, <3>3
  <2> QED
    BY <2>4, <2>5 DEF StampsAreNew
<1>5. ASSUME NEW w \in Worker, Commit(w) PROVE StampsAreNew'
  <2>1. /\ UNCHANGED <<nextSeq, stamp, seen, job>> /\ pc'[w] = "reply" /\ pc[w] = "commit"
        /\ \A v \in Worker \ {w} : pc'[v] = pc[v] /\ outcome'[v] = outcome[v]
    BY <1>5 DEF Commit, Answer, IInv, TypeOK
  <2>2. CASE outcome[w].result # "applied"
    <3>1. changes' = changes
      BY <1>5, <2>2 DEF Commit
    <3> QED
      BY <2>1, <3>1 DEF StampsAreNew, HoldsRow
  <2>3. CASE outcome[w].result = "applied"
    <3>1. PICK e \in Entity : e = job[w].entity
      BY <1>5, CommitFacts DEF IInv
    <3>2. changes' = changes \cup {ChangeOf(w)} /\ HoldsRow(w, e)
      BY <1>5, <2>1, <2>3, <3>1 DEF Commit, HoldsRow
    <3>3. ChangeOf(w).seq = stamp[w] /\ ChangeOf(w).entity = e
      BY <3>1 DEF ChangeOf
    <3>4. \A c \in changes' : c.seq < nextSeq'
      BY <2>1, <3>2, <3>3 DEF StampsAreNew
    <3>5. \A v \in Worker \ {w} : ~HoldsRow(v, e)
      BY <3>2 DEF IInv, LocksExclude
    <3> QED
      BY <2>1, <3>2, <3>3, <3>4, <3>5 DEF StampsAreNew, HoldsRow
  <2> QED
    BY <2>2, <2>3
<1> QED
  BY <1>1, <1>2, <1>3, <1>4, <1>5 DEF Next, Work

\* The versions and the feed positions of one row's changes agree.
InStep(e) ==
    /\ \A c \in changes : c.entity = e => c.version \in 1 .. row[e].version
    /\ \A n \in 1 .. row[e].version : \E c \in changes : c.entity = e /\ c.version = n
    /\ \A c, d \in changes :
          c.entity = e /\ d.entity = e => (c.seq < d.seq <=> c.version < d.version)

LEMMA InStepMeans == VersionsCountChanges <=> raced \/ \A e \in Entity : InStep(e)
<1>1. ASSUME NEW e \in Entity
      PROVE  InStep(e) <=>
               LET log == {c \in changes : c.entity = e} IN
               /\ {c.version : c \in log} = 1 .. row[e].version
               /\ \A c, d \in log : c.seq < d.seq <=> c.version < d.version
  BY DEF InStep
<1> QED
  BY <1>1 DEF VersionsCountChanges

\* A commit that was not overtaken appends the next version to its row's log.
LEMMA CommitInStep ==
    ASSUME IInv, StampsAreNew, \A e \in Entity : InStep(e),
           NEW w \in Worker, Commit(w), ~raced', NEW e \in Entity
    PROVE  InStep(e)'
<1> DEFINE m == job[w]
<1>1. CASE ~(outcome[w].result = "applied" /\ m.entity = e)
  <2>1. row'[e] = row[e]
    BY <1>1 DEF Commit, IInv, TypeOK
  <2>2. \A c \in changes' : c.entity = e => c \in changes
    BY <1>1 DEF Commit, ChangeOf
  <2>3. changes \subseteq changes'
    BY DEF Commit
  <2> QED
    BY <2>1, <2>2, <2>3 DEF InStep
<1>2. CASE outcome[w].result = "applied" /\ m.entity = e
  <2>1. /\ changes' = changes \cup {ChangeOf(w)} /\ row'[e] = Written(w)
        /\ HoldsRow(w, e) /\ pc[w] = "commit" /\ m \in Mutation
    BY <1>2 DEF Commit, HoldsRow, IInv, TypeOK, BusyWorkers
  <2>2. Written(w).version = outcome[w].version
    BY DEF Written
  <2>3. row[e].version \in Nat
    BY DEF IInv, TypeOK, Row
  <2>4. outcome[w].version = row[e].version + 1
    <3>1. CASE m.op = "create"
      <4>1. row[e].version = 0
        BY <1>2, <2>1, <3>1 DEF IInv, InsertsAreNew
      <4> QED
        BY <2>1, <3>1, <4>1 DEF StampsAreNew
    <3>2. CASE m.op # "create"
      <4>1. seen[w] = row[e]
        BY <1>2, <3>2 DEF Commit
      <4> QED
        BY <2>1, <3>2, <4>1 DEF StampsAreNew
    <3> QED
      BY <3>1, <3>2
  <2>5. PICK d : d = ChangeOf(w)
    OBVIOUS
  <2>6. d.seq = stamp[w] /\ d.entity = e /\ d.version = row[e].version + 1
    BY <1>2, <2>4, <2>5 DEF ChangeOf
  <2>7. /\ \A c \in changes : c.seq \in Nat /\ c.version \in Nat
        /\ \A c \in changes : c.entity = e => c.seq < d.seq /\ c.version < d.version
        /\ d.seq \in Nat
    <3>1. stamp[w] \in Nat /\ \A c \in changes : c.seq \in Nat /\ c.version \in Nat
      BY DEF IInv, TypeOK, Change
    <3>2. \A c \in changes : c.entity = e => c.seq < d.seq
      BY <2>1, <2>6 DEF StampsAreNew
    <3>3. \A c \in changes : c.entity = e => c.version < d.version
      BY <2>3, <2>6 DEF InStep
    <3> QED
      BY <2>6, <3>1, <3>2, <3>3
  <2>8. changes' = changes \cup {d} /\ row'[e].version = row[e].version + 1
    BY <2>1, <2>2, <2>4, <2>5
  <2>9. \A c \in changes' : c.entity = e => c.version \in 1 .. row'[e].version
    BY <2>3, <2>6, <2>8 DEF InStep
  <2>10. \A n \in 1 .. row'[e].version : \E c \in changes' : c.entity = e /\ c.version = n
    <3> TAKE n \in 1 .. row'[e].version
    <3>1. CASE n = row[e].version + 1
      BY <2>6, <2>8, <3>1
    <3>2. CASE n # row[e].version + 1
      <4>1. n \in 1 .. row[e].version
        BY <2>3, <2>8, <3>2
      <4> QED
        BY <2>8, <4>1 DEF InStep
    <3> QED
      BY <3>1, <3>2
  <2>11. \A c, k \in changes' :
           c.entity = e /\ k.entity = e => (c.seq < k.seq <=> c.version < k.version)
    <3> TAKE c, k \in changes'
    <3>1. CASE c \in changes /\ k \in changes
      BY <3>1 DEF InStep
    <3>2. CASE c = d \/ k = d
      BY <2>3, <2>6, <2>7, <2>8, <3>2
    <3> QED
      BY <2>8, <3>1, <3>2
  <2> QED
    BY <2>9, <2>10, <2>11 DEF InStep
<1> QED
  BY <1>1, <1>2

\* As long as no writer was overtaken between reading a row and writing it,
\* the versions of a row count its changes without a gap or a repetition, and
\* the feed lists them in the order they were applied.
THEOREM VersionsCount == Spec => []VersionsCountChanges
<1>0. (VersionsCountChanges <=> raced \/ \A e \in Entity : InStep(e))'
  BY InStepMeans, PTL
<1>1. Init => StampsAreNew /\ VersionsCountChanges
  BY DEF Init, StampsAreNew, VersionsCountChanges, HoldsRow, NoRow
<1>2. IInv /\ StampsAreNew /\ VersionsCountChanges /\ [Next]_vars => VersionsCountChanges'
  <2> SUFFICES ASSUME IInv, StampsAreNew, VersionsCountChanges, [Next]_vars, ~raced'
               PROVE  \A e \in Entity : InStep(e)'
    BY <1>0
  <2>1. CASE UNCHANGED <<store, raced>>
    BY <2>1, InStepMeans DEF store, InStep
  <2>2. ASSUME NEW w \in Worker, Commit(w) PROVE \A e \in Entity : InStep(e)'
    <3>1. ~raced
      BY <2>2 DEF Commit
    <3> QED
      BY <2>2, <3>1, InStepMeans, CommitInStep
  <2>3. ASSUME NEW w \in Worker, ~Commit(w),
               (\E m \in Mutation : Receive(w, m)) \/ Work(w) \/ Fail(w) \/ Finish(w)
        PROVE  UNCHANGED <<store, raced>>
    <3>1. UNCHANGED store
      BY <2>3, OthersOnlyRead
    <3>2. UNCHANGED raced
      BY <2>3 DEF Receive, Work, Lookup, Dispatch, Write, RecordResult, ReadBack, Fail, Finish
    <3> QED
      BY <3>1, <3>2
  <2> QED
    BY <2>1, <2>2, <2>3 DEF Next, vars, store
<1> QED
  BY <1>1, <1>2, Invariant, StepStamps, PTL DEF Spec

===============================================================================
