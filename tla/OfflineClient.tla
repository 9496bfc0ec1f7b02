----------------------------- MODULE OfflineClient -----------------------------
(***************************************************************************)
(* The offline write queue of one device: the IndexedDB stores outbox,     *)
(* conflicts and drafts (apps/web/src/offline.ts), the pure transitions    *)
(* over them (packages/sync/src/outbox.ts) and the loop that sends the     *)
(* outbox (apps/web/src/api.ts).                                           *)
(*                                                                         *)
(* The stores belong to the device; every open page runs its own user      *)
(* flow and its own sync loop over them.  readQueue and writeQueue are     *)
(* two IndexedDB transactions, and writeQueue replaces all three stores    *)
(* by what its flow computed from its copy: whatever another flow stored   *)
(* between the two is overwritten.                                         *)
(*                                                                         *)
(* What the server makes of a request is left to the module that composes  *)
(* this one with it: Answered and GiveUp take what comes back.             *)
(***************************************************************************)
EXTENDS Naturals, FiniteSets

CONSTANTS
    Page,          \* open pages of the web app
    Entity,
    Task,          \* what the user does: a subset of AllTasks
    None,
    MaxMutations,  \* bound: mutation ids drawn
    MaxClock,      \* bound: the wall clock, in ticks
    ClockStepsBack \* whether the wall clock may be set back

AllTasks == {"mutate", "keep_local", "keep_server", "discard"}

ASSUME TaskAssumption == Task \subseteq AllTasks
ASSUME BoundAssumption ==
    MaxMutations \in Nat /\ MaxClock \in Nat \ {0} /\ ClockStepsBack \in BOOLEAN

\* Ids are UUIDv7, drawn in increasing order.
MutationId == 1 .. MaxMutations

\* A queued mutation: what the queue looks at, clientAt being `at'.
Item == [id : MutationId, entity : Entity, at : 1 .. MaxClock]

\* snapshot tells whether the stored conflict carries the server's row.
Conflict == [item : Item, snapshot : BOOLEAN]
\* blockedBy = None is a mutation that was itself refused.
Draft == [item : Item, blockedBy : MutationId \cup {None}]

Queue == [outbox : SUBSET Item, conflicts : SUBSET Conflict, drafts : SUBSET Draft]
EmptyQueue == [outbox |-> {}, conflicts |-> {}, drafts |-> {}]

\* MutationResponse, for the mutation `id'.
Result == {"applied", "duplicate", "rejected_conflict", "rejected_invalid"}
Response == [id : MutationId, result : Result, snapshot : BOOLEAN]

-------------------------------------------------------------------------------
(***************************************************************************)
(* The transitions of the queue                                            *)
(***************************************************************************)

\* readQueue sorts by clientAt and, because the sort is stable over getAll,
\* by id where the clock did not move.
Before(i, j) == i.at < j.at \/ (i.at = j.at /\ i.id < j.id)

\* Mutant: any item of the outbox may be sent.
AnyIsHead(q, i) == i \in q.outbox

IsHead(q, i) == i \in q.outbox /\ \A j \in q.outbox \ {i} : Before(i, j)

Held(q) == {i.id : i \in q.outbox} \cup {c.item.id : c \in q.conflicts}
             \cup {d.item.id : d \in q.drafts}

\* A response for an item that is queued behind another one throws.
OutOfOrder(q, r) == \E i \in q.outbox : i.id = r.id /\ ~IsHead(q, i)

\* Mutant: a refusal concerns the refused item only.
NoDependents(q, i) == {}

\* The mutations of the same record that a refused item takes with it.
Dependents(q, i) == {j \in q.outbox \ {i} : j.entity = i.entity}

\* Mutants: a conflict stays in the outbox; a refusal removes the dependents
\* without keeping them as drafts.
ConflictStaysQueued(q, r) ==
    IF r.result # "rejected_conflict" \/ \A i \in q.outbox : i.id # r.id
    THEN [q EXCEPT !.outbox = {i \in @ : i.id # r.id}]
    ELSE LET head == CHOOSE i \in q.outbox : i.id = r.id
         IN  [q EXCEPT !.conflicts = @ \cup {[item |-> head, snapshot |-> r.snapshot]}]
RefusalDropsDependents(q, r) ==
    IF \A i \in q.outbox : i.id # r.id THEN q
    ELSE LET head == CHOOSE i \in q.outbox : i.id = r.id
             rest == q.outbox \ {head}
         IN  [q EXCEPT !.outbox = IF r.result = "rejected_invalid" THEN rest \ Dependents(q, head) ELSE rest,
                       !.drafts = IF r.result = "rejected_invalid" THEN @ \cup {[item |-> head, blockedBy |-> None]} ELSE @,
                       !.conflicts = IF r.result = "rejected_conflict"
                                     THEN @ \cup {[item |-> head, snapshot |-> r.snapshot]} ELSE @]

\* applyMutationResponse
ApplyResponse(q, r) ==
    IF \A i \in q.outbox : i.id # r.id THEN q
    ELSE LET head == CHOOSE i \in q.outbox : i.id = r.id
             rest == q.outbox \ {head}
         IN  IF r.result \in {"applied", "duplicate"} THEN [q EXCEPT !.outbox = rest]
             ELSE IF r.result = "rejected_conflict"
             THEN [q EXCEPT !.outbox = rest,
                            !.conflicts = @ \cup {[item |-> head, snapshot |-> r.snapshot]}]
             ELSE [q EXCEPT
                     !.outbox = rest \ Dependents(q, head),
                     !.drafts = @ \cup {[item |-> head, blockedBy |-> None]}
                                  \cup {[item |-> j, blockedBy |-> head.id] : j \in Dependents(q, head)}]

-------------------------------------------------------------------------------

VARIABLES
    queue,     \* what IndexedDB holds
    issued,    \* mutation ids drawn so far
    clock,     \* the wall clock
    uiStep,    \* the user flow of each page: idle, read, write, kick
    uiTask,    \* what it is doing
    uiCopy,    \* the queue it read
    syncStep,  \* the sync loop of each page: idle, head, sent, read, write, feed
    syncId,    \* the mutation it sent
    response,  \* the response it handles
    syncCopy,  \* the queue it read
    wanted,    \* a further run is chained behind the current one
    timer      \* the retry timer is set

uiVars == <<uiStep, uiTask, uiCopy>>
syncVars == <<syncStep, syncId, response, syncCopy>>
clientVars == <<queue, issued, clock, uiVars, syncVars, wanted, timer>>

NoTask == [kind |-> "none"]
TaskRecord ==
    {NoTask} \cup [kind : {"mutate"}, item : Item]
      \cup [kind : {"discard", "keep_server"}, id : MutationId]
      \cup [kind : {"keep_local"}, id : MutationId, newId : MutationId]

Init ==
    /\ queue = EmptyQueue
    /\ issued = 0
    /\ clock = 1
    /\ uiStep = [p \in Page |-> "idle"]
    /\ uiTask = [p \in Page |-> NoTask]
    /\ uiCopy = [p \in Page |-> EmptyQueue]
    /\ syncStep = [p \in Page |-> "idle"]
    /\ syncId = [p \in Page |-> None]
    /\ response = [p \in Page |-> None]
    /\ syncCopy = [p \in Page |-> EmptyQueue]
    /\ wanted = [p \in Page |-> FALSE]
    /\ timer = [p \in Page |-> FALSE]

\* new Date(): the clock has moved on by some ticks since it was last read.
ReadClock(t) ==
    /\ t \in 1 .. MaxClock
    /\ ClockStepsBack \/ t >= clock
    /\ clock' = t

-------------------------------------------------------------------------------
(***************************************************************************)
(* The user flow: mutate, resolveConflict, discardDraft                    *)
(***************************************************************************)

Begin(p, task) ==
    /\ uiStep[p] = "idle"
    /\ task.kind \in Task
    /\ uiStep' = [uiStep EXCEPT ![p] = "read"]
    /\ uiTask' = [uiTask EXCEPT ![p] = task]
    /\ UNCHANGED <<queue, uiCopy, syncVars, wanted, timer>>

\* mutate draws the id and the time before queueMutation touches a store.
Mutate(p, e, t) ==
    /\ issued < MaxMutations
    /\ issued' = issued + 1
    /\ ReadClock(t)
    /\ Begin(p, [kind |-> "mutate", item |-> [id |-> issued + 1, entity |-> e, at |-> t]])

\* The user chooses the server's side of a conflict, or the device's own,
\* which is sent again as a new mutation.
KeepServer(p, c) == Begin(p, [kind |-> "keep_server", id |-> c.item.id]) /\ UNCHANGED <<issued, clock>>
KeepLocal(p, c) ==
    /\ issued < MaxMutations
    /\ issued' = issued + 1
    /\ Begin(p, [kind |-> "keep_local", id |-> c.item.id, newId |-> issued + 1])
    /\ UNCHANGED clock

Discard(p, d) == Begin(p, [kind |-> "discard", id |-> d.item.id]) /\ UNCHANGED <<issued, clock>>

\* Mutant: the flow ends and its task is still set.
UiLeaveBusy(p, step) ==
    uiStep' = [uiStep EXCEPT ![p] = step] /\ UNCHANGED <<uiTask, uiCopy>>

\* The flow leaves its copy behind when it has used it.
UiLeave(p, step) ==
    /\ uiStep' = [uiStep EXCEPT ![p] = step]
    /\ uiTask' = [uiTask EXCEPT ![p] = NoTask]
    /\ uiCopy' = [uiCopy EXCEPT ![p] = EmptyQueue]

Resolving(t) == t.kind \in {"keep_server", "keep_local"}
Chosen(q, t) == {c \in q.conflicts : c.item.id = t.id}

\* readQueue.  A conflict that is gone ends the flow; one without the server's
\* row makes the flow throw when it looks for its version.
UiRead(p) ==
    LET t == uiTask[p] IN
    /\ uiStep[p] = "read"
    /\ IF Resolving(t) /\ Chosen(queue, t) = {}
       THEN UiLeave(p, IF t.kind = "keep_local" THEN "kick" ELSE "idle")
       ELSE IF Resolving(t) /\ \E c \in Chosen(queue, t) : ~c.snapshot
       THEN UiLeave(p, "idle")
       ELSE /\ uiStep' = [uiStep EXCEPT ![p] = "write"]
            /\ uiCopy' = [uiCopy EXCEPT ![p] = queue]
            /\ UNCHANGED uiTask
    /\ UNCHANGED <<queue, issued, clock, syncVars, wanted, timer>>

\* The queue the flow computes from its copy.
Resolved(q, t) == [q EXCEPT !.conflicts = @ \ Chosen(q, t)]
Resend(q, t, now) ==
    {[c.item EXCEPT !.id = t.newId, !.at = now] : c \in Chosen(q, t)}
UiResult(q, t, now) ==
    CASE t.kind = "mutate" -> [q EXCEPT !.outbox = @ \cup {t.item}]
      [] t.kind = "keep_server" -> Resolved(q, t)
      [] t.kind = "keep_local" -> [Resolved(q, t) EXCEPT !.outbox = @ \cup Resend(q, t, now)]
      [] t.kind = "discard" -> [q EXCEPT !.drafts = {d \in @ : d.item.id # t.id}]

\* writeQueue: the three stores are cleared and filled again.  Only a resent
\* mutation reads the clock here.
UiWrite(p, now) ==
    LET t == uiTask[p] IN
    /\ uiStep[p] = "write"
    /\ IF t.kind = "keep_local" THEN ReadClock(now) ELSE now = clock /\ UNCHANGED clock
    /\ queue' = UiResult(uiCopy[p], t, now)
    /\ UiLeave(p, IF t.kind \in {"mutate", "keep_local"} THEN "kick" ELSE "idle")
    /\ UNCHANGED <<issued, syncVars, wanted, timer>>

\* syncNow chains a run behind the one that is under way.
UiKick(p) ==
    /\ uiStep[p] = "kick"
    /\ uiStep' = [uiStep EXCEPT ![p] = "idle"]
    /\ wanted' = [wanted EXCEPT ![p] = TRUE]
    /\ UNCHANGED <<queue, issued, clock, uiTask, uiCopy, syncVars, timer>>

-------------------------------------------------------------------------------
(***************************************************************************)
(* The sync loop: runSync                                                  *)
(***************************************************************************)

SyncGoto(p, step) == syncStep' = [syncStep EXCEPT ![p] = step]
SyncLeave(p, step) ==
    /\ SyncGoto(p, step)
    /\ syncId' = [syncId EXCEPT ![p] = None]
    /\ response' = [response EXCEPT ![p] = None]
    /\ syncCopy' = [syncCopy EXCEPT ![p] = EmptyQueue]

StartRun(p) ==
    /\ syncStep[p] = "idle"
    /\ wanted[p]
    /\ SyncGoto(p, "head")
    /\ wanted' = [wanted EXCEPT ![p] = FALSE]
    /\ UNCHANGED <<queue, issued, clock, uiVars, syncId, response, syncCopy, timer>>

\* firstQueuedMutation: its first item is sent, and an empty outbox ends the
\* loop with a pull of the change feed.
ReadHead(p) ==
    /\ syncStep[p] = "head"
    /\ IF queue.outbox = {} THEN SyncGoto(p, "feed") /\ UNCHANGED syncId
       ELSE \E i \in queue.outbox :
                /\ IsHead(queue, i)
                /\ syncId' = [syncId EXCEPT ![p] = i.id]
                /\ SyncGoto(p, "sent")
    /\ UNCHANGED <<queue, issued, clock, uiVars, response, syncCopy, wanted, timer>>

\* The response to the request arrives.
Answered(p, r) ==
    /\ syncStep[p] = "sent"
    /\ r.id = syncId[p]
    /\ response' = [response EXCEPT ![p] = r]
    /\ SyncGoto(p, "read")
    /\ UNCHANGED <<queue, issued, clock, uiVars, syncId, syncCopy, wanted, timer>>

\* Mutant: nothing is scheduled after an error.
RunFailsForGood(p) == SyncLeave(p, "idle") /\ UNCHANGED <<queue, issued, clock, uiVars, wanted, timer>>

\* The run ends with an error: retry later if anything is still queued.
RunFails(p) ==
    /\ SyncLeave(p, "idle")
    /\ timer' = [timer EXCEPT ![p] = @ \/ queue.outbox # {}]
    /\ UNCHANGED <<queue, issued, clock, uiVars, wanted>>

\* No response came, or one that says nothing about the mutation.
GiveUp(p) == syncStep[p] \in {"head", "sent", "feed"} /\ RunFails(p)

\* handleMutationResponse
SyncRead(p) ==
    /\ syncStep[p] = "read"
    /\ syncCopy' = [syncCopy EXCEPT ![p] = queue]
    /\ SyncGoto(p, "write")
    /\ UNCHANGED <<queue, issued, clock, uiVars, syncId, response, wanted, timer>>

SyncWrite(p) ==
    /\ syncStep[p] = "write"
    /\ IF OutOfOrder(syncCopy[p], response[p])
       THEN RunFails(p)
       ELSE /\ queue' = ApplyResponse(syncCopy[p], response[p])
            /\ SyncLeave(p, "head")
            /\ UNCHANGED <<issued, clock, uiVars, wanted, timer>>

\* applyServerFeed: it touches the mirror and the cursor only.
FeedDone(p) ==
    /\ syncStep[p] = "feed"
    /\ SyncGoto(p, "idle")
    /\ UNCHANGED <<queue, issued, clock, uiVars, syncId, response, syncCopy, wanted, timer>>

TimerFires(p) ==
    /\ timer[p]
    /\ timer' = [timer EXCEPT ![p] = FALSE]
    /\ wanted' = [wanted EXCEPT ![p] = TRUE]
    /\ UNCHANGED <<queue, issued, clock, uiVars, syncVars>>

\* The browser is back online, or the page is visible again.
Wake(p) ==
    /\ wanted' = [wanted EXCEPT ![p] = TRUE]
    /\ UNCHANGED <<queue, issued, clock, uiVars, syncVars, timer>>

\* The page is closed or killed and opened again: what its flows held is
\* gone, the stores stay, and startSync begins a run.
Reload(p) ==
    /\ UiLeave(p, "idle")
    /\ SyncLeave(p, "idle")
    /\ wanted' = [wanted EXCEPT ![p] = TRUE]
    /\ timer' = [timer EXCEPT ![p] = FALSE]
    /\ UNCHANGED <<queue, issued, clock>>

===============================================================================
